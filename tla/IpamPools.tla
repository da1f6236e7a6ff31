------------------------------ MODULE IpamPools ------------------------------
(***************************************************************************)
(* The IPAM pool manager, the interface statuses that hold the addresses   *)
(* its pools hand out, and the rendering that asks for them, across        *)
(* updates, deletions and restarts of the process.                         *)
(*                                                                         *)
(* An interface belongs to a node or to a service; a service has one       *)
(* connection, which joins all its interfaces.  An address is a W-bit      *)
(* number.  etcd operations succeed here (Renderer has their failures).    *)
(***************************************************************************)
EXTENDS IpamAllocator, Sequences

CONSTANTS
  Pools, Nodes, Services,
  None, Nil,      \* nothing there / the nil allocator of an IPv6 pool
  IfacesOf,       \* the interfaces of a node or service, in rendering order
  PoolSpecs,      \* the specs a pool can be given
  IfaceSpecs,     \* the specs an interface can be given
  Hosts,          \* the nodes a pod can be placed on
  Requests,       \* the kinds of request the environment makes
  MaxMsgs, MaxCrashes   \* bounds: messages from outside, crashes

Entities == Nodes \cup Services
Ifaces   == UNION {{IfacesOf[e][n] : n \in 1..Len(IfacesOf[e])} : e \in Entities}
Owner(i) == CHOOSE e \in Entities : \E n \in 1..Len(IfacesOf[e]) : IfacesOf[e][n] = i
ScopeSystem  == "system"
ScopeNode    == "node"
ScopeService == "network-service"
Scopes == {ScopeSystem, ScopeNode, ScopeService}

AllocatorNames == Scopes \X Pools \X (Entities \cup {None})

RequestKinds == {"setPool", "changePool", "deletePool", "set", "delete", "deleteDown",
                 "deleteNode", "move"}

ASSUME EntitiesAssumption == Nodes \cap Services = {} /\ Hosts \subseteq Nodes
ASSUME RequestsAssumption == Requests \subseteq RequestKinds
ASSUME IfacesAssumption ==
  /\ \A e \in Entities : IfacesOf[e] \in Seq(Ifaces)
  /\ \A d, e \in Entities : \A m \in 1..Len(IfacesOf[d]), n \in 1..Len(IfacesOf[e]) :
       IfacesOf[d][m] = IfacesOf[e][n] => d = e
\* ParseCIDR masks the network of a pool.
ASSUME PoolSpecsAssumption ==
  /\ PoolSpecs \subseteq [scope : Scopes, start : U32, end : U32, hostBits : 0..W, net : U32, v6 : BOOLEAN]
  /\ \A spec \in PoolSpecs : spec.net % 2^spec.hostBits = 0
ASSUME IfaceSpecsAssumption == IfaceSpecs \subseteq [static : SUBSET U32, pools : Seq(Pools)]
ASSUME BoundsAssumption == MaxMsgs \in Nat /\ MaxCrashes \in Nat
ASSUME NothingAssumption == None \notin Entities /\ None \notin U32 /\ Nil # None

VARIABLES
  pools,       \* ipamPoolCache, and the same in etcd
  allocators,  \* ramCache.IPAMPoolAllocators
  ifStates,    \* ramCache.InterfaceStates
  entities,    \* networkNodeCache and networkServiceCache: spec and status
  saved,       \* the same in etcd
  host,        \* ramCache.NetworkPodToNodeMap, per interface of the pod
  pc,          \* "down", "panic", "boot", "idle", "render"
  todo,        \* entities RenderAll has still to visit
  cur, rest,   \* the entity being rendered, and its interfaces still to do
  msgs, crashes

work == <<todo, cur, rest>>
vars == <<pools, allocators, ifStates, entities, saved, host, pc, work, msgs, crashes>>

NoNums     == [p \in Pools |-> None]
NoStatuses == [i \in Ifaces |-> None]
NilStatus  == [oper |-> "nil", ifs |-> NoStatuses]
Up == pc \in {"boot", "idle", "render"}

\* The record kept per interface.  nums is IpamPoolNums, made tells a map from
\* a nil one, node is set once, ips are the addresses it was last given.
IfaceStatus(n) == [node |-> n, nums |-> NoNums, made |-> TRUE, ips |-> {}]

-----------------------------------------------------------------------------
(* Allocators by name.                                                     *)

\* contructAllocatorName, for the entity each scope picks.
AllocatorName(p, node, service) ==
  LET scope == pools[p].scope IN
  <<scope, p, CASE scope = ScopeSystem  -> None
                [] scope = ScopeNode    -> node
                [] scope = ScopeService -> service>>

NewAllocator(spec) == IF spec.v6 THEN Nil ELSE NewIPAMPoolAllocator(spec)

\* The names EntityCreate makes sure of, given the pools and entities known.
Wanted(ps, known) ==
  {name \in AllocatorNames :
     /\ ps[name[2]] # None /\ ps[name[2]].scope = name[1]
     /\ CASE name[1] = ScopeSystem  -> name[3] = None
          [] name[1] = ScopeNode    -> name[3] \in Nodes \cap known
          [] name[1] = ScopeService -> name[3] \in Services \cap known}

\* Mutant: no allocator is made for a new entity or pool.
EntityCreateNothing(ps, names) == allocators

\* EntityCreate: an allocator that is already there stays as it is.
EntityCreate(ps, names) ==
  [n \in AllocatorNames |->
     IF n \in names \cap Wanted(ps, Entities) /\ allocators[n] = None
     THEN NewAllocator(ps[n[2]]) ELSE allocators[n]]

\* EntityDelete(x, scope): for every pool of the scope that is still in the
\* cache.  A system pool's name does not depend on x; a nil allocator stays.
EntityDelete(ps, x, scope) ==
  [n \in AllocatorNames |->
     IF n[1] = scope /\ ps[n[2]] # None /\ ps[n[2]].scope = scope /\ allocators[n] # Nil
        /\ (scope = ScopeSystem \/ n[3] = x)
     THEN None ELSE allocators[n]]

-----------------------------------------------------------------------------
(* InitInterfaceStatus.  A result is the allocators, the status, and how   *)
(* the call ended.                                                         *)

Usable(al, p, node, service) ==
  pools[p] # None /\ al[AllocatorName(p, node, service)] # None

\* IpamPoolMgr.AllocateAddress for pool p, recorded in IpamPoolNums.
AllocateAddress(r, p, node, service) ==
  IF ~Usable(r.al, p, node, service) THEN [r EXCEPT !.end = "error"]
  ELSE LET name == AllocatorName(p, node, service)
           a == r.al[name]
       IN  IF a = Nil THEN [r EXCEPT !.end = "panic"]
           ELSE IF Exhausted(a) THEN [r EXCEPT !.end = "error"]
           ELSE IF ~r.st.made THEN [r EXCEPT !.end = "panic"]
           ELSE [al  |-> [r.al EXCEPT ![name] = AllocateIPAddress(a)],
                 st  |-> [r.st EXCEPT !.nums[p] = Allocatable(a),
                                      !.ips = @ \cup {FormatIPAddress(a, Allocatable(a))}],
                 end |-> "ok"]

\* The loop over IpamPoolNames: pools that have a number are passed over, the
\* first failure ends it.
AllocateAll(r, wanted, node, service) ==
  LET f[n \in 0..Len(wanted)] ==
        IF n = 0 THEN r
        ELSE IF f[n-1].end # "ok" \/ f[n-1].st.nums[wanted[n]] # None THEN f[n-1]
        ELSE AllocateAddress(f[n-1], wanted[n], node, service)
  IN  f[Len(wanted)]

\* The pools an interface has numbers from, and those SetAddress accepts.
Held(st) == {p \in Pools : st.nums[p] # None}
NilHeld(al, st, node, service) ==
  {p \in Held(st) : Usable(al, p, node, service) /\ al[AllocatorName(p, node, service)] = Nil}
Settable(al, st, node, service) ==
  {p \in Held(st) \ NilHeld(al, st, node, service) :
     /\ Usable(al, p, node, service)
     /\ InRange(al[AllocatorName(p, node, service)], st.nums[p])}

\* SetAddress runs over IpamPoolNums in no given order and stops at the first
\* failure: how it can end, and which numbers may have been set by then.
SetEnds(al, st, node, service) ==
  IF Settable(al, st, node, service) = Held(st) THEN {"ok"}
  ELSE {IF p \in NilHeld(al, st, node, service) THEN "panic" ELSE "error" :
          p \in Held(st) \ Settable(al, st, node, service)}
SetChoices(al, st, node, service) ==
  LET ok == Settable(al, st, node, service) IN
  IF ok = Held(st) THEN {ok} ELSE SUBSET ok

\* The allocators once the numbers of the pools ps are set.
SetAll(al, st, ps, node, service) ==
  [n \in AllocatorNames |->
     IF \E p \in ps : AllocatorName(p, node, service) = n
     THEN SetAddress(al[n], st.nums[n[2]]) ELSE al[n]]

\* The addresses InitInterfaceStatus gathers when the numbers of ps get set and
\* that loop ends with end: the static ones are copied, those of IpamPoolNums
\* and IpamPoolNames added.
GatherAddresses(i, ps, end, node, service) ==
  LET st   == IF ifStates[i] # None THEN ifStates[i] ELSE IfaceStatus(node)
      spec == entities[Owner(i)].spec[i]
      set  == {FormatIPAddress(allocators[AllocatorName(p, node, service)], st.nums[p]) : p \in ps}
      r    == [al |-> SetAll(allocators, st, ps, node, service),
               st |-> [st EXCEPT !.ips = spec.static \cup set], end |-> end]
  IN  AllocateAll(r, spec.pools, node, service)

\* SetAddressIfInPool, for every address of a status and every pool.  It parses
\* the address as a bare one, which an address in CIDR form is not, and
\* validate lets only those in: nothing is reserved.  Then it reads the name of
\* the allocator it found, and panics when that is an IPv6 pool's nil.
NilReached(al, st, node, service) ==
  /\ st.ips # {}
  /\ \E p \in Pools : Usable(al, p, node, service) /\ al[AllocatorName(p, node, service)] = Nil

\* What InitInterfaceStatus returns.
InitInterfaceStatus(i, ps, end, node, service) ==
  LET r == GatherAddresses(i, ps, end, node, service) IN
  IF r.end = "ok" /\ NilReached(r.al, r.st, node, service)
  THEN [al |-> r.al, st |-> r.st, end |-> "panic"] ELSE r

-----------------------------------------------------------------------------
(* Process life.                                                           *)

Configured(es) == {e \in Entities : es[e] # None}
NoEntities     == [e \in Entities |-> None]
NoAllocators   == [n \in AllocatorNames |-> None]
NoWork         == todo = {} /\ cur = None /\ rest = <<>>

Init ==
  /\ pools = NoNums /\ allocators = NoAllocators /\ ifStates = NoStatuses
  /\ entities = NoEntities /\ saved = NoEntities
  /\ host \in [Ifaces -> Hosts] /\ pc = "down" /\ NoWork
  /\ msgs = 0 /\ crashes = 0

ClearRAM ==
  /\ allocators' = NoAllocators /\ ifStates' = NoStatuses /\ entities' = NoEntities
  /\ todo' = {} /\ cur' = None /\ rest' = <<>>

\* An interface status as it comes back from etcd: an empty map is not stored.
Reloaded(st) == IF st = None THEN None ELSE [st EXCEPT !.made = Held(st) # {}]

\* The saved interface statuses of the loaded entities.
LoadedStates ==
  [i \in Ifaces |->
     IF saved[Owner(i)] = None THEN None ELSE Reloaded(saved[Owner(i)].status.ifs[i])]

\* Mutant: loaded numbers are not marked.
LoadedNumsUnmarked(n, choice) == {}

\* UpdateRamCacheAllocatorsForInterfaceStatus: the loaded numbers that get
\* marked in the allocator of the given name.
LoadedNums(n, choice) ==
  {LoadedStates[i].nums[n[2]] : i \in {j \in DOMAIN choice :
     n[2] \in choice[j] /\ AllocatorName(n[2], LoadedStates[j].node, Owner(j)) = n}}

\* Init: the caches are loaded, PostProcessLoadedDatastore makes the allocators
\* and marks in them the numbers of the loaded interface statuses.
Start ==
  LET fresh  == [n \in AllocatorNames |->
                   IF n \in Wanted(pools, Configured(saved)) THEN NewAllocator(pools[n[2]]) ELSE None]
      loaded == {i \in Ifaces : LoadedStates[i] # None}
      st(i)  == LoadedStates[i]
      ends   == [i \in loaded |->
                   {IF end = "ok" /\ NilReached(fresh, st(i), st(i).node, Owner(i)) THEN "panic" ELSE end :
                      end \in SetEnds(fresh, st(i), st(i).node, Owner(i))}]
  IN
  /\ ~Up
  /\ \E choice \in [loaded -> SUBSET Pools] :
       /\ \A i \in loaded : choice[i] \in SetChoices(fresh, st(i), st(i).node, Owner(i))
       /\ allocators' =
            [n \in AllocatorNames |->
               IF fresh[n] \in {None, Nil} THEN fresh[n]
               ELSE [fresh[n] EXCEPT !.allocated = LoadedNums(n, choice)]]
  /\ ifStates' = LoadedStates
  /\ entities' = [e \in Entities |->
       IF saved[e] = None THEN None
       ELSE [saved[e] EXCEPT !.status.ifs = [i \in Ifaces |-> Reloaded(@[i])]]]
  /\ \/ pc' = "boot" /\ \A i \in loaded : ends[i] # {"panic"}
     \/ pc' = "panic" /\ \E i \in loaded : "panic" \in ends[i]
  /\ UNCHANGED <<pools, saved, host, work, msgs, crashes>>

\* The Render message AfterInit sends.
BootRender ==
  /\ pc = "boot" /\ pc' = "render" /\ todo' = Configured(entities)
  /\ UNCHANGED <<pools, allocators, ifStates, entities, saved, host, cur, rest, msgs, crashes>>

Crash ==
  /\ Up /\ crashes < MaxCrashes /\ crashes' = crashes + 1
  /\ pc' = "down" /\ ClearRAM
  /\ UNCHANGED <<pools, saved, host, msgs>>

-----------------------------------------------------------------------------
(* Requests: messages of the loop, which renders everything after each, or *)
(* while it boots the entries of the start-up YAML file.                   *)

Request(kind) == kind \in Requests /\ msgs < MaxMsgs /\ msgs' = msgs + 1 /\ UNCHANGED crashes

RenderIfRunning(es) ==
  /\ pc' = IF pc = "idle" THEN "render" ELSE pc
  /\ todo' = IF pc = "idle" THEN Configured(es) ELSE todo
  /\ UNCHANGED <<cur, rest>>

\* IPAMPoolMgr.HandleCRUDOperationCU: allocators are ensured for every pool of
\* the scope; one made for an earlier spec of the pool stays.
PoolCU(p, spec) ==
  LET ps == [pools EXCEPT ![p] = spec] IN
  /\ Request(IF pools[p] = None THEN "setPool" ELSE "changePool")
  /\ pc \in {"boot", "idle"} /\ spec # pools[p]
  /\ pools' = ps
  /\ allocators' = EntityCreate(ps, {n \in Wanted(ps, Configured(entities)) : n[1] = spec.scope})
  /\ RenderIfRunning(entities)
  /\ UNCHANGED <<ifStates, entities, saved, host>>

\* IPAMPoolMgr.HandleCRUDOperationD: the pool is gone from the cache when
\* EntityDelete runs, and its name is passed as that of an entity.
PoolD(p) ==
  LET ps == [pools EXCEPT ![p] = None] IN
  /\ Request("deletePool") /\ pc = "idle" /\ pools[p] # None
  /\ pools' = ps
  /\ allocators' = EntityDelete(ps, p, pools[p].scope)
  /\ RenderIfRunning(entities)
  /\ UNCHANGED <<ifStates, entities, saved, host>>

\* The scope of the pools a node or a service has allocators of its own in.
ScopeOf(e) == IF e \in Nodes THEN ScopeNode ELSE ScopeService

\* Mutant: the entity keeps the status it had.
EntityCUKeepsStatus(e, spec) ==
  LET new == [spec |-> spec, status |-> IF entities[e] = None THEN NilStatus ELSE entities[e].status]
  IN
  /\ Request("set") /\ pc \in {"boot", "idle"}
  /\ entities' = [entities EXCEPT ![e] = new] /\ saved' = [saved EXCEPT ![e] = new]
  /\ allocators' = EntityCreate(pools, {n \in AllocatorNames : n[1] = ScopeOf(e) /\ n[3] = e})
  /\ RenderIfRunning(entities')
  /\ UNCHANGED <<pools, ifStates, host>>

\* HandleCRUDOperationCU of a node or service: the status starts empty, in the
\* cache and in etcd; the interface statuses in RAM stay.
EntityCU(e, spec) ==
  LET new == [spec |-> spec, status |-> NilStatus] IN
  /\ Request("set") /\ pc \in {"boot", "idle"}
  /\ entities' = [entities EXCEPT ![e] = new] /\ saved' = [saved EXCEPT ![e] = new]
  /\ allocators' = EntityCreate(pools, {n \in AllocatorNames : n[1] = ScopeOf(e) /\ n[3] = e})
  /\ RenderIfRunning(entities')
  /\ UNCHANGED <<pools, ifStates, host>>

\* HandleCRUDOperationD of a node or service: DeleteInterfaceEntries removes
\* what its Status lists, EntityDelete its own allocators.
EntityD(e) ==
  /\ pc = "idle" /\ entities[e] # None
  /\ Request(CASE e \in Nodes -> "deleteNode"
                [] entities[e].status.oper = "Down" -> "deleteDown"
                [] OTHER -> "delete")
  /\ ifStates' = [i \in Ifaces |-> IF entities[e].status.ifs[i] # None THEN None ELSE ifStates[i]]
  /\ entities' = [entities EXCEPT ![e] = None] /\ saved' = [saved EXCEPT ![e] = None]
  /\ allocators' = EntityDelete(pools, e, ScopeOf(e))
  /\ RenderIfRunning(entities')
  /\ UNCHANGED <<pools, host>>

\* The pod of an interface is found on another node, and the map is resynced.
Move(i, n) ==
  /\ Request("move") /\ pc = "idle" /\ Owner(i) \in Services /\ host[i] # n
  /\ host' = [host EXCEPT ![i] = n]
  /\ RenderIfRunning(entities)
  /\ UNCHANGED <<pools, allocators, ifStates, entities, saved>>

-----------------------------------------------------------------------------
(* RenderAll: nodes, then services, each kind in no given order.           *)

NodeOf(i) == IF Owner(i) \in Nodes THEN Owner(i) ELSE host[i]

\* renderConfig up to its first interface.  A connection with a pod on a node
\* that is not configured fails before any of its interfaces is looked at.
RenderStart(e) ==
  LET placed == \A n \in 1..Len(IfacesOf[e]) : entities[NodeOf(IfacesOf[e][n])] # None IN
  /\ pc = "render" /\ cur = None /\ e \in todo /\ (e \in Nodes \/ todo \cap Nodes = {})
  /\ cur' = e /\ todo' = todo \ {e}
  /\ rest' = IF placed THEN IfacesOf[e] ELSE <<>>
  /\ entities' = [entities EXCEPT ![e].status =
       [oper |-> IF placed THEN "" ELSE "Down", ifs |-> NoStatuses]]
  /\ UNCHANGED <<pools, allocators, ifStates, saved, host, pc, msgs, crashes>>

\* A message in the status means that something went wrong.
Verdict(oper) == IF oper = "" THEN "Up" ELSE "Down"

\* One interface: InitInterfaceStatus, then PersistInterfaceStatus, or after an
\* error RemoveInterfaceStatus and the end of the entity's rendering.  A panic
\* still runs the deferred renderComplete, which saves the entity as it is.
RenderInterface ==
  LET i  == Head(rest)
      st == IF ifStates[i] # None THEN ifStates[i] ELSE IfaceStatus(NodeOf(i))
  IN
  /\ cur # None /\ rest # <<>>
  /\ \E ps \in SetChoices(allocators, st, NodeOf(i), Owner(i)),
        end \in SetEnds(allocators, st, NodeOf(i), Owner(i)) :
       LET r == InitInterfaceStatus(i, ps, end, NodeOf(i), Owner(i)) IN
       \/ /\ r.end = "panic"
          /\ pc' = "panic" /\ ClearRAM
          /\ saved' = [saved EXCEPT ![cur] = [entities[cur] EXCEPT !.status.oper = Verdict(@)]]
       \/ /\ r.end = "ok"
          /\ allocators' = r.al /\ ifStates' = [ifStates EXCEPT ![i] = r.st]
          /\ entities' = [entities EXCEPT ![cur].status.ifs[i] = r.st]
          /\ rest' = Tail(rest) /\ UNCHANGED <<saved, pc, todo, cur>>
       \/ /\ r.end = "error"
          /\ allocators' = r.al /\ ifStates' = [ifStates EXCEPT ![i] = None]
          /\ entities' = [entities EXCEPT ![cur].status.ifs[i] = None, ![cur].status.oper = "Down"]
          /\ rest' = <<>> /\ UNCHANGED <<saved, pc, todo, cur>>
  /\ UNCHANGED <<pools, host, msgs, crashes>>

\* Mutant: the status is not written back.
RenderCompleteUnsaved ==
  /\ cur # None /\ rest = <<>>
  /\ entities' = [entities EXCEPT ![cur].status.oper = Verdict(@)]
  /\ cur' = None
  /\ UNCHANGED <<pools, allocators, ifStates, saved, host, pc, todo, rest, msgs, crashes>>

\* renderComplete: the verdict, and the entity with its status to etcd.
RenderComplete ==
  /\ cur # None /\ rest = <<>>
  /\ entities' = [entities EXCEPT ![cur].status.oper = Verdict(@)]
  /\ saved' = [saved EXCEPT ![cur] = entities'[cur]]
  /\ cur' = None
  /\ UNCHANGED <<pools, allocators, ifStates, host, pc, todo, rest, msgs, crashes>>

RenderEnd ==
  /\ pc = "render" /\ cur = None /\ todo = {} /\ pc' = "idle"
  /\ UNCHANGED <<pools, allocators, ifStates, entities, saved, host, work, msgs, crashes>>

SpecsOf(e) == [{IfacesOf[e][n] : n \in 1..Len(IfacesOf[e])} -> IfaceSpecs]

Next ==
  \/ Start \/ BootRender \/ Crash
  \/ \E p \in Pools : PoolD(p) \/ \E spec \in PoolSpecs : PoolCU(p, spec)
  \/ \E e \in Entities : EntityD(e) \/ RenderStart(e) \/ \E spec \in SpecsOf(e) : EntityCU(e, spec)
  \/ \E i \in Ifaces, n \in Hosts : Move(i, n)
  \/ RenderInterface \/ RenderComplete \/ RenderEnd

Spec == Init /\ [][Next]_vars

-----------------------------------------------------------------------------
(* Properties.                                                             *)

Ids == U32 \cup {None}
IfaceStatuses == [node : Nodes, nums : [Pools -> Ids], made : BOOLEAN, ips : SUBSET U32]
EntityRecords(e) ==
  [spec : SpecsOf(e),
   status : [oper : {"nil", "", "Up", "Down"}, ifs : [Ifaces -> IfaceStatuses \cup {None}]]]
Allocators ==
  [start : U32, end : U32, next : U32, total : U32, net : U32, allocated : SUBSET U32]

ASSUME RecordsAssumption == \A x \in {None, Nil} :
  x \notin Allocators /\ x \notin IfaceStatuses /\ \A e \in Entities : x \notin EntityRecords(e)

\* Every variable holds a value of its kind; in particular every id and every
\* range stays an unsigned integer of W bits.
TypeOK ==
  /\ pools \in [Pools -> PoolSpecs \cup {None}]
  /\ allocators \in [AllocatorNames -> Allocators \cup {None, Nil}]
  /\ ifStates \in [Ifaces -> IfaceStatuses \cup {None}]
  /\ \A e \in Entities : {entities[e], saved[e]} \subseteq EntityRecords(e) \cup {None}
  /\ host \in [Ifaces -> Hosts]
  /\ pc \in {"down", "panic", "boot", "idle", "render"}
  /\ todo \subseteq Entities /\ cur \in Entities \cup {None} /\ rest \in Seq(Ifaces)
  /\ msgs \in 0..MaxMsgs /\ crashes \in 0..MaxCrashes

\* AllocateIPAddress "allocates a free ip address": two interfaces never hold
\* the same number of the same allocator, through updates, failed renderings,
\* exhaustion, crashes and the marking done at a restart.
AddressesUnique ==
  Up => \A i, j \in Ifaces, p \in Pools :
    i # j /\ ifStates[i] # None /\ ifStates[j] # None /\ pools[p] # None
    /\ AllocatorName(p, NodeOf(i), Owner(i)) = AllocatorName(p, NodeOf(j), Owner(j))
    /\ ifStates[i].nums[p] # None => ifStates[i].nums[p] # ifStates[j].nums[p]

\* At rest, what etcd holds about an entity that is up is what RAM holds, so a
\* restart gives every one of its interfaces the number it has now.
RestartKeepsAddresses ==
  pc = "idle" => \A e \in Configured(entities) : entities[e].status.oper = "Up" =>
    /\ saved[e] = entities[e]
    /\ \A n \in 1..Len(IfacesOf[e]) : saved[e].status.ifs[IfacesOf[e][n]] = ifStates[IfacesOf[e][n]]

\* A panic of InitInterfaceStatus (a write to an IpamPoolNums map that came
\* back from etcd as nil) cannot repeat: no status etcd ever holds has a nil
\* map for an interface whose saved spec asks for an address.
NoPanicLoop ==
  \A i \in Ifaces : LoadedStates[i] # None /\ ~LoadedStates[i].made =>
    saved[Owner(i)].spec[i].pools = <<>>

\* An entity that is down at rest has a reason that is there to be seen: a pod
\* on no configured node, or a pool that is missing, of another entity's scope,
\* or used up.
DownHasCause ==
  pc = "idle" => \A e \in Configured(entities) : entities[e].status.oper = "Down" =>
    \E n \in 1..Len(IfacesOf[e]) : LET i == IfacesOf[e][n] IN
      \/ entities[NodeOf(i)] = None
      \/ \E m \in 1..Len(entities[e].spec[i].pools) : LET p == entities[e].spec[i].pools[m] IN
           \/ pools[p] = None
           \/ pools[p].scope = ScopeService /\ e \in Nodes
           \/ LET a == allocators[AllocatorName(p, NodeOf(i), e)] IN a # None /\ Exhausted(a)

\* "AllocateIPAddress allocates a free ip address from the pool": the number
\* an interface holds is one of its pool's range, and where that range ends
\* before the network's broadcast address, as it does unless a later end is
\* configured, which nothing refuses, the address made of it is one of the
\* network's and neither the network's own address nor its broadcast address.
HostAddresses ==
  \A i \in Ifaces, p \in Pools : ifStates[i] # None /\ pools[p] # None /\ ifStates[i].nums[p] # None =>
    LET num  == ifStates[i].nums[p]
        size == 2^pools[p].hostBits
        addr == BitOr(pools[p].net, num)
    IN  /\ InRange(NewIPAMPoolAllocator(pools[p]), num)
        /\ pools[p].end < size - 1 =>
             addr \div size = pools[p].net \div size /\ addr % size \notin {0, size - 1}
=============================================================================

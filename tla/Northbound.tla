------------------------------ MODULE Northbound ------------------------------
(***************************************************************************)
(* How requests reach the controller: the HTTP handlers of nodes and       *)
(* services, the etcd watcher of their keys, the unbuffered channel both   *)
(* send on, and the one loop that receives, changes the cache and etcd,    *)
(* and renders.                                                            *)
(*                                                                         *)
(* An HTTP handler answers as soon as its message is received, which is    *)
(* before it is applied.  The watcher sees every change of etcd, the       *)
(* controller's own included, and turns deletions into Delete messages.    *)
(* Rendering is here the one thing of it etcd watchers see: the record of  *)
(* every entity is written back with its status.  etcd does not fail.      *)
(***************************************************************************)
EXTENDS Naturals, Sequences

CONSTANTS
  Names,          \* entity names
  Specs, Valid,   \* what can be posted, and what validate accepts
  Clients,        \* HTTP clients, each with one request at a time
  None,
  MaxRequests, MaxExternal, MaxCrashes  \* bounds: requests, deletions by others, crashes

ASSUME SpecsAssumption == Valid \subseteq Specs /\ None \notin Specs \cup Names
ASSUME SendersAssumption == {"watcher", "AfterInit"} \cap Clients = {}

VARIABLES
  cache, etcd,   \* the spec of every entity: in the manager's cache, in etcd
  watching,      \* the etcd watch is established
  events,        \* etcd changes the watcher has not looked at
  watcher,       \* the message the watcher is sending, or None
  boot,          \* the messages AfterInit has still to send
  client,        \* the request of each client and where its handler is
  sendq,         \* goroutines blocked on the channel, in order
  pc,            \* "down", "init", "receive", "handle", "store", "render"
  msg,           \* the message the loop works on
  enabled, pending,   \* isRenderingEnabled, isRenderingPending
  todo,          \* entities RenderAll has still to visit
  last,          \* history: what the last answered request should leave
  missed,        \* history: an etcd deletion no watcher will report
  requests, externals, crashes

store  == <<cache, etcd>>
watch  == <<watching, events, watcher>>
loop   == <<pc, msg, enabled, pending, todo>>
bounds == <<requests, externals, crashes>>
vars   == <<store, watch, boot, client, sendq, loop, last, missed, bounds>>

CU(n, s) == [op |-> "CreateUpdate", name |-> n, spec |-> s]
D(n)     == [op |-> "Delete", name |-> n, spec |-> None]
Sys(op)  == [op |-> op, name |-> None, spec |-> None]
Messages == {CU(n, s) : n \in Names, s \in Valid} \cup {D(n) : n \in Names}
BootMessages == <<Sys("EnableRenderer"), Sys("Resync"), Sys("Render")>>
Idle     == [at |-> "idle", req |-> D(None), how |-> "", calm |-> FALSE]
Unknown  == [calm |-> FALSE, spec |-> None]

ASSUME NoneAssumption == None \notin Messages

Running == pc \notin {"down", "init"}

\* No request, message or deletion event is on its way to the cache.
Settled ==
  /\ pc = "receive" /\ sendq = <<>> /\ watcher = None
  /\ \A j \in 1..Len(events) : events[j].op # "Delete"
Quiet == Settled /\ boot = <<>> /\ watching /\ \A c \in Clients : client[c] = Idle

Init ==
  /\ cache = [n \in Names |-> None] /\ etcd = [n \in Names |-> None]
  /\ watching = FALSE /\ events = <<>> /\ watcher = None
  /\ boot = <<>> /\ client = [c \in Clients |-> Idle] /\ sendq = <<>>
  /\ pc = "down" /\ msg = None /\ enabled = FALSE /\ pending = FALSE /\ todo = {}
  /\ last = [n \in Names |-> Unknown] /\ missed = FALSE
  /\ requests = 0 /\ externals = 0 /\ crashes = 0

\* etcd reports a change to whoever watches.
Notify(m) == events' = IF watching THEN Append(events, m) ELSE events

-----------------------------------------------------------------------------
(* Process life.                                                           *)

\* Plugin.Init: the cache is loaded from etcd.
Start ==
  /\ pc = "down" /\ pc' = "init" /\ cache' = etcd /\ missed' = FALSE
  /\ UNCHANGED <<etcd, watch, boot, client, sendq, msg, enabled, pending, todo, last, bounds>>

\* AfterInit: handlers are registered, the watcher's and the loop's goroutines
\* are started, and the three messages of start-up are to be sent.
AfterInit ==
  /\ pc = "init" /\ pc' = "receive" /\ boot' = BootMessages
  /\ UNCHANGED <<store, watch, client, sendq, msg, enabled, pending, todo, last, missed, bounds>>

\* AfterInit's next AddOperationMsgToQueue.
BootSend ==
  /\ boot # <<>> /\ \A j \in 1..Len(sendq) : sendq[j] # "AfterInit"
  /\ sendq' = Append(sendq, "AfterInit")
  /\ UNCHANGED <<store, watch, boot, client, loop, last, missed, bounds>>

\* The watcher's goroutine gets to register its watch.
InitWatcher ==
  /\ Running /\ ~watching /\ watching' = TRUE
  /\ UNCHANGED <<store, events, watcher, boot, client, sendq, loop, last, missed, bounds>>

\* Requests under way are lost with the process, and so are events.
Crash ==
  /\ pc # "down" /\ crashes < MaxCrashes /\ crashes' = crashes + 1
  /\ cache' = [n \in Names |-> None]
  /\ watching' = FALSE /\ events' = <<>> /\ watcher' = None
  /\ boot' = <<>> /\ client' = [c \in Clients |-> Idle] /\ sendq' = <<>>
  /\ pc' = "down" /\ msg' = None /\ enabled' = FALSE /\ pending' = FALSE /\ todo' = {}
  /\ last' = [n \in Names |-> Unknown]
  /\ UNCHANGED <<etcd, missed, requests, externals>>

\* Someone else deletes the key of an entity.
ExternalDelete(n) ==
  /\ externals < MaxExternal /\ externals' = externals + 1
  /\ etcd[n] # None /\ etcd' = [etcd EXCEPT ![n] = None]
  /\ Notify(D(n)) /\ missed' = (missed \/ (pc # "down" /\ ~watching))
  /\ last' = [last EXCEPT ![n] = Unknown]
  /\ client' = [c \in Clients |-> [client[c] EXCEPT !.calm = @ /\ client[c].req.name # n]]
  /\ UNCHANGED <<cache, watching, watcher, boot, sendq, loop, requests, crashes>>

-----------------------------------------------------------------------------
(* HTTP handlers.                                                          *)

Goto(c, at, how) == client' = [client EXCEPT ![c].at = at, ![c].how = how]

\* A POST is read and parsed; a DELETE goes on to send its message.
Request(c, m) ==
  /\ Running /\ client[c] = Idle /\ requests < MaxRequests /\ requests' = requests + 1
  /\ client' = [d \in Clients |->
       IF d = c
       THEN [at |-> IF m.op = "Delete" THEN "send" ELSE "read", req |-> m, how |-> "queued",
             calm |-> Settled /\ \A e \in Clients : client[e] = Idle]
       ELSE [client[d] EXCEPT !.calm = @ /\ client[d].req.name # m.name]]
  /\ sendq' = IF m.op = "Delete" THEN Append(sendq, c) ELSE sendq
  /\ UNCHANGED <<store, watch, boot, loop, last, missed, externals, crashes>>

\* Mutant: an entity that exists is taken to be configured already.
ProcessPostIfExists(c) ==
  LET m == client[c].req IN
  /\ client[c].at = "read"
  /\ \/ cache[m.name] # None /\ Goto(c, "reply", "shortcut") /\ UNCHANGED sendq
     \/ cache[m.name] = None /\ m.spec \notin Valid /\ Goto(c, "reply", "refused") /\ UNCHANGED sendq
     \/ /\ cache[m.name] = None /\ m.spec \in Valid
        /\ Goto(c, "send", "queued") /\ sendq' = Append(sendq, c)
  /\ UNCHANGED <<store, watch, boot, loop, last, missed, bounds>>

\* Mutant: validate is not called.
ProcessPostUnvalidated(c) ==
  LET m == client[c].req IN
  /\ client[c].at = "read"
  /\ \/ cache[m.name] = m.spec /\ Goto(c, "reply", "shortcut") /\ UNCHANGED sendq
     \/ cache[m.name] # m.spec /\ Goto(c, "send", "queued") /\ sendq' = Append(sendq, c)
  /\ UNCHANGED <<store, watch, boot, loop, last, missed, bounds>>

\* ProcessPost: OK at once if the cache holds the same configuration, an error
\* if the new one is not valid, and a message to the loop otherwise.
ProcessPost(c) ==
  LET m == client[c].req IN
  /\ client[c].at = "read"
  /\ \/ cache[m.name] = m.spec /\ Goto(c, "reply", "shortcut") /\ UNCHANGED sendq
     \/ cache[m.name] # m.spec /\ m.spec \notin Valid /\ Goto(c, "reply", "refused") /\ UNCHANGED sendq
     \/ /\ cache[m.name] # m.spec /\ m.spec \in Valid
        /\ Goto(c, "send", "queued") /\ sendq' = Append(sendq, c)
  /\ UNCHANGED <<store, watch, boot, loop, last, missed, bounds>>

\* The handler returns; unless it refused, it has answered OK.
Reply(c) ==
  LET r == client[c] IN
  /\ r.at = "reply" /\ client' = [client EXCEPT ![c] = Idle]
  /\ last' = IF r.how = "refused" THEN last
             ELSE [last EXCEPT ![r.req.name] = [calm |-> r.calm, spec |-> r.req.spec]]
  /\ UNCHANGED <<store, watch, boot, sendq, loop, missed, bounds>>

-----------------------------------------------------------------------------
(* The watcher.                                                            *)

\* Mutant: deletions are not sent on.
WatchNothing ==
  /\ events # <<>> /\ watcher = None /\ events' = Tail(events)
  /\ UNCHANGED <<store, watching, watcher, sendq, boot, client, loop, last, missed, bounds>>

\* InitAndRunWatcher's loop: a deletion becomes a Delete message, whoever made
\* it; a change is dropped.
Watch ==
  /\ events # <<>> /\ watcher = None /\ events' = Tail(events)
  /\ \/ /\ Head(events).op = "Delete"
        /\ watcher' = Head(events) /\ sendq' = Append(sendq, "watcher")
     \/ Head(events).op # "Delete" /\ UNCHANGED <<watcher, sendq>>
  /\ UNCHANGED <<store, watching, boot, client, loop, last, missed, bounds>>

-----------------------------------------------------------------------------
(* ProcessOperationalMessages.                                             *)

\* A receive takes the message of the goroutine blocked longest and lets that
\* goroutine go on.
Receive ==
  LET s == Head(sendq) IN
  /\ pc = "receive" /\ sendq # <<>> /\ sendq' = Tail(sendq) /\ pc' = "handle"
  /\ \/ s = "watcher" /\ msg' = watcher /\ watcher' = None /\ UNCHANGED <<boot, client>>
     \/ s = "AfterInit" /\ msg' = Head(boot) /\ boot' = Tail(boot) /\ UNCHANGED <<watcher, client>>
     \/ s \in Clients /\ msg' = client[s].req /\ Goto(s, "reply", "queued") /\ UNCHANGED <<watcher, boot>>
  /\ UNCHANGED <<store, watching, events, enabled, pending, todo, last, missed, bounds>>

\* Mutant: waiting senders make the loop send itself a Render message, which
\* nobody else receives.
RenderIfPendingSelfSend(on, p) ==
  IF on /\ p
  THEN pc' = (IF sendq # <<>> THEN "selfsend" ELSE "render") /\ pending' = FALSE
       /\ todo' = {n \in Names : cache'[n] # None}
  ELSE pc' = "receive" /\ pending' = p /\ UNCHANGED todo

\* The end of a turn: a render when enabled and pending.  len(channel) is 0 for
\* an unbuffered channel, however many senders wait, so none is put off.
RenderIfPending(on, p) ==
  IF on /\ p
  THEN pc' = "render" /\ pending' = FALSE /\ todo' = {n \in Names : cache'[n] # None}
  ELSE pc' = "receive" /\ pending' = p /\ UNCHANGED todo

\* The messages of start-up.  A resync that changes the pod map asks for a
\* render.
HandleSystem ==
  /\ pc = "handle" /\ msg.op \in {"EnableRenderer", "Resync", "Render"}
  /\ enabled' = (enabled \/ msg.op = "EnableRenderer")
  /\ \E changed \in BOOLEAN :
       /\ changed => msg.op = "Resync"
       /\ UNCHANGED store /\ RenderIfPending(enabled', pending \/ changed \/ msg.op = "Render")
  /\ msg' = None
  /\ UNCHANGED <<watch, boot, client, sendq, last, missed, bounds>>

\* HandleCRUDOperationCU and D, up to the change of the cache.
HandleCU ==
  /\ pc = "handle" /\ msg.op = "CreateUpdate" /\ pc' = "store"
  /\ cache' = [cache EXCEPT ![msg.name] = msg.spec]
  /\ UNCHANGED <<etcd, watch, boot, client, sendq, msg, enabled, pending, todo, last, missed, bounds>>

HandleD ==
  /\ pc = "handle" /\ msg.op = "Delete" /\ cache[msg.name] # None /\ pc' = "store"
  /\ cache' = [cache EXCEPT ![msg.name] = None]
  /\ UNCHANGED <<etcd, watch, boot, client, sendq, msg, enabled, pending, todo, last, missed, bounds>>

\* HandleCRUDOperationD of an entity that is not there.
HandleDMissing ==
  /\ pc = "handle" /\ msg.op = "Delete" /\ cache[msg.name] = None
  /\ UNCHANGED store /\ RenderIfPending(enabled, TRUE) /\ msg' = None
  /\ UNCHANGED <<watch, boot, client, sendq, enabled, last, missed, bounds>>

\* Mutant: a deleted entity stays in etcd.
StoreKeepsDeleted ==
  /\ pc = "store" /\ UNCHANGED cache
  /\ etcd' = IF msg.op = "Delete" THEN etcd ELSE [etcd EXCEPT ![msg.name] = msg.spec]
  /\ Notify(msg) /\ RenderIfPending(enabled, TRUE) /\ msg' = None
  /\ UNCHANGED <<watching, watcher, boot, client, sendq, enabled, last, missed, bounds>>

\* The rest of the two: the entity is written to etcd, or deleted from it.  A
\* delete of a key that is not there is no event.
Store ==
  /\ pc = "store" /\ UNCHANGED cache
  /\ etcd' = [etcd EXCEPT ![msg.name] = msg.spec]
  /\ IF msg.op = "Delete" /\ etcd[msg.name] = None THEN UNCHANGED events ELSE Notify(msg)
  /\ RenderIfPending(enabled, TRUE) /\ msg' = None
  /\ UNCHANGED <<watching, watcher, boot, client, sendq, enabled, last, missed, bounds>>

\* renderComplete writes the entity, with its status, to etcd.
RenderEntity(n) ==
  /\ pc = "render" /\ n \in todo /\ todo' = todo \ {n}
  /\ etcd' = [etcd EXCEPT ![n] = cache[n]] /\ Notify(CU(n, cache[n]))
  /\ UNCHANGED <<cache, watching, watcher, boot, client, sendq, pc, msg, enabled, pending, last, missed, bounds>>

RenderEnd ==
  /\ pc = "render" /\ todo = {} /\ pc' = "receive"
  /\ UNCHANGED <<store, watch, boot, client, sendq, msg, enabled, pending, todo, last, missed, bounds>>

-----------------------------------------------------------------------------

LoopStep ==
  \/ Receive \/ HandleSystem \/ HandleCU \/ HandleD \/ HandleDMissing \/ Store
  \/ RenderEnd \/ \E n \in Names : RenderEntity(n)
Handler(c) == ProcessPost(c) \/ Reply(c)

Next ==
  \/ Start \/ AfterInit \/ BootSend \/ InitWatcher \/ Crash \/ Watch \/ LoopStep
  \/ \E n \in Names : ExternalDelete(n)
  \/ \E c \in Clients : Handler(c) \/ \E n \in Names :
       Request(c, D(n)) \/ \E s \in Specs : Request(c, CU(n, s))

Spec == Init /\ [][Next]_vars

\* The Go scheduler runs every goroutine that can run: the loop, the watcher,
\* AfterInit and each handler.  Nobody has to make a request.
FairSpec ==
  /\ Spec
  /\ WF_vars(Start) /\ WF_vars(AfterInit) /\ WF_vars(BootSend) /\ WF_vars(InitWatcher)
  /\ WF_vars(Watch) /\ WF_vars(LoopStep) /\ \A c \in Clients : WF_vars(Handler(c))

-----------------------------------------------------------------------------
(* Properties.                                                             *)

\* Every variable holds a value of its kind; what is in the cache, in etcd and
\* on the channel has passed validate.
TypeOK ==
  /\ cache \in [Names -> Valid \cup {None}] /\ etcd \in [Names -> Valid \cup {None}]
  /\ watching \in BOOLEAN /\ events \in Seq(Messages) /\ watcher \in Messages \cup {None}
  /\ \E k \in 0..3 : boot = SubSeq(BootMessages, k + 1, 3)
  /\ \A c \in Clients : client[c].at \in {"idle", "read", "send", "reply"}
  /\ sendq \in Seq(Clients \cup {"watcher", "AfterInit"})
  /\ pc \in {"down", "init", "receive", "handle", "store", "render"}
  /\ msg \in Messages \cup {None} \cup {BootMessages[k] : k \in 1..3}
  /\ enabled \in BOOLEAN /\ pending \in BOOLEAN /\ todo \subseteq Names

\* When nothing is under way the cache and etcd hold the same configuration,
\* whatever requests, deletions by others, watch events, renders that write
\* records back, crashes and restarts came before: unless a deletion fell
\* between the load of the cache and the start of the watch.
CacheMatchesStore == Quiet /\ ~missed => cache = etcd

\* A request made when nothing was on its way to the cache, not overtaken by
\* another, and answered OK, determines the configuration until the next
\* request, deletion or crash.
CalmRequestSticks ==
  Quiet => \A n \in Names : last[n].calm => cache[n] = last[n].spec

\* Every handler returns: no cycle of goroutines waiting for each other on the
\* unbuffered channel, none passed over for ever.
Answered == \A c \in Clients : client[c] # Idle ~> client[c] = Idle

\* Once requests stop everything comes to rest: the controller's own writes,
\* which the watcher sees, do not keep it busy.
ComesToRest == <>[](\A c \in Clients : client[c] = Idle) => <>[]Quiet

\* A deletion the watch has reported is carried out.
DeletionCarriedOut ==
  \A n \in Names : (\E j \in 1..Len(events) : events[j] = D(n)) ~> cache[n] = None
=============================================================================

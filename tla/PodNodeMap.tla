----------------------------- MODULE PodNodeMap -----------------------------
(***************************************************************************)
(* Where the pods are: the map that users configure, the map that the      *)
(* Contiv KSR keeps in etcd, the merged map that the renderer reads, and   *)
(* the messages that bring them together (networkpodnodemap.go,            *)
(* ProcessOperationalMessages).  A goroutine that is blocked on the channel*)
(* is an element of sendq, in the order of arrival.  One iteration of the  *)
(* loop is one action.  A map is a function on some of the pods.           *)
(***************************************************************************)
EXTENDS Sequences, Functions, Naturals

CONSTANTS Pods, Nodes,
          MaxReqs,      \* bound: requests of users
          MaxMoves,     \* bound: changes by the KSR
          MaxStops,     \* bound: crashes
          MaxFaults     \* bound: failed writes and deletes

ASSUME BoundsAssumption == {MaxReqs, MaxMoves, MaxStops, MaxFaults} \subseteq Nat

VARIABLES config,       \* etcd: the users' map
          contiv,       \* etcd: the KSR's map
          cache,        \* networkPodNodeCache
          ram,          \* ramCache.NetworkPodToNodeMap
          rendered,     \* the map that the last render has read
          up, enabled, pending,
          boot,         \* the messages AfterInit has yet to send
          sendq,
          watching,     \* the watches are registered
          moves,        \* the KSR's changes that the watch has yet to report
          echoes,       \* deletions that the users' watch has yet to report
          asked,        \* history: the map that the users' requests make, as handled
          overtaken,    \* history: a pod was placed before its deletion was reported
          reqs, movesDone, stops, faults

env  == <<reqs, movesDone, stops, faults>>
hist == <<asked, overtaken>>
mem  == <<cache, ram, up, enabled, pending, boot, sendq, watching, moves, echoes>>
vars == <<config, contiv, rendered, mem, hist, env>>

Maps == UNION {[S -> Nodes] : S \in SUBSET Pods}
NoMap == [p \in {} |-> ""]
Without(f, x) == Restrict(f, DOMAIN f \ {x})
Over(f, g) == [x \in DOMAIN f \cup DOMAIN g |-> IF x \in DOMAIN f THEN f[x] ELSE g[x]]
With(f, p, n) == Over([x \in {p} |-> n], f)

Msg(from, op, pod, node) == [from |-> from, op |-> op, pod |-> pod, node |-> node]

\* Mutant: a channel with a buffer blocks no sender.
Buffered(from) == FALSE

\* A goroutine is blocked until its message is received.
Sending(from) == \E n \in DOMAIN sendq : sendq[n].from = from
AddOperationMsgToQueue(m) == sendq' = Append(sendq, m)

-----------------------------------------------------------------------------
(* Start and stop.                                                         *)

Down ==
    /\ cache = NoMap /\ ram = NoMap /\ up = FALSE /\ enabled = FALSE /\ pending = FALSE
    /\ boot = <<>> /\ sendq = <<>> /\ watching = FALSE /\ moves = 0 /\ echoes = <<>>

Init ==
    /\ config \in Maps /\ contiv \in Maps /\ rendered = NoMap /\ Down
    /\ asked = config /\ overtaken = FALSE
    /\ reqs = 0 /\ movesDone = 0 /\ stops = 0 /\ faults = 0

\* Init loads the users' map into both caches.  AfterInit then sends three
\* messages, one after the other.
Start ==
    /\ ~up
    /\ up' = TRUE /\ cache' = config /\ ram' = config
    /\ boot' = <<"EnableRenderer", "Resync", "Render">>
    /\ UNCHANGED <<config, contiv, rendered, enabled, pending, sendq, watching, moves, echoes,
                   hist, env>>

AfterInit ==
    /\ boot # <<>> /\ ~Sending("AfterInit")
    /\ AddOperationMsgToQueue(Msg("AfterInit", Head(boot), "", ""))
    /\ boot' = Tail(boot)
    /\ UNCHANGED <<config, contiv, rendered, cache, ram, up, enabled, pending, watching, moves,
                   echoes, hist, env>>

Crash ==
    /\ up /\ stops < MaxStops
    /\ stops' = stops + 1
    /\ cache' = NoMap /\ ram' = NoMap /\ up' = FALSE /\ enabled' = FALSE /\ pending' = FALSE
    /\ boot' = <<>> /\ sendq' = <<>> /\ watching' = FALSE /\ moves' = 0 /\ echoes' = <<>>
    /\ UNCHANGED <<config, contiv, rendered, hist, reqs, movesDone, faults>>

-----------------------------------------------------------------------------
(* Senders.                                                                *)

SendOnly ==
    UNCHANGED <<config, contiv, rendered, cache, ram, up, enabled, pending, boot, watching, hist>>

\* A location that the users' map has already is answered at once.
ProcessPost(p, n) ==
    /\ up /\ reqs < MaxReqs
    /\ reqs' = reqs + 1
    /\ IF p \in DOMAIN cache /\ cache[p] = n THEN UNCHANGED sendq
       ELSE AddOperationMsgToQueue(Msg("http", "CreateUpdate", p, n))
    /\ SendOnly /\ UNCHANGED <<moves, echoes, movesDone, stops, faults>>

ProcessDelete(p) ==
    /\ up /\ reqs < MaxReqs
    /\ reqs' = reqs + 1
    /\ AddOperationMsgToQueue(Msg("http", "Delete", p, ""))
    /\ SendOnly /\ UNCHANGED <<moves, echoes, movesDone, stops, faults>>

\* Both watches; what changed before is not reported.
RegisterWatches ==
    /\ up /\ ~watching
    /\ watching' = TRUE
    /\ UNCHANGED <<config, contiv, rendered, cache, ram, up, enabled, pending, boot, sendq, moves,
                   echoes, hist, env>>

\* The broker's watch has taken the prefix off the key: what is left is the name
\* of the pod, as in a user's request.
InitAndRunWatcher ==
    /\ echoes # <<>> /\ ~Sending("watcher")
    /\ AddOperationMsgToQueue(Msg("watcher", "Delete", Head(echoes), ""))
    /\ echoes' = Tail(echoes)
    /\ SendOnly /\ UNCHANGED <<moves, env>>

RunContivKSRWatcher ==
    /\ moves > 0 /\ ~Sending("ksr")
    /\ AddOperationMsgToQueue(Msg("ksr", "Resync", "", ""))
    /\ moves' = moves - 1
    /\ SendOnly /\ UNCHANGED <<echoes, env>>

Ticker ==
    /\ up /\ ~Sending("ticker")
    /\ AddOperationMsgToQueue(Msg("ticker", "Resync", "", ""))
    /\ SendOnly /\ UNCHANGED <<moves, echoes, env>>

\* The KSR, which is another process.
Ksr(map) ==
    /\ movesDone < MaxMoves
    /\ movesDone' = movesDone + 1
    /\ contiv' = map
    /\ moves' = IF watching THEN moves + 1 ELSE moves
    /\ UNCHANGED <<config, rendered, cache, ram, up, enabled, pending, boot, sendq, watching, echoes,
                   hist, reqs, stops, faults>>

-----------------------------------------------------------------------------
(* The loop.                                                               *)

Receive(op) == sendq # <<>> /\ Head(sendq).op = op /\ sendq' = Tail(sendq)

\* The end of every iteration: render if that is enabled and due.
RenderIf(due) ==
    /\ pending' = (due /\ ~enabled')
    /\ rendered' = IF due /\ enabled' THEN ram' ELSE rendered

\* The deletion of p from etcd has yet to come back to the loop.
Reported(p) ==
    \/ \E n \in DOMAIN echoes : echoes[n] = p
    \/ \E n \in DOMAIN sendq : sendq[n].from = "watcher" /\ sendq[n].pod = p

\* The error of a failed write is ignored.
HandleCRUDOperationCU ==
    /\ Receive("CreateUpdate")
    /\ LET p == Head(sendq).pod
           n == Head(sendq).node
       IN  /\ cache' = With(cache, p, n)
           /\ ram' = With(ram, p, n)
           /\ \/ config' = With(config, p, n) /\ UNCHANGED faults
              \/ faults < MaxFaults /\ faults' = faults + 1 /\ UNCHANGED config
           /\ asked' = With(asked, p, n)
           /\ overtaken' = (overtaken \/ Reported(p))
    /\ UNCHANGED enabled /\ RenderIf(TRUE)
    /\ UNCHANGED <<contiv, up, boot, watching, moves, echoes, reqs, movesDone, stops>>

\* Mutant: the entry that the renderer reads is removed as well.
DeleteEverywhere(p) == ram' = Without(ram, p)

\* The entry that the renderer reads stays until the maps are next merged.
DeleteFromRam(p) == UNCHANGED ram

\* Mutant: the key stays in etcd.
DeleteFromCacheOnly(p) == UNCHANGED <<config, echoes, faults>>

\* Whether the delete failed is not asked.
DeleteFromDatastore(p) ==
    \/ /\ config' = Without(config, p)
       /\ echoes' = IF watching /\ p \in DOMAIN config THEN Append(echoes, p) ELSE echoes
       /\ UNCHANGED faults
    \/ faults < MaxFaults /\ faults' = faults + 1 /\ UNCHANGED <<config, echoes>>

HandleCRUDOperationD ==
    /\ Receive("Delete")
    /\ LET p == Head(sendq).pod
       IN  /\ cache' = Without(cache, p)
           /\ DeleteFromRam(p)
           /\ DeleteFromDatastore(p)
           /\ asked' = IF Head(sendq).from = "http" THEN Without(asked, p) ELSE asked
    /\ UNCHANGED enabled /\ RenderIf(TRUE)
    /\ UNCHANGED <<contiv, up, boot, watching, moves, overtaken, reqs, movesDone, stops>>

\* Mutant: the users' map is put over the KSR's.
UsersFirst(old) == Over(cache, contiv)

\* The maps put together: where both have a pod, the KSR is right.
Merged(old) == Over(contiv, cache)

\* Mutant: a pod that moved is not noticed.
FewerOrMore(old, new) == DOMAIN old # DOMAIN new

Changed(old, new) == old # new

SyncNetworkPodToNodeMap ==
    /\ Receive("Resync")
    /\ ram' = Merged(ram)
    /\ UNCHANGED enabled /\ RenderIf(pending \/ Changed(ram, ram'))
    /\ UNCHANGED <<config, contiv, cache, up, boot, watching, moves, echoes, hist, env>>

RenderMsg ==
    /\ Receive("Render")
    /\ UNCHANGED <<enabled, ram>> /\ RenderIf(TRUE)
    /\ UNCHANGED <<config, contiv, cache, up, boot, watching, moves, echoes, hist, env>>

EnableRenderer ==
    /\ Receive("EnableRenderer")
    /\ enabled' = TRUE
    /\ UNCHANGED ram /\ RenderIf(pending)
    /\ UNCHANGED <<config, contiv, cache, up, boot, watching, moves, echoes, hist, env>>

ProcessOperationalMessages ==
    \/ HandleCRUDOperationCU \/ HandleCRUDOperationD \/ SyncNetworkPodToNodeMap
    \/ RenderMsg \/ EnableRenderer

-----------------------------------------------------------------------------

Next ==
    \/ Start \/ AfterInit \/ Crash
    \/ \E p \in Pods, n \in Nodes : ProcessPost(p, n)
    \/ \E p \in Pods : ProcessDelete(p)
    \/ RegisterWatches \/ InitAndRunWatcher \/ RunContivKSRWatcher \/ Ticker
    \/ \E p \in Pods, n \in Nodes : contiv # With(contiv, p, n) /\ Ksr(With(contiv, p, n))
    \/ \E p \in DOMAIN contiv : Ksr(Without(contiv, p))
    \/ ProcessOperationalMessages

\* The controller is started again, its goroutines run, and time passes.
Fairness ==
    /\ WF_vars(Start) /\ WF_vars(AfterInit) /\ WF_vars(RegisterWatches)
    /\ WF_vars(InitAndRunWatcher) /\ WF_vars(RunContivKSRWatcher) /\ WF_vars(Ticker)
    /\ WF_vars(ProcessOperationalMessages)

Spec == Init /\ [][Next]_vars /\ Fairness

-----------------------------------------------------------------------------

Ops == {"CreateUpdate", "Delete", "Resync", "Render", "EnableRenderer"}

\* Maps locate pods on nodes; each goroutine but a handler's sends one message
\* at a time; nothing is under way in a process that is not up.
TypeOK ==
    /\ {config, contiv, cache, ram, rendered, asked} \subseteq Maps
    /\ \A n \in DOMAIN sendq : sendq[n].op \in Ops
    /\ \A m, n \in DOMAIN sendq : sendq[m].from = sendq[n].from /\ sendq[m].from # "http" => m = n
    /\ enabled \in BOOLEAN /\ pending \in BOOLEAN /\ watching \in BOOLEAN
    /\ overtaken \in BOOLEAN
    /\ moves \in 0 .. MaxMoves
    /\ ~up => Down

Started == up /\ enabled /\ boot = <<>> /\ ~Sending("AfterInit")

\* Once the messages of AfterInit are handled, what was last rendered is always
\* what the map says now: a change of the map is never left for later
\* (SyncNetworkPodToNodeMap tells the loop whether the map has changed).
RenderedIsRam == Started => rendered = ram /\ ~pending

\* A pod that the KSR locates, before and after, is not lost to the renderer
\* once that is enabled, whatever users delete (HandleCRUDOperationD leaves the
\* merged map alone).
PlacedStays ==
    [][Started /\ up' => DOMAIN contiv \cap DOMAIN contiv' \cap DOMAIN rendered
                         \subseteq DOMAIN rendered']_vars

\* Unless a pod was placed again before its deletion came back from etcd, or a
\* write or delete failed, the users' map is what their requests make of it, in
\* memory and in etcd, through crashes too: the controller's own deletions, that
\* InitAndRunWatcher brings back as if users had asked for them, take nothing.
LocationsStick ==
    up /\ ~overtaken /\ faults = 0 => cache = asked /\ config = asked

\* Once users, the KSR and crashes leave the maps alone, the renderer comes to
\* work with the KSR's locations, and those of the users' map for pods that the
\* KSR does not know, and stays with them: also when events came before the
\* watch (Ticker), and when the watch reports deletions late.
SettlesRight == <>[](up => rendered = Over(contiv, cache))
=============================================================================

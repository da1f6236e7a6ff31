---------------------------- MODULE CrdController ---------------------------
(***************************************************************************)
(* Custom resources of Kubernetes as a source of configuration             *)
(* (plugins/k8scrd): the informer's copy of the resources of one kind, the *)
(* work queue and its workers, the message to the controller's loop, and   *)
(* the status that is written back.  The four kinds have handlers of the   *)
(* same form.  A key is a namespace and a name.  Objects have a resource   *)
(* version, which the API server raises with every change.                 *)
(***************************************************************************)
EXTENDS Sequences, Functions, Naturals

CONSTANTS Keys, Contents, Default, Workers,
          First,        \* what the objects are made with
          MaxEdits,     \* bound: changes by users
          MaxFaults     \* bound: failed reads of the lister and updates

ASSUME FirstAssumption == First \in Contents

VARIABLES api,          \* the API server's objects
          asked,        \* history: what users last put into each
          version,      \* history: the last resource version given out
          lister,       \* the informer's copy
          synced,       \* the informer has its first list
          waiting, queue, dirty, processing,    \* the work queue
          work,         \* what each worker is doing
          inbox,        \* the message that the loop has received
          sfc,          \* the controller's cache
          puts,         \* changes in etcd that the watcher has yet to see
          update,       \* the object that the watcher is sending back
          edits, faults

kube  == <<api, asked, version, edits>>
wq    == <<waiting, queue, dirty, processing>>
ctlr  == <<inbox, sfc, puts>>
vars  == <<kube, lister, synced, wq, work, ctlr, update, faults>>

With(f, k, v) == [x \in DOMAIN f \cup {k} |-> IF x = k THEN v ELSE f[x]]
Without(f, x) == Restrict(f, DOMAIN f \ {x})

\* CrdToSfc: the entity has the name of the object without the namespace.
Name(k) == k[2]

Idle == [at |-> "idle", key |-> <<>>, obj |-> <<>>]
NoStatus == "none"

\* The plugin starts; some objects exist, and the controller has read some
\* entities from its own store.
Init ==
    /\ \E S \in SUBSET Keys :
         api = [k \in S |-> [spec |-> First, filled |-> FALSE, status |-> NoStatus, rv |-> 1]]
    /\ asked = [k \in DOMAIN api |-> First]
    /\ \E S \in SUBSET {Name(k) : k \in DOMAIN api} : sfc = [n \in S |-> [spec |-> First, filled |-> TRUE, rv |-> 1]]
    /\ version = 1 /\ edits = 0 /\ faults = 0
    /\ lister = <<>> /\ synced = FALSE
    /\ waiting = {} /\ queue = <<>> /\ dirty = {} /\ processing = {}
    /\ work = [w \in Workers |-> Idle]
    /\ inbox = <<>> /\ puts = <<>> /\ update = <<>>

-----------------------------------------------------------------------------
(* Kubernetes: users, the API server and the informer.                     *)

\* A new or changed object; the version makes an earlier copy stale.
Store(k, obj) ==
    /\ version' = version + 1
    /\ api' = With(api, k, [obj EXCEPT !.rv = version + 1])

UserApply(k, spec) ==
    /\ edits < MaxEdits /\ edits' = edits + 1
    /\ k \in DOMAIN api => api[k].spec # spec
    /\ Store(k, [spec |-> spec, filled |-> FALSE, rv |-> 0,
                 status |-> IF k \in DOMAIN api THEN api[k].status ELSE NoStatus])
    /\ asked' = With(asked, k, spec)
    /\ UNCHANGED <<lister, synced, wq, work, ctlr, update, faults>>

UserDelete(k) ==
    /\ edits < MaxEdits /\ edits' = edits + 1
    /\ k \in DOMAIN api
    /\ api' = Without(api, k) /\ asked' = Without(asked, k)
    /\ UNCHANGED <<version, lister, synced, wq, work, ctlr, update, faults>>

\* AddRateLimited: the keys are held back for a while.
enqueue(ks) == waiting' = waiting \cup ks

Informer ==
    /\ ~synced
    /\ synced' = TRUE /\ lister' = api
    /\ enqueue(DOMAIN api)
    /\ UNCHANGED <<kube, queue, dirty, processing, work, ctlr, update, faults>>

\* There are handlers for new and changed objects, and none for deleted ones.
Notify(k) ==
    /\ synced
    /\ \/ /\ k \in DOMAIN api /\ (k \in DOMAIN lister => lister[k].rv # api[k].rv)
          /\ lister' = With(lister, k, api[k])
          /\ enqueue({k})
       \/ /\ k \in DOMAIN lister \ DOMAIN api
          /\ lister' = Without(lister, k)
          /\ UNCHANGED waiting
    /\ UNCHANGED <<kube, synced, queue, dirty, processing, work, ctlr, update, faults>>

\* Mutant: an informer without a resync period.
NoResync == FALSE

\* Every 30 seconds all objects are reported as changed.
ResyncDue == synced /\ ~(DOMAIN lister \subseteq waiting)

Resync ==
    /\ ResyncDue
    /\ enqueue(DOMAIN lister)
    /\ UNCHANGED <<kube, lister, synced, queue, dirty, processing, work, ctlr, update, faults>>

\* The back-off is over.  A key that is being processed waits for Done.
Add(k) ==
    /\ k \in waiting
    /\ waiting' = waiting \ {k}
    /\ dirty' = dirty \cup {k}
    /\ queue' = IF k \in dirty \cup processing THEN queue ELSE Append(queue, k)
    /\ UNCHANGED <<kube, lister, synced, processing, work, ctlr, update, faults>>

-----------------------------------------------------------------------------
(* Workers.                                                                *)

Get(w) ==
    /\ synced /\ queue # <<>> /\ work[w].at = "idle"
    /\ LET k == Head(queue)
       IN  /\ work' = [work EXCEPT ![w] = [at |-> "sync", key |-> k, obj |-> <<>>]]
           /\ processing' = processing \cup {k} /\ dirty' = dirty \ {k}
    /\ queue' = Tail(queue)
    /\ UNCHANGED <<kube, lister, synced, waiting, ctlr, update, faults>>

\* Mutant: the work queue is not told.
NoDone(w) ==
    work' = [work EXCEPT ![w] = Idle] /\ UNCHANGED <<processing, queue>>

\* A key that was added meanwhile goes back into the queue.
Done(w) ==
    LET k == work[w].key
    IN  /\ work' = [work EXCEPT ![w] = Idle]
        /\ processing' = processing \ {k}
        /\ queue' = IF k \in dirty THEN Append(queue, k) ELSE queue

\* Mutant: the key is given back before the message is sent.
DoneFirst(w, obj) ==
    /\ work' = [work EXCEPT ![w].at = "send", ![w].obj = <<obj>>]
    /\ processing' = processing \ {work[w].key}
    /\ queue' = IF work[w].key \in dirty THEN Append(queue, work[w].key) ELSE queue

\* The worker is blocked on the loop's channel and keeps the key.
Send(w, obj) ==
    /\ work' = [work EXCEPT ![w].at = "send", ![w].obj = <<obj>>]
    /\ UNCHANGED <<processing, queue>>

\* The object is looked up when its turn comes.  One that is gone, one that
\* the lister fails to read and one that the controller has already are done
\* with; there is no retry.
SyncHandler(w) ==
    /\ work[w].at = "sync"
    /\ LET k == work[w].key
           same == Name(k) \in DOMAIN sfc /\ k \in DOMAIN lister
                   /\ sfc[Name(k)].spec = lister[k].spec /\ sfc[Name(k)].filled = lister[k].filled
       IN  \/ (k \notin DOMAIN lister \/ same) /\ Done(w) /\ UNCHANGED faults
           \/ k \in DOMAIN lister /\ ~same /\ Send(w, lister[k]) /\ UNCHANGED faults
           \/ faults < MaxFaults /\ faults' = faults + 1 /\ Done(w)
    /\ UNCHANGED <<kube, lister, synced, waiting, dirty, ctlr, update>>

\* The loop takes the message, which releases the worker,
Receive(w) ==
    /\ work[w].at = "send" /\ inbox = <<>>
    /\ inbox' = <<[key |-> work[w].key, obj |-> work[w].obj[1]]>>
    /\ Done(w)
    /\ UNCHANGED <<kube, lister, synced, waiting, dirty, sfc, puts, update, faults>>

\* and then puts it into the cache and into etcd, without the status that came
\* with it, and once more when it has been rendered.  Fields that validate and
\* the renderer fill in are filled in in the lister's object too, which the
\* entity shares them with.
Handle ==
    /\ inbox # <<>> /\ inbox' = <<>>
    /\ LET k == inbox[1].key
           m == inbox[1].obj
       IN  /\ sfc' = With(sfc, Name(k), [spec |-> m.spec, filled |-> TRUE, rv |-> m.rv])
           /\ lister' = IF k \in DOMAIN lister /\ lister[k].rv = m.rv
                        THEN [lister EXCEPT ![k].filled = TRUE] ELSE lister
           /\ puts' = puts \o <<[name |-> Name(k), status |-> NoStatus],
                                [name |-> Name(k), status |-> m.spec]>>
    /\ UNCHANGED <<kube, synced, wq, work, update, faults>>

-----------------------------------------------------------------------------
(* Status (InitAndRunWatcher, updateStatus).                               *)

\* The name has no namespace, so the object is looked for in the default one.
WatchPut ==
    /\ puts # <<>> /\ update = <<>>
    /\ puts' = Tail(puts)
    /\ LET k == <<Default, Head(puts).name>>
       IN  update' = IF k \in DOMAIN lister /\ Head(puts).status # NoStatus
                     THEN <<[key |-> k, obj |-> [lister[k] EXCEPT !.status = Head(puts).status]]>>
                     ELSE <<>>
    /\ UNCHANGED <<kube, lister, synced, wq, work, inbox, sfc, faults>>

\* Mutant: the object is sent without a resource version, which is not checked.
Unversioned(obj) == update[1].key \in DOMAIN api

\* The API server refuses an object that has changed since it was copied.
Accepts(obj) == update[1].key \in DOMAIN api /\ api[update[1].key].rv = obj.rv

\* The outcome of the update is ignored.
Update ==
    /\ update # <<>> /\ update' = <<>>
    /\ LET obj == update[1].obj
           k   == update[1].key
       IN  \/ /\ Accepts(obj)
              /\ IF api[k] = obj THEN UNCHANGED <<version, api>> ELSE Store(k, obj)
              /\ UNCHANGED faults
           \/ ~Accepts(obj) /\ UNCHANGED <<version, api, faults>>
           \/ faults < MaxFaults /\ faults' = faults + 1 /\ UNCHANGED <<version, api>>
    /\ UNCHANGED <<asked, edits, lister, synced, wq, work, ctlr>>

-----------------------------------------------------------------------------

Next ==
    \/ \E k \in Keys : (\E s \in Contents : UserApply(k, s)) \/ UserDelete(k) \/ Notify(k) \/ Add(k)
    \/ Informer \/ Resync
    \/ \E w \in Workers : Get(w) \/ SyncHandler(w) \/ Receive(w)
    \/ Handle \/ WatchPut \/ Update

\* The informer, the workers, the loop and the watcher run, and time passes.
Fairness ==
    /\ WF_vars(Informer) /\ WF_vars(Resync)
    /\ \A k \in Keys : WF_vars(Notify(k)) /\ WF_vars(Add(k))
    /\ \A w \in Workers : WF_vars(Get(w)) /\ WF_vars(SyncHandler(w)) /\ SF_vars(Receive(w))
    /\ WF_vars(Handle) /\ WF_vars(WatchPut) /\ WF_vars(Update)

Spec == Init /\ [][Next]_vars /\ Fairness

-----------------------------------------------------------------------------

Object == [spec : Contents, filled : BOOLEAN, status : Contents \cup {NoStatus}, rv : Nat]

Holding == {k \in Keys : \E w \in Workers : work[w].at # "idle" /\ work[w].key = k}

\* No copy is newer than the object, and every key being processed has a worker.
TypeOK ==
    /\ \A f \in {api, lister} : DOMAIN f \subseteq Keys /\ \A k \in DOMAIN f : f[k] \in Object
    /\ \A k \in DOMAIN lister : lister[k].rv <= version
    /\ waiting \cup dirty \subseteq Keys /\ processing \subseteq Holding

\* What users ask for stays, apart from fields that were filled in: the status
\* that is written back, with a copy of the whole object from the lister, never
\* brings back an earlier specification (updateStatus).
SpecIsUsers == \A k \in DOMAIN api : api[k].spec = asked[k]

\* The controller never goes back to an earlier version of an object, although
\* there are several workers (a key is given back when its message is sent).
NeverOlder == [][\A n \in DOMAIN sfc : n \in DOMAIN sfc' /\ sfc'[n].rv >= sfc[n].rv]_vars

\* Once users leave them alone, the controller has what the objects say, also
\* if a read has failed or a worker has compared with what the loop was about
\* to replace (Resync).
SpecsArrive == <>[](\A k \in DOMAIN api : Name(k) \in DOMAIN sfc /\ sfc[Name(k)].spec = api[k].spec)
=============================================================================

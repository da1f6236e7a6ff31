------------------------- MODULE CrdControllerProofs -------------------------
(***************************************************************************)
(* The work queue, the copies of the objects, and the order in which their *)
(* versions reach the controller, for every set of keys, workers and       *)
(* contents.                                                               *)
(***************************************************************************)
EXTENDS CrdController, TLAPS

-----------------------------------------------------------------------------
(* Objects.                                                                *)

LEMMA ObjectIs ==
  ASSUME NEW obj \in Object
  PROVE  /\ \A v \in Nat : /\ [obj EXCEPT !.rv = v] \in Object
                           /\ [obj EXCEPT !.rv = v].rv = v /\ [obj EXCEPT !.rv = v].spec = obj.spec
         /\ \A s \in Contents \cup {NoStatus} :
                           /\ [obj EXCEPT !.status = s] \in Object
                           /\ [obj EXCEPT !.status = s].rv = obj.rv
                           /\ [obj EXCEPT !.status = s].spec = obj.spec
         /\ /\ [obj EXCEPT !.filled = TRUE] \in Object
            /\ [obj EXCEPT !.filled = TRUE].rv = obj.rv /\ [obj EXCEPT !.filled = TRUE].spec = obj.spec
         /\ obj.spec \in Contents /\ obj.rv \in Nat
BY Zenon DEF Object

-----------------------------------------------------------------------------
(* The invariant.                                                          *)

\* A copy of the object of a key: one of the same version has its content.
CopyOK(k, obj) ==
    /\ obj \in Object /\ obj.rv <= version
    /\ k \in DOMAIN api /\ api[k].rv = obj.rv => obj.spec = api[k].spec

ApiInv ==
    /\ version \in Nat /\ DOMAIN asked = DOMAIN api /\ DOMAIN api \subseteq Keys
    /\ \A k \in DOMAIN api : api[k] \in Object /\ api[k].rv <= version /\ api[k].spec = asked[k]

ListerInv == DOMAIN lister \subseteq Keys /\ \A k \in DOMAIN lister : CopyOK(k, lister[k])

UpdateInv ==
    update = <<>> \/ \E k \in Keys, obj \in Object : update = <<[key |-> k, obj |-> obj]>> /\ CopyOK(k, obj)

Put == [name : {Name(k) : k \in Keys}, status : Contents \cup {NoStatus}]

WorkInv ==
    /\ work \in [Workers -> [at : {"idle", "sync", "send"}, key : Keys \cup {<<>>},
                             obj : {<<>>} \cup {<<o>> : o \in Object}]]
    /\ \A w \in Workers : /\ work[w].at # "idle" => work[w].key \in processing /\ work[w].key \in Keys
                          /\ work[w].at = "send" => work[w].obj # <<>>
    /\ inbox = <<>> \/ \E k \in Keys, obj \in Object : inbox = <<[key |-> k, obj |-> obj]>>
    /\ puts \in Seq(Put)

\* A key is in the queue once, and not while a worker has it.
QueueInv ==
    /\ queue \in Seq(Keys) /\ waiting \cup dirty \subseteq Keys /\ processing \subseteq Holding
    /\ \A m, n \in DOMAIN queue : queue[m] = queue[n] => m = n
    /\ \A n \in DOMAIN queue : queue[n] \in dirty /\ queue[n] \notin processing
    /\ \A v, w \in Workers : work[v].at # "idle" /\ work[w].at # "idle" /\ work[v].key = work[w].key => v = w

Inv == ApiInv /\ ListerInv /\ UpdateInv /\ WorkInv /\ QueueInv
-----------------------------------------------------------------------------
(* Kubernetes.                                                             *)

LEMMA InitInv == Init => Inv
<1> SUFFICES ASSUME Init PROVE Inv  BY Zenon
<1>1. PICK S \in SUBSET Keys :
         api = [k \in S |-> [spec |-> First, filled |-> FALSE, status |-> NoStatus, rv |-> 1]]
  BY Zenon DEF Init
<1>2. version = 1 /\ asked = [k \in DOMAIN api |-> First]  BY Zenon DEF Init
<1>3. ApiInv  BY <1>1, <1>2, FirstAssumption DEF ApiInv, Object
<1>4. ListerInv /\ UpdateInv  BY DEF Init, ListerInv, UpdateInv
<1>5. work = [w \in Workers |-> Idle] /\ inbox = <<>> /\ puts = <<>>  BY Zenon DEF Init
<1>6. WorkInv  BY <1>5 DEF WorkInv, Idle
<1>7. QueueInv
  <2>1. queue = <<>> /\ waiting = {} /\ dirty = {} /\ processing = {}  BY Zenon DEF Init
  <2>2. QED  BY <2>1, <1>5 DEF QueueInv, Idle
<1>8. QED  BY <1>3, <1>4, <1>6, <1>7, Zenon DEF Inv

\* A step of the API server: copies stay what they are, unless they are older
\* than the object now.
LEMMA ApiStep ==
  ASSUME Inv, ApiInv', \A j \in Keys, o \in Object : CopyOK(j, o) => CopyOK(j, o)',
         UNCHANGED <<lister, wq, work, inbox, puts>>, update' = update \/ update' = <<>>
  PROVE  Inv'
<1>1. UNCHANGED <<waiting, queue, dirty, processing>>  BY Zenon DEF wq
<1>2. ListerInv'
  <2>1. DOMAIN lister \subseteq Keys /\ \A k \in DOMAIN lister : CopyOK(k, lister[k]) /\ lister[k] \in Object
    BY Zenon DEF Inv, ListerInv, CopyOK
  <2>2. SUFFICES ASSUME NEW k \in DOMAIN lister PROVE CopyOK(k, lister[k])'  BY <2>1, Zenon DEF ListerInv
  <2>3. PICK o \in Object : o = lister[k]  BY <2>1, Zenon
  <2>4. CopyOK(k, o)'  BY <2>1, <2>3, Zenon
  <2>5. QED  BY <2>3, <2>4, Zenon DEF CopyOK
<1>3. UpdateInv'
  <2>1. CASE update' = <<>>  BY <2>1, Zenon DEF UpdateInv
  <2>2. CASE update # <<>> /\ update' = update
    <3>1. PICK k \in Keys, obj \in Object : update = <<[key |-> k, obj |-> obj]>> /\ CopyOK(k, obj)
      BY <2>2, Zenon DEF Inv, UpdateInv
    <3>2. CopyOK(k, obj)'  BY <3>1, Zenon
    <3>3. QED  BY <2>2, <3>1, <3>2, Zenon DEF UpdateInv
  <2>3. QED  BY <2>1, <2>2, Zenon
<1>4. WorkInv' /\ QueueInv'  BY <1>1, Zenon DEF Inv, WorkInv, QueueInv, Holding
<1>5. QED  BY <1>2, <1>3, <1>4, Zenon DEF Inv

\* A new version: no copy is of it.
LEMMA StoreStep ==
  ASSUME ApiInv, NEW k \in Keys, NEW obj \in Object, Store(k, obj),
         DOMAIN asked' = DOMAIN asked \cup {k}, asked'[k] = obj.spec,
         \A x \in DOMAIN asked : x # k => asked'[x] = asked[x]
  PROVE  ApiInv' /\ \A j \in Keys, o \in Object : CopyOK(j, o) => CopyOK(j, o)'
<1> DEFINE new == [obj EXCEPT !.rv = version + 1]
<1>1. version \in Nat /\ version' = version + 1 /\ version' \in Nat  BY DEF ApiInv, Store
<1>2. new \in Object /\ new.rv = version + 1 /\ new.spec = obj.spec  BY <1>1, ObjectIs, Zenon
<1>3. api' = With(api, k, new)  BY Zenon DEF Store
<1> HIDE DEF new
<1>4. /\ DOMAIN api' = DOMAIN api \cup {k} /\ api'[k] = new
      /\ \A x \in DOMAIN api : x # k => api'[x] = api[x]
  BY <1>3, Zenon DEF With
<1>5. ASSUME NEW x \in DOMAIN api'
      PROVE  api'[x] \in Object /\ api'[x].rv <= version' /\ api'[x].spec = asked'[x]
  <2>1. CASE x = k  BY <2>1, <1>1, <1>2, <1>4
  <2>2. CASE x # k
    <3>1. x \in DOMAIN api /\ api'[x] = api[x] /\ x \in DOMAIN asked  BY <2>2, <1>4, Zenon DEF ApiInv
    <3>2. api[x] \in Object /\ api[x].rv <= version /\ api[x].spec = asked[x]  BY <3>1, Zenon DEF ApiInv
    <3>3. api[x].rv \in Nat  BY <3>2, ObjectIs, Zenon
    <3>4. QED  BY <2>2, <3>1, <3>2, <3>3, <1>1
  <2>3. QED  BY <2>1, <2>2, Zenon
<1>6. ApiInv'  BY <1>1, <1>4, <1>5, Zenon DEF ApiInv
<1>7. ASSUME NEW j \in Keys, NEW o \in Object, CopyOK(j, o) PROVE CopyOK(j, o)'
  <2>1. o.rv <= version /\ o.rv \in Nat  BY <1>7, ObjectIs, Zenon DEF CopyOK
  <2>2. CASE j = k  BY <2>1, <2>2, <1>1, <1>2, <1>4 DEF CopyOK
  <2>3. CASE j # k  BY <2>1, <2>3, <1>1, <1>4, <1>7 DEF CopyOK
  <2>4. QED  BY <2>2, <2>3, Zenon
<1>8. QED  BY <1>6, <1>7, Zenon

LEMMA UsersInv ==
  ASSUME Inv, NEW k \in Keys, (\E s \in Contents : UserApply(k, s)) \/ UserDelete(k)
  PROVE  Inv'
<1>1. ApiInv  BY Zenon DEF Inv
<1>2. ASSUME NEW s \in Contents, UserApply(k, s) PROVE Inv'
  <2> DEFINE st == IF k \in DOMAIN api THEN api[k].status ELSE NoStatus
             obj == [spec |-> s, filled |-> FALSE, rv |-> 0, status |-> st]
  <2>1. st \in Contents \cup {NoStatus}  BY <1>1, Zenon DEF ApiInv, Object
  <2>2. obj \in Object /\ obj.spec = s  BY <2>1, Zenon DEF Object
  <2>3. Store(k, obj) /\ asked' = With(asked, k, s)  BY <1>2, Zenon DEF UserApply
  <2> HIDE DEF obj
  <2>4. /\ DOMAIN asked' = DOMAIN asked \cup {k} /\ asked'[k] = obj.spec
        /\ \A x \in DOMAIN asked : x # k => asked'[x] = asked[x]
    BY <2>2, <2>3, Zenon DEF With
  <2>5. ApiInv' /\ \A j \in Keys, o \in Object : CopyOK(j, o) => CopyOK(j, o)'
    BY <1>1, <2>2, <2>3, <2>4, StoreStep, Zenon
  <2>6. UNCHANGED <<lister, wq, work, inbox, puts, update>>  BY <1>2, Zenon DEF UserApply, ctlr
  <2>7. QED  BY <2>5, <2>6, ApiStep, Zenon
<1>3. CASE UserDelete(k)
  <2>1. api' = Without(api, k) /\ asked' = Without(asked, k) /\ version' = version
    BY <1>3, Zenon DEF UserDelete
  <2>2. ApiInv'  BY <1>1, <2>1, Zenon DEF ApiInv, Without, Restrict
  <2>3. \A j \in Keys, o \in Object : CopyOK(j, o) => CopyOK(j, o)'
    BY <2>1, Zenon DEF CopyOK, Without, Restrict
  <2>4. UNCHANGED <<lister, wq, work, inbox, puts, update>>  BY <1>3, Zenon DEF UserDelete, ctlr
  <2>5. QED  BY <2>2, <2>3, <2>4, ApiStep, Zenon
<1>4. QED  BY <1>2, <1>3, Zenon

\* The informer's copies are its old ones or those of the API server.
Copied ==
    /\ DOMAIN lister' \subseteq Keys
    /\ \A k \in DOMAIN lister' : \/ k \in DOMAIN lister /\ lister'[k] = lister[k]
                                 \/ k \in DOMAIN api /\ lister'[k] = api[k]

\* The informer copies objects, and asks for keys to be looked at.
LEMMA InformerStep ==
  ASSUME Inv, UNCHANGED <<api, asked, version, queue, dirty, processing, work, inbox, puts, update>>,
         waiting' \subseteq Keys, Copied
  PROVE  Inv'
<1>1. ApiInv' /\ UpdateInv'  BY DEF Inv, ApiInv, UpdateInv, CopyOK
<1>2. ListerInv'
  <2>1. SUFFICES ASSUME NEW k \in DOMAIN lister' PROVE CopyOK(k, lister[k])'
    BY Zenon DEF ListerInv, Copied
  <2>2. CASE k \in DOMAIN lister /\ lister'[k] = lister[k]
    BY <2>2, Zenon DEF Inv, ListerInv, CopyOK
  <2>3. CASE k \in DOMAIN api /\ lister'[k] = api[k]  BY <2>3, Zenon DEF Inv, ApiInv, CopyOK
  <2>4. QED  BY <2>2, <2>3, Zenon DEF Copied
<1>3. WorkInv' /\ QueueInv'  BY Zenon DEF Inv, WorkInv, QueueInv, Holding
<1>4. QED  BY <1>1, <1>2, <1>3, Zenon DEF Inv

LEMMA InformerCopies ==
  ASSUME Inv, Informer \/ Resync \/ \E k \in Keys : Notify(k)
  PROVE  Copied
<1>1. DOMAIN api \subseteq Keys /\ DOMAIN lister \subseteq Keys  BY Zenon DEF Inv, ApiInv, ListerInv
<1>2. CASE Informer  BY <1>1, <1>2, Zenon DEF Informer, Copied
<1>3. CASE Resync  BY <1>1, <1>3, Zenon DEF Resync, Copied
<1>4. ASSUME NEW k \in Keys, Notify(k) PROVE Copied
  <2>1. CASE k \in DOMAIN api /\ lister' = With(lister, k, api[k])  BY <1>1, <2>1, Zenon DEF With, Copied
  <2>2. CASE lister' = Without(lister, k)  BY <1>1, <2>2, Zenon DEF Without, Restrict, Copied
  <2>3. QED  BY <1>4, <2>1, <2>2, Zenon DEF Notify
<1>5. QED  BY <1>2, <1>3, <1>4, Zenon

LEMMA InformerInv ==
  ASSUME Inv, Informer \/ Resync \/ \E k \in Keys : Notify(k)
  PROVE  Inv'
<1>1. UNCHANGED <<api, asked, version, queue, dirty, processing, work, inbox, puts, update>>
  BY Zenon DEF Informer, Resync, Notify, kube, ctlr
<1>2. waiting' \subseteq Keys
  BY Zenon DEF Inv, ApiInv, ListerInv, QueueInv, Informer, Resync, Notify, enqueue
<1>3. QED  BY <1>1, <1>2, InformerCopies, InformerStep, Zenon

-----------------------------------------------------------------------------
(* The work queue.                                                         *)

OnceInQueue == \A m, n \in DOMAIN queue : queue[m] = queue[n] => m = n
QueuedAreDirty == \A n \in DOMAIN queue : queue[n] \in dirty /\ queue[n] \notin processing
OneWorkerEach ==
    \A v, w \in Workers : work[v].at # "idle" /\ work[w].at # "idle" /\ work[v].key = work[w].key => v = w

\* A key that is not in the queue goes to its end.
LEMMA Appended ==
  ASSUME queue \in Seq(Keys), OnceInQueue, NEW k \in Keys, \A n \in DOMAIN queue : queue[n] # k,
         queue' = Append(queue, k)
  PROVE  /\ queue' \in Seq(Keys) /\ OnceInQueue'
         /\ \A n \in DOMAIN queue' : queue'[n] = k \/ \E m \in DOMAIN queue : queue'[n] = queue[m]
<1> DEFINE L == Len(queue)
<1>1. /\ queue' \in Seq(Keys) /\ L \in Nat /\ DOMAIN queue = 1 .. L /\ DOMAIN queue' = 1 .. L + 1
      /\ queue'[L + 1] = k /\ \A n \in 1 .. L : queue'[n] = queue[n]
  OBVIOUS
<1>2. OnceInQueue'
  <2> SUFFICES ASSUME NEW i \in 1 .. L + 1, NEW j \in 1 .. L + 1, queue'[i] = queue'[j] PROVE i = j
    BY <1>1, Zenon DEF OnceInQueue
  <2>1. CASE i \in 1 .. L /\ j \in 1 .. L  BY <2>1, <1>1, Zenon DEF OnceInQueue
  <2>2. CASE i = L + 1 \/ j = L + 1  BY <2>2, <1>1
  <2>3. QED  BY <2>1, <2>2, <1>1
<1>3. QED  BY <1>1, <1>2

LEMMA TakenFrom ==
  ASSUME queue \in Seq(Keys), OnceInQueue, queue # <<>>, queue' = Tail(queue)
  PROVE  /\ queue' \in Seq(Keys) /\ OnceInQueue' /\ Head(queue) \in Keys
         /\ \E m \in DOMAIN queue : queue[m] = Head(queue)
         /\ \A n \in DOMAIN queue' : queue'[n] # Head(queue) /\ \E m \in DOMAIN queue : queue'[n] = queue[m]
<1> DEFINE L == Len(queue)
<1>1. /\ queue' \in Seq(Keys) /\ L \in Nat \ {0} /\ DOMAIN queue = 1 .. L /\ DOMAIN queue' = 1 .. L - 1
      /\ Head(queue) = queue[1] /\ Head(queue) \in Keys /\ \A n \in 1 .. L - 1 : queue'[n] = queue[n + 1]
  OBVIOUS
<1>2. OnceInQueue'
  <2> SUFFICES ASSUME NEW i \in 1 .. L - 1, NEW j \in 1 .. L - 1, queue'[i] = queue'[j] PROVE i = j
    BY <1>1, Zenon DEF OnceInQueue
  <2>1. i + 1 = j + 1  BY <1>1 DEF OnceInQueue
  <2>2. QED  BY <2>1
<1>3. ASSUME NEW n \in 1 .. L - 1
      PROVE  queue'[n] # Head(queue) /\ \E m \in DOMAIN queue : queue'[n] = queue[m]
  <2>1. n + 1 \in DOMAIN queue /\ 1 \in DOMAIN queue /\ n + 1 # 1 /\ queue'[n] = queue[n + 1]  BY <1>1
  <2>2. QED  BY <2>1, <1>1, Zenon DEF OnceInQueue
<1>4. QED  BY <1>1, <1>2, <1>3

LEMMA QueueParts ==
  QueueInv <=> /\ queue \in Seq(Keys) /\ waiting \cup dirty \subseteq Keys /\ processing \subseteq Holding
               /\ OnceInQueue /\ QueuedAreDirty /\ OneWorkerEach
BY Zenon DEF QueueInv, OnceInQueue, QueuedAreDirty, OneWorkerEach

\* Steps of the queue and the workers.
LEMMA WorkStep ==
  ASSUME Inv, UNCHANGED <<kube, lister, update>>, WorkInv', QueueInv'
  PROVE  Inv'
BY DEF Inv, ApiInv, ListerInv, UpdateInv, CopyOK, kube

LEMMA AddInv ==
  ASSUME Inv, NEW k \in Keys, Add(k)
  PROVE  Inv'
<1>1. QueueInv /\ WorkInv  BY Zenon DEF Inv
<1>2. /\ UNCHANGED <<kube, lister, update, work, processing, inbox, puts>>
      /\ dirty' = dirty \cup {k} /\ waiting' = waiting \ {k}
  BY Zenon DEF Add, ctlr
<1>3. WorkInv'  BY <1>1, <1>2, Zenon DEF WorkInv
<1>4. queue' \in Seq(Keys) /\ OnceInQueue' /\ QueuedAreDirty'
  <2>1. CASE queue' = queue  BY <2>1, <1>1, <1>2, QueueParts, Zenon DEF OnceInQueue, QueuedAreDirty
  <2>2. CASE k \notin dirty \cup processing /\ queue' = Append(queue, k)
    <3>1. \A n \in DOMAIN queue : queue[n] # k  BY <2>2, <1>1, QueueParts, Zenon DEF QueuedAreDirty
    <3>2. /\ queue' \in Seq(Keys) /\ OnceInQueue'
          /\ \A n \in DOMAIN queue' : queue'[n] = k \/ \E m \in DOMAIN queue : queue'[n] = queue[m]
      BY <2>2, <3>1, <1>1, QueueParts, Appended, Zenon
    <3>3. QED  BY <2>2, <3>2, <1>1, <1>2, QueueParts, Zenon DEF QueuedAreDirty
  <2>3. QED  BY <2>1, <2>2, Zenon DEF Add
<1>5. (waiting \cup dirty \subseteq Keys /\ processing \subseteq Holding /\ OneWorkerEach)'
  BY <1>1, <1>2, QueueParts, Zenon DEF Holding, OneWorkerEach
<1>6. QueueInv'  BY <1>4, <1>5, Zenon DEF QueueInv, OnceInQueue, QueuedAreDirty, OneWorkerEach
<1>7. QED  BY <1>2, <1>3, <1>6, WorkStep, Zenon
-----------------------------------------------------------------------------
(* Workers.                                                                *)

Job == [at : {"idle", "sync", "send"}, key : Keys \cup {<<>>}, obj : {<<>>} \cup {<<o>> : o \in Object}]

\* A worker gives its key back.
LEMMA DoneStep ==
  ASSUME Inv, NEW w \in Workers, work[w].at # "idle", Done(w), UNCHANGED <<kube, lister, waiting, dirty, puts, update>>,
         inbox' = <<>> \/ \E k \in Keys, obj \in Object : inbox' = <<[key |-> k, obj |-> obj]>>
  PROVE  Inv'
<1> DEFINE k == work[w].key
<1>1. WorkInv /\ QueueInv  BY Zenon DEF Inv
<1>2. /\ work \in [Workers -> Job] /\ k \in Keys /\ k \in processing /\ Idle \in Job
      /\ work' = [work EXCEPT ![w] = Idle] /\ processing' = processing \ {k}
      /\ queue' = IF k \in dirty THEN Append(queue, k) ELSE queue
  BY <1>1, Zenon DEF WorkInv, Done, Job, Idle
<1>3. work' \in [Workers -> Job] /\ work'[w] = Idle /\ \A v \in Workers : v # w => work'[v] = work[v]
  BY <1>2, Zenon
<1>4. Idle.at = "idle"  BY Zenon DEF Idle
<1>5. \A v \in Workers : work'[v].at # "idle" => work'[v] = work[v] /\ work[v].key # k
  BY <1>1, <1>3, <1>4, Zenon DEF QueueInv
<1>6. WorkInv'
  <2>1. \A v \in Workers : /\ work'[v].at # "idle" => work'[v].key \in processing' /\ work'[v].key \in Keys
                           /\ work'[v].at = "send" => work'[v].obj # <<>>
    BY <1>1, <1>2, <1>5, Zenon DEF WorkInv
  <2>2. QED  BY <1>1, <1>3, <2>1, Zenon DEF WorkInv, Job
<1>7. queue' \in Seq(Keys) /\ OnceInQueue' /\ QueuedAreDirty'
  <2>1. CASE queue' = queue  BY <2>1, <1>1, <1>2, QueueParts, Zenon DEF OnceInQueue, QueuedAreDirty
  <2>2. CASE k \in dirty /\ queue' = Append(queue, k)
    <3>1. \A n \in DOMAIN queue : queue[n] # k  BY <1>2, <1>1, QueueParts, Zenon DEF QueuedAreDirty
    <3>2. /\ queue' \in Seq(Keys) /\ OnceInQueue'
          /\ \A n \in DOMAIN queue' : queue'[n] = k \/ \E m \in DOMAIN queue : queue'[n] = queue[m]
      BY <2>2, <3>1, <1>1, <1>2, QueueParts, Appended, Zenon
    <3>3. QED  BY <2>2, <3>2, <1>1, <1>2, QueueParts, Zenon DEF QueuedAreDirty
  <2>3. QED  BY <2>1, <2>2, <1>2, Zenon
<1>8. processing' \subseteq Holding'
  <2>1. SUFFICES ASSUME NEW x \in processing, x # k PROVE x \in Holding'  BY <1>2, Zenon
  <2>2. PICK v \in Workers : x \in Keys /\ work[v].at # "idle" /\ work[v].key = x
    BY <1>1, <2>1, Zenon DEF QueueInv, Holding
  <2>3. v # w  BY <2>1, <2>2, Zenon
  <2>4. QED  BY <2>2, <2>3, <1>3, Zenon DEF Holding
<1>9. OneWorkerEach'  BY <1>1, <1>5, QueueParts DEF OneWorkerEach
<1>10. QueueInv'
  BY <1>1, <1>7, <1>8, <1>9, Zenon DEF QueueInv, OnceInQueue, QueuedAreDirty, OneWorkerEach
<1>11. QED  BY <1>6, <1>10, WorkStep, Zenon

LEMMA GetInv ==
  ASSUME Inv, NEW w \in Workers, Get(w)
  PROVE  Inv'
<1> DEFINE k == Head(queue)
<1>1. WorkInv /\ QueueInv  BY Zenon DEF Inv
<1>2. /\ queue # <<>> /\ work[w].at = "idle" /\ queue' = Tail(queue)
      /\ work' = [work EXCEPT ![w] = [at |-> "sync", key |-> k, obj |-> <<>>]]
      /\ processing' = processing \cup {k} /\ dirty' = dirty \ {k}
      /\ UNCHANGED <<kube, lister, waiting, inbox, puts, update>>
  BY Zenon DEF Get, ctlr
<1>3. /\ queue' \in Seq(Keys) /\ OnceInQueue' /\ k \in Keys
      /\ \E m \in DOMAIN queue : queue[m] = k
      /\ \A n \in DOMAIN queue' : queue'[n] # k /\ \E m \in DOMAIN queue : queue'[n] = queue[m]
  BY <1>1, <1>2, TakenFrom, QueueParts, Zenon
<1>4. k \notin processing  BY <1>1, <1>3, Zenon DEF QueueInv
<1> HIDE DEF k
<1>5. /\ work \in [Workers -> Job] /\ work' \in [Workers -> Job]
      /\ work'[w].at = "sync" /\ work'[w].key = k /\ \A v \in Workers : v # w => work'[v] = work[v]
  BY <1>1, <1>2, <1>3, Zenon DEF WorkInv, Job
<1>6. WorkInv'
  <2>1. ASSUME NEW v \in Workers
        PROVE  /\ work'[v].at # "idle" => work'[v].key \in processing' /\ work'[v].key \in Keys
               /\ work'[v].at = "send" => work'[v].obj # <<>>
    <3>1. CASE v = w  BY <3>1, <1>2, <1>3, <1>5, Zenon
    <3>2. CASE v # w  BY <3>2, <1>1, <1>2, <1>5, Zenon DEF WorkInv
    <3>3. QED  BY <3>1, <3>2, Zenon
  <2>2. /\ inbox' = <<>> \/ \E j \in Keys, obj \in Object : inbox' = <<[key |-> j, obj |-> obj]>>
        /\ puts' \in Seq(Put)
    BY <1>1, <1>2, Zenon DEF WorkInv
  <2>3. QED  BY <1>5, <2>1, <2>2, Zenon DEF WorkInv, Job
<1>7. QueuedAreDirty'  BY <1>1, <1>2, <1>3, Zenon DEF QueueInv, QueuedAreDirty
<1>8. processing' \subseteq Holding'
  <2>1. SUFFICES ASSUME NEW x \in processing' PROVE x \in Holding'  BY Zenon
  <2>2. CASE x = k  BY <2>2, <1>3, <1>5, Zenon DEF Holding
  <2>3. CASE x \in processing
    <3>1. PICK v \in Workers : x \in Keys /\ work[v].at # "idle" /\ work[v].key = x
      BY <1>1, <2>3, Zenon DEF QueueInv, Holding
    <3>2. v # w  BY <3>1, <1>2, Zenon
    <3>3. QED  BY <3>1, <3>2, <1>5, Zenon DEF Holding
  <2>4. QED  BY <2>1, <2>2, <2>3, <1>2, Zenon
<1>9. OneWorkerEach'
  <2>1. \A v \in Workers : v # w /\ work[v].at # "idle" => work[v].key # k  BY <1>1, <1>4, Zenon DEF WorkInv
  <2>2. QED  BY <1>1, <1>5, <2>1 DEF QueueInv, OneWorkerEach
<1>10. QueueInv'
  BY <1>1, <1>2, <1>3, <1>7, <1>8, <1>9, Zenon DEF QueueInv, OnceInQueue, QueuedAreDirty, OneWorkerEach
<1>11. QED  BY <1>2, <1>6, <1>10, WorkStep, Zenon

LEMMA SyncInv ==
  ASSUME Inv, NEW w \in Workers, SyncHandler(w)
  PROVE  Inv'
<1>1. WorkInv /\ QueueInv /\ ListerInv  BY Zenon DEF Inv
<1>2. work[w].at = "sync" /\ UNCHANGED <<kube, lister, waiting, dirty, inbox, puts, update>>
  BY Zenon DEF SyncHandler, ctlr
<1>3. inbox' = <<>> \/ \E k \in Keys, obj \in Object : inbox' = <<[key |-> k, obj |-> obj]>>
  BY <1>1, <1>2, Zenon DEF WorkInv
<1>4. CASE Done(w)  BY <1>2, <1>3, <1>4, DoneStep, Zenon
<1>5. CASE work[w].key \in DOMAIN lister /\ Send(w, lister[work[w].key])
  <2> DEFINE o == lister[work[w].key]
  <2>1. o \in Object  BY <1>1, <1>5, Zenon DEF ListerInv, CopyOK
  <2>2. work' = [work EXCEPT ![w].at = "send", ![w].obj = <<o>>] /\ UNCHANGED <<processing, queue>>
    BY <1>5, Zenon DEF Send
  <2> HIDE DEF o
  <2>3. /\ work \in [Workers -> Job] /\ work' \in [Workers -> Job]
        /\ work'[w].at = "send" /\ work'[w].key = work[w].key /\ work'[w].obj = <<o>>
        /\ \A v \in Workers : v # w => work'[v] = work[v]
    BY <1>1, <2>1, <2>2, Zenon DEF WorkInv, Job
  <2>4. \A v \in Workers : /\ work'[v].key = work[v].key /\ (work'[v].at # "idle" <=> work[v].at # "idle")
                           /\ work'[v].at = "send" => work'[v].obj # <<>>
    <3>1. SUFFICES ASSUME NEW v \in Workers
                   PROVE  /\ work'[v].key = work[v].key /\ (work'[v].at # "idle" <=> work[v].at # "idle")
                          /\ work'[v].at = "send" => work'[v].obj # <<>>
      BY Zenon
    <3>2. CASE v = w  BY <3>2, <1>2, <2>3
    <3>3. CASE v # w  BY <3>3, <1>1, <2>3, Zenon DEF WorkInv
    <3>4. QED  BY <3>2, <3>3, Zenon
  <2>5. WorkInv'  BY <1>1, <1>2, <2>2, <2>3, <2>4 DEF WorkInv, Job
  <2>6. QueueInv'
    <3>1. Holding' = Holding  BY <2>4, Zenon DEF Holding
    <3>2. OneWorkerEach'  BY <1>1, <2>4 DEF QueueInv, OneWorkerEach
    <3>3. /\ queue' \in Seq(Keys) /\ waiting' \cup dirty' \subseteq Keys
          /\ OnceInQueue' /\ QueuedAreDirty'
      BY <1>1, <1>2, <2>2, Zenon DEF QueueInv, OnceInQueue, QueuedAreDirty
    <3>4. QED
      BY <1>1, <2>2, <3>1, <3>2, <3>3, Zenon DEF QueueInv, OnceInQueue, QueuedAreDirty, OneWorkerEach
  <2>7. QED  BY <1>2, <2>5, <2>6, WorkStep, Zenon
<1>6. QED  BY <1>4, <1>5, Zenon DEF SyncHandler

LEMMA ReceiveInv ==
  ASSUME Inv, NEW w \in Workers, Receive(w)
  PROVE  Inv'
<1>1. /\ work[w].at = "send" /\ Done(w) /\ inbox' = <<[key |-> work[w].key, obj |-> work[w].obj[1]]>>
      /\ UNCHANGED <<kube, lister, waiting, dirty, puts, update>>
  BY Zenon DEF Receive
<1>2. work[w].key \in Keys /\ work[w].obj \in {<<o>> : o \in Object}  BY <1>1, Zenon DEF Inv, WorkInv
<1>3. work[w].obj[1] \in Object  BY <1>2
<1>4. \E k \in Keys, obj \in Object : inbox' = <<[key |-> k, obj |-> obj]>>  BY <1>1, <1>2, <1>3, Zenon
<1>5. QED  BY <1>1, <1>4, DoneStep, Zenon

-----------------------------------------------------------------------------
(* The loop and the watcher.                                               *)

LEMMA HandleInv ==
  ASSUME Inv, Handle
  PROVE  Inv'
<1>1. PICK k \in Keys, m \in Object : inbox = <<[key |-> k, obj |-> m]>>
  BY Zenon DEF Inv, WorkInv, Handle
<1>2. inbox[1].key = k /\ inbox[1].obj = m  BY <1>1, Zenon
<1>3. /\ lister' = IF k \in DOMAIN lister /\ lister[k].rv = m.rv
                   THEN [lister EXCEPT ![k].filled = TRUE] ELSE lister
      /\ puts' = puts \o <<[name |-> Name(k), status |-> NoStatus], [name |-> Name(k), status |-> m.spec]>>
      /\ inbox' = <<>>
      /\ UNCHANGED <<api, asked, version, waiting, queue, dirty, processing, work, update>>
  BY <1>2, Zenon DEF Handle, kube, wq
<1>4. puts \in Seq(Put) /\ puts' \in Seq(Put)
  <2>1. [name |-> Name(k), status |-> NoStatus] \in Put /\ [name |-> Name(k), status |-> m.spec] \in Put
    BY ObjectIs, Zenon DEF Put
  <2>2. puts \in Seq(Put)  BY Zenon DEF Inv, WorkInv
  <2>3. QED  BY <2>1, <2>2, <1>3
<1>5. WorkInv'  BY <1>3, <1>4, Zenon DEF Inv, WorkInv
<1>6. QueueInv'  BY <1>3, Zenon DEF Inv, QueueInv, Holding
<1>7. ApiInv' /\ UpdateInv'  BY <1>3, Zenon DEF Inv, ApiInv, UpdateInv, CopyOK
<1>8. ListerInv'
  <2>1. CASE lister' = lister  BY <2>1, <1>3, Zenon DEF Inv, ListerInv, CopyOK
  <2>2. CASE k \in DOMAIN lister /\ lister' = [lister EXCEPT ![k].filled = TRUE]
    <3>1. CopyOK(k, lister[k])  BY <2>2, Zenon DEF Inv, ListerInv
    <3>2. PICK o \in Object : /\ o = [lister[k] EXCEPT !.filled = TRUE]
                             /\ o.rv = lister[k].rv /\ o.spec = lister[k].spec
      BY <3>1, ObjectIs, Zenon DEF CopyOK
    <3>3. /\ DOMAIN lister' = DOMAIN lister /\ lister'[k] = o
          /\ \A x \in DOMAIN lister : x # k => lister'[x] = lister[x]
      BY <2>2, <3>2, Zenon
    <3>4. CopyOK(k, o)'  BY <3>1, <3>2, <1>3, Zenon DEF CopyOK
    <3>5. \A x \in DOMAIN lister : x # k => CopyOK(x, lister[x])'
      BY <3>3, <1>3, Zenon DEF Inv, ListerInv, CopyOK
    <3>6. CopyOK(k, lister[k])'  BY <3>3, <3>4, Zenon DEF CopyOK
    <3>7. QED  BY <3>3, <3>5, <3>6, Zenon DEF Inv, ListerInv
  <2>3. QED  BY <1>3, <2>1, <2>2, Zenon
<1>9. QED  BY <1>5, <1>6, <1>7, <1>8, Zenon DEF Inv

\* The watcher's object is the informer's copy with another status.
LEMMA WatchPutInv ==
  ASSUME Inv, WatchPut
  PROVE  Inv'
<1> DEFINE k == <<Default, Head(puts).name>>
           s == Head(puts).status
<1>1. /\ puts # <<>> /\ puts' = Tail(puts)
      /\ update' = IF k \in DOMAIN lister /\ s # NoStatus
                   THEN <<[key |-> k, obj |-> [lister[k] EXCEPT !.status = s]]>> ELSE <<>>
      /\ UNCHANGED <<api, asked, version, lister, waiting, queue, dirty, processing, work, inbox>>
  BY Zenon DEF WatchPut, kube, wq
<1>2. puts' \in Seq(Put) /\ Head(puts) \in Put  BY <1>1 DEF Inv, WorkInv
<1>3. s \in Contents \cup {NoStatus}  BY <1>2, Zenon DEF Put
<1> HIDE DEF k, s
<1>4. WorkInv'  BY <1>1, <1>2, Zenon DEF Inv, WorkInv
<1>5. QueueInv'  BY <1>1, Zenon DEF Inv, QueueInv, Holding
<1>6. ApiInv' /\ ListerInv'  BY <1>1, Zenon DEF Inv, ApiInv, ListerInv, CopyOK
<1>7. UpdateInv'
  <2>1. CASE update' = <<>>  BY <2>1, Zenon DEF UpdateInv
  <2>2. CASE k \in DOMAIN lister /\ update' = <<[key |-> k, obj |-> [lister[k] EXCEPT !.status = s]]>>
    <3>1. CopyOK(k, lister[k]) /\ k \in Keys  BY <2>2, Zenon DEF Inv, ListerInv
    <3>2. PICK l \in Object : l = lister[k]  BY <3>1, Zenon DEF CopyOK
    <3>3. /\ [l EXCEPT !.status = s] \in Object
          /\ [l EXCEPT !.status = s].rv = l.rv /\ [l EXCEPT !.status = s].spec = l.spec
      BY <1>3, ObjectIs, Zenon
    <3>4. PICK j \in Keys, o \in Object : /\ j = k /\ o = [lister[k] EXCEPT !.status = s]
                                         /\ o.rv = lister[k].rv /\ o.spec = lister[k].spec
      BY <3>1, <3>2, <3>3, Zenon
    <3>5. update' = <<[key |-> j, obj |-> o]>>  BY <2>2, <3>4, Zenon
    <3>6. CopyOK(j, o)'  BY <3>1, <3>4, <1>1, Zenon DEF CopyOK
    <3>7. QED  BY <3>5, <3>6, Zenon DEF UpdateInv
  <2>3. QED  BY <1>1, <2>1, <2>2, Zenon
<1>8. QED  BY <1>4, <1>5, <1>6, <1>7, Zenon DEF Inv

\* An object that the API server accepts is a copy of the version it has.
LEMMA UpdateStep ==
  ASSUME Inv, Update
  PROVE  Inv'
<1>1. PICK k \in Keys, obj \in Object : update = <<[key |-> k, obj |-> obj]>> /\ CopyOK(k, obj)
  BY Zenon DEF Inv, UpdateInv, Update
<1>2. update[1].key = k /\ update[1].obj = obj  BY <1>1, Zenon
<1>3. /\ update' = <<>>
      /\ UNCHANGED <<asked, lister, waiting, queue, dirty, processing, work, inbox, puts>>
  BY Zenon DEF Update, wq, ctlr
<1>4. CASE UNCHANGED <<version, api>>
  <2>1. ApiInv' /\ ListerInv'  BY <1>3, <1>4, Zenon DEF Inv, ApiInv, ListerInv, CopyOK
  <2>2. UpdateInv'  BY <1>3, Zenon DEF UpdateInv
  <2>3. WorkInv' /\ QueueInv'  BY <1>3, Zenon DEF Inv, WorkInv, QueueInv, Holding
  <2>4. QED  BY <2>1, <2>2, <2>3, Zenon DEF Inv
<1>5. CASE Accepts(obj) /\ Store(k, obj)
  <2>1. k \in DOMAIN api /\ obj.spec = asked[k] /\ DOMAIN asked = DOMAIN api
    BY <1>1, <1>2, <1>5, Zenon DEF Accepts, CopyOK, Inv, ApiInv
  <2>2. ApiInv' /\ \A j \in Keys, o \in Object : CopyOK(j, o) => CopyOK(j, o)'
    <3>1. /\ DOMAIN asked' = DOMAIN asked \cup {k} /\ asked'[k] = obj.spec
          /\ \A x \in DOMAIN asked : x # k => asked'[x] = asked[x]
      BY <1>3, <2>1, Zenon
    <3>2. QED  BY <1>5, <3>1, StoreStep, Zenon DEF Inv
  <2>3. ListerInv'
    <3>1. \A x \in DOMAIN lister : x \in Keys /\ lister[x] \in Object /\ CopyOK(x, lister[x])
      BY Zenon DEF Inv, ListerInv, CopyOK
    <3>2. SUFFICES ASSUME NEW x \in DOMAIN lister PROVE CopyOK(x, lister[x])'
      BY <1>3, <3>1, Zenon DEF ListerInv
    <3>3. PICK o \in Object : x \in Keys /\ CopyOK(x, o) /\ lister'[x] = o  BY <1>3, <3>1, Zenon
    <3>4. CopyOK(x, o)'  BY <2>2, <3>3, Zenon
    <3>5. QED  BY <3>3, <3>4, Zenon DEF CopyOK
  <2>4. UpdateInv'  BY <1>3, Zenon DEF UpdateInv
  <2>5. WorkInv' /\ QueueInv'  BY <1>3, Zenon DEF Inv, WorkInv, QueueInv, Holding
  <2>6. QED  BY <2>2, <2>3, <2>4, <2>5, Zenon DEF Inv
<1>6. QED  BY <1>2, <1>4, <1>5, Zenon DEF Update

-----------------------------------------------------------------------------
(* The theorems.                                                           *)

LEMMA NextInv == Inv /\ [Next]_vars => Inv'
<1> SUFFICES ASSUME Inv, [Next]_vars PROVE Inv'  BY Zenon
<1>1. ASSUME NEW k \in Keys, (\E s \in Contents : UserApply(k, s)) \/ UserDelete(k) PROVE Inv'
  BY <1>1, UsersInv, Zenon
<1>2. CASE Informer \/ Resync \/ \E k \in Keys : Notify(k)  BY <1>2, InformerInv, Zenon
<1>3. ASSUME NEW k \in Keys, Add(k) PROVE Inv'  BY <1>3, AddInv, Zenon
<1>4. ASSUME NEW w \in Workers, Get(w) PROVE Inv'  BY <1>4, GetInv, Zenon
<1>5. ASSUME NEW w \in Workers, SyncHandler(w) PROVE Inv'  BY <1>5, SyncInv, Zenon
<1>6. ASSUME NEW w \in Workers, Receive(w) PROVE Inv'  BY <1>6, ReceiveInv, Zenon
<1>7. CASE Handle  BY <1>7, HandleInv, Zenon
<1>8. CASE WatchPut  BY <1>8, WatchPutInv, Zenon
<1>9. CASE Update  BY <1>9, UpdateStep, Zenon
<1>10. CASE UNCHANGED vars
  <2>1. UNCHANGED <<api, asked, version, lister, waiting, queue, dirty, processing, work, inbox, puts, update>>
    BY <1>10, Zenon DEF vars, kube, wq, ctlr
  <2>2. ApiInv' /\ ListerInv'  BY <2>1, Zenon DEF Inv, ApiInv, ListerInv, CopyOK
  <2>3. UpdateInv'  BY <2>1, Zenon DEF Inv, UpdateInv, CopyOK
  <2>4. WorkInv'  BY <2>1, Zenon DEF Inv, WorkInv
  <2>5. QueueInv'  BY <2>1, Zenon DEF Inv, QueueInv, Holding
  <2>6. QED  BY <2>2, <2>3, <2>4, <2>5, Zenon DEF Inv
<1>11. QED
  BY <1>1, <1>2, <1>3, <1>4, <1>5, <1>6, <1>7, <1>8, <1>9, <1>10, Zenon DEF Next

\* The copies, the queue and the workers stay well formed: no copy is newer
\* than the object, and a key that is being processed has a worker (Get, Done).
THEOREM TypeCorrect == Spec => []TypeOK
<1>1. Inv => TypeOK
  <2> SUFFICES ASSUME Inv PROVE TypeOK  BY Zenon
  <2>1. DOMAIN api \subseteq Keys /\ \A k \in DOMAIN api : api[k] \in Object  BY Zenon DEF Inv, ApiInv
  <2>2. DOMAIN lister \subseteq Keys /\ \A k \in DOMAIN lister : lister[k] \in Object /\ lister[k].rv <= version
    BY Zenon DEF Inv, ListerInv, CopyOK
  <2>3. waiting \cup dirty \subseteq Keys /\ processing \subseteq Holding  BY Zenon DEF Inv, QueueInv
  <2>4. QED  BY <2>1, <2>2, <2>3, Zenon DEF TypeOK
<1>2. QED  BY <1>1, InitInv, NextInv, PTL DEF Spec

\* Writing a status back never brings back a specification that a user has
\* replaced, although the whole object is sent and the copy it is made from may
\* be stale (updateStatus).
THEOREM SpecIsUsersHolds == Spec => []SpecIsUsers
<1>1. Inv => SpecIsUsers  BY Zenon DEF Inv, ApiInv, SpecIsUsers
<1>2. QED  BY <1>1, InitInv, NextInv, PTL DEF Spec

\* Two workers never have the same object, so the messages about it reach the
\* loop one after the other (processNextWorkItem gives the key back last).
THEOREM WorkersApart == Spec => []OneWorkerEach
<1>1. Inv => OneWorkerEach  BY Zenon DEF Inv, QueueInv, OneWorkerEach
<1>2. QED  BY <1>1, InitInv, NextInv, PTL DEF Spec

\* An object is not mistaken for one of another namespace.
NamesDistinct == \A j, k \in Keys : Name(j) = Name(k) => j = k

-----------------------------------------------------------------------------
(* The invariant: a version on its way to the controller is at least as new *)
(* as those ahead of it, and at most as new as those it will be followed by.*)

Older(k, r) ==
    /\ r \in Nat /\ r <= version
    /\ k \in DOMAIN api => r <= api[k].rv
    /\ k \in DOMAIN lister => r <= lister[k].rv

Sends(w, k) == work[w].at = "send" /\ work[w].key = k
Arrived(k) == inbox # <<>> /\ inbox[1].key = k

ListerBehind == \A k \in DOMAIN lister : k \in DOMAIN api => lister[k].rv <= api[k].rv

SendsOrder == \A k \in Keys, w \in Workers : Sends(w, k) => Older(k, work[w].obj[1].rv)

InboxOrder ==
    \A k \in Keys : Arrived(k) =>
        /\ Older(k, inbox[1].obj.rv)
        /\ \A w \in Workers : Sends(w, k) => inbox[1].obj.rv <= work[w].obj[1].rv

SfcOrder ==
    \A k \in Keys : Name(k) \in DOMAIN sfc =>
        /\ Older(k, sfc[Name(k)].rv)
        /\ \A w \in Workers : Sends(w, k) => sfc[Name(k)].rv <= work[w].obj[1].rv
        /\ Arrived(k) => sfc[Name(k)].rv <= inbox[1].obj.rv

Order ==
    /\ ListerBehind /\ SendsOrder /\ InboxOrder /\ SfcOrder
    /\ \A n \in DOMAIN sfc : sfc[n].rv \in Nat

-----------------------------------------------------------------------------
(* Steps of Kubernetes: nothing on its way changes.                        *)

LEMMA InitOrder == Init => Order
<1> SUFFICES ASSUME Init PROVE Order  BY Zenon
<1>1. /\ version = 1 /\ lister = <<>> /\ inbox = <<>> /\ DOMAIN lister = {}
      /\ work = [w \in Workers |-> Idle]
  BY DEF Init
<1>2. \A k \in DOMAIN api : api[k].rv = 1  BY DEF Init
<1>3. \A n \in DOMAIN sfc : sfc[n].rv = 1  BY DEF Init
<1>4. \A k : Older(k, 1)  BY <1>1, <1>2 DEF Older
<1>5. \A w \in Workers : work[w].at = "idle"  BY <1>1, Zenon DEF Idle
<1>6. ListerBehind /\ SendsOrder /\ InboxOrder
  BY <1>1, <1>5, Zenon DEF ListerBehind, SendsOrder, InboxOrder, Sends, Arrived
<1>7. SfcOrder  BY <1>1, <1>3, <1>4, <1>5, Zenon DEF SfcOrder, Sends, Arrived
<1>8. QED  BY <1>3, <1>6, <1>7 DEF Order

LEMMA KeepsOrder ==
  ASSUME Inv, Order, UNCHANGED <<work, inbox, sfc>>, ListerBehind',
         \A k \in Keys, r \in Nat : Older(k, r) => Older(k, r)'
  PROVE  Order'
<1>1. SendsOrder'
  <2> SUFFICES ASSUME NEW k \in Keys, NEW w \in Workers, Sends(w, k)'
               PROVE  Older(k, work[w].obj[1].rv)'
    BY Zenon DEF SendsOrder
  <2>1. Older(k, work[w].obj[1].rv)  BY Zenon DEF Order, SendsOrder, Sends
  <2>2. PICK r \in Nat : r = work[w].obj[1].rv  BY <2>1, Zenon DEF Older
  <2>3. Older(k, r)'  BY <2>1, <2>2, Zenon
  <2>4. QED  BY <2>2, <2>3, Zenon DEF Older
<1>2. InboxOrder'
  <2> SUFFICES ASSUME NEW k \in Keys, Arrived(k)'
               PROVE  /\ Older(k, inbox[1].obj.rv)'
                      /\ \A w \in Workers : Sends(w, k)' => inbox'[1].obj.rv <= work'[w].obj[1].rv
    BY Zenon DEF InboxOrder
  <2>1. Older(k, inbox[1].obj.rv) /\ \A w \in Workers : Sends(w, k) => inbox[1].obj.rv <= work[w].obj[1].rv
    BY Zenon DEF Order, InboxOrder, Arrived
  <2>2. PICK r \in Nat : r = inbox[1].obj.rv  BY <2>1, Zenon DEF Older
  <2>3. Older(k, r)'  BY <2>1, <2>2, Zenon
  <2>4. Older(k, inbox[1].obj.rv)'  BY <2>2, <2>3, Zenon DEF Older
  <2>5. QED  BY <2>1, <2>4, Zenon DEF Sends
<1>3. SfcOrder'
  <2> SUFFICES ASSUME NEW k \in Keys, Name(k) \in DOMAIN sfc'
               PROVE  /\ Older(k, sfc[Name(k)].rv)'
                      /\ \A w \in Workers : Sends(w, k)' => sfc'[Name(k)].rv <= work'[w].obj[1].rv
                      /\ Arrived(k)' => sfc'[Name(k)].rv <= inbox'[1].obj.rv
    BY Zenon DEF SfcOrder
  <2>1. /\ Older(k, sfc[Name(k)].rv)
        /\ \A w \in Workers : Sends(w, k) => sfc[Name(k)].rv <= work[w].obj[1].rv
        /\ Arrived(k) => sfc[Name(k)].rv <= inbox[1].obj.rv
    BY Zenon DEF Order, SfcOrder
  <2>2. PICK r \in Nat : r = sfc[Name(k)].rv  BY <2>1, Zenon DEF Older
  <2>3. Older(k, r)'  BY <2>1, <2>2, Zenon
  <2>4. Older(k, sfc[Name(k)].rv)'  BY <2>2, <2>3, Zenon DEF Older
  <2>5. QED  BY <2>1, <2>4, Zenon DEF Sends, Arrived
<1>4. QED  BY <1>1, <1>2, <1>3, Zenon DEF Order

\* A new version is newer than every other.
LEMMA StoreOrder ==
  ASSUME Inv, Order, NEW k \in Keys, NEW obj \in Object, Store(k, obj), UNCHANGED <<lister, work, inbox, sfc>>
  PROVE  Order'
<1>1. /\ version \in Nat /\ version' = version + 1
      /\ DOMAIN api' = DOMAIN api \cup {k} /\ api'[k].rv = version + 1
      /\ \A x \in DOMAIN api : x # k => api'[x] = api[x]
  <2> DEFINE new == [obj EXCEPT !.rv = version + 1]
  <2>1. version \in Nat /\ version' = version + 1  BY Zenon DEF Inv, ApiInv, Store
  <2>2. new.rv = version + 1 /\ api' = With(api, k, new)  BY <2>1, ObjectIs DEF Store
  <2> HIDE DEF new
  <2>3. QED  BY <2>1, <2>2, Zenon DEF With
<1>2. \A x \in Keys, r \in Nat : Older(x, r) => Older(x, r)'
  <2> SUFFICES ASSUME NEW x \in Keys, NEW r \in Nat, Older(x, r) PROVE Older(x, r)'  BY Zenon
  <2>1. r <= version' /\ r <= version + 1  BY <1>1 DEF Older
  <2>2. x \in DOMAIN api' => r <= api'[x].rv
    <3>1. CASE x = k  BY <3>1, <1>1, <2>1, Zenon
    <3>2. CASE x # k  BY <3>2, <1>1, Zenon DEF Older
    <3>3. QED  BY <3>1, <3>2, Zenon
  <2>3. QED  BY <2>1, <2>2, Zenon DEF Older
<1>3. ListerBehind'
  <2>1. \A x \in DOMAIN lister : lister[x].rv \in Nat /\ lister[x].rv <= version
    BY ObjectIs, Zenon DEF Inv, ListerInv, CopyOK
  <2> SUFFICES ASSUME NEW x \in DOMAIN lister, x \in DOMAIN api' PROVE lister[x].rv <= api'[x].rv
    BY Zenon DEF ListerBehind
  <2>2. CASE x = k  BY <2>1, <2>2, <1>1
  <2>3. CASE x # k  BY <2>3, <1>1, Zenon DEF Order, ListerBehind
  <2>4. QED  BY <2>2, <2>3, Zenon
<1>4. QED  BY <1>2, <1>3, KeepsOrder, Zenon

LEMMA UsersOrder ==
  ASSUME Inv, Order, NEW k \in Keys, (\E s \in Contents : UserApply(k, s)) \/ UserDelete(k)
  PROVE  Order'
<1>1. ASSUME NEW s \in Contents, UserApply(k, s) PROVE Order'
  <2> DEFINE st == IF k \in DOMAIN api THEN api[k].status ELSE NoStatus
             obj == [spec |-> s, filled |-> FALSE, rv |-> 0, status |-> st]
  <2>1. st \in Contents \cup {NoStatus}  BY Zenon DEF Inv, ApiInv, Object
  <2>2. obj \in Object  BY <2>1, Zenon DEF Object
  <2>3. Store(k, obj) /\ UNCHANGED <<lister, work, inbox, sfc>>  BY <1>1, Zenon DEF UserApply, ctlr
  <2> HIDE DEF obj
  <2>4. QED  BY <2>2, <2>3, StoreOrder, Zenon
<1>2. CASE UserDelete(k)
  <2>1. api' = Without(api, k) /\ UNCHANGED <<version, lister, work, inbox, sfc>>
    BY <1>2, Zenon DEF UserDelete, ctlr
  <2>2. DOMAIN api' \subseteq DOMAIN api /\ \A x \in DOMAIN api' : api'[x] = api[x]
    BY <2>1, Zenon DEF Without, Restrict
  <2>3. ListerBehind' /\ \A x \in Keys, r \in Nat : Older(x, r) => Older(x, r)'
    BY <2>1, <2>2, Zenon DEF Order, ListerBehind, Older
  <2>4. QED  BY <2>1, <2>3, KeepsOrder, Zenon
<1>3. QED  BY <1>1, <1>2, Zenon

LEMMA InformerOrder ==
  ASSUME Inv, Order, Informer \/ Resync \/ \E k \in Keys : Notify(k)
  PROVE  Order'
<1>1. UNCHANGED <<api, version, work, inbox, sfc>>  BY Zenon DEF Informer, Resync, Notify, kube, ctlr
<1>2. Copied  BY InformerCopies, Zenon
<1>3. \A k \in DOMAIN api : api[k].rv \in Nat  BY ObjectIs, Zenon DEF Inv, ApiInv
<1>4. ListerBehind'  BY <1>1, <1>2, <1>3 DEF Order, ListerBehind, Copied
<1>5. \A k \in Keys, r \in Nat : Older(k, r) => Older(k, r)'  BY <1>1, <1>2, Zenon DEF Older, Copied
<1>6. QED  BY <1>1, <1>4, <1>5, KeepsOrder, Zenon

LEMMA UpdateOrder ==
  ASSUME Inv, Order, Update
  PROVE  Order'
<1>1. PICK k \in Keys, obj \in Object : update = <<[key |-> k, obj |-> obj]>>
  BY Zenon DEF Inv, UpdateInv, Update
<1>2. update[1].key = k /\ update[1].obj = obj  BY <1>1, Zenon
<1>3. UNCHANGED <<lister, work, inbox, sfc>>  BY Zenon DEF Update, ctlr
<1>4. CASE UNCHANGED <<version, api>>
  <2>1. ListerBehind' /\ \A x \in Keys, r \in Nat : Older(x, r) => Older(x, r)'
    BY <1>3, <1>4, Zenon DEF Order, ListerBehind, Older
  <2>2. QED  BY <1>3, <2>1, KeepsOrder, Zenon
<1>5. CASE Store(k, obj)  BY <1>3, <1>5, StoreOrder, Zenon
<1>6. QED  BY <1>2, <1>4, <1>5, Zenon DEF Update

-----------------------------------------------------------------------------
(* Steps of the workers and the loop.                                      *)

\* No worker starts to send.
LEMMA NoNewSends ==
  ASSUME Inv, Order, UNCHANGED <<api, version, lister, inbox, sfc>>,
         \A w \in Workers : work'[w].at = "send" => work'[w] = work[w]
  PROVE  Order'
<1>1. \A w \in Workers, k \in Keys : Sends(w, k)' => Sends(w, k) /\ work'[w] = work[w]  BY Zenon DEF Sends
<1>2. \A k \in Keys : Arrived(k)' <=> Arrived(k)  BY Zenon DEF Arrived
<1>3. ListerBehind'  BY Zenon DEF Order, ListerBehind
<1>4. SendsOrder'  BY <1>1, Zenon DEF Order, SendsOrder, Older
<1>5. InboxOrder'  BY <1>1, <1>2, Zenon DEF Order, InboxOrder, Older
<1>6. SfcOrder'  BY <1>1, <1>2, Zenon DEF Order, SfcOrder, Older
<1>7. QED  BY <1>3, <1>4, <1>5, <1>6, Zenon DEF Order

LEMMA DoneSends ==
  ASSUME Inv, NEW w \in Workers, Done(w)
  PROVE  /\ work'[w].at = "idle" /\ \A v \in Workers : v # w => work'[v] = work[v]
         /\ \A v \in Workers : work'[v].at = "send" => work'[v] = work[v]
<1>1. work' = [work EXCEPT ![w] = Idle] /\ DOMAIN work = Workers  BY Zenon DEF Done, Inv, WorkInv
<1>2. QED  BY <1>1, Zenon DEF Idle

\* A worker sends the informer's copy, which nothing on its way is newer than.
LEMMA SyncOrder ==
  ASSUME Inv, Order, NEW w \in Workers, SyncHandler(w)
  PROVE  Order'
<1>1. UNCHANGED <<api, version, lister, inbox, sfc>>  BY Zenon DEF SyncHandler, kube, ctlr
<1>2. CASE Done(w)  BY <1>1, <1>2, DoneSends, NoNewSends, Zenon
<1>3. CASE work[w].key \in DOMAIN lister /\ Send(w, lister[work[w].key])
  <2>1. PICK j \in DOMAIN lister, o \in Object : /\ j = work[w].key /\ o = lister[j] /\ CopyOK(j, o)
                                                 /\ o.rv \in Nat
    BY <1>3, ObjectIs, Zenon DEF Inv, ListerInv, CopyOK
  <2>2. work \in [Workers -> Job]  BY Zenon DEF Inv, WorkInv, Job
  <2>3. work' = [work EXCEPT ![w].at = "send", ![w].obj = <<o>>]  BY <1>3, <2>1, Zenon DEF Send
  <2>4. /\ work'[w].at = "send" /\ work'[w].key = j /\ work'[w].obj[1].rv = o.rv
        /\ \A v \in Workers : v # w => work'[v] = work[v]
    BY <2>1, <2>2, <2>3, Zenon DEF Job
  <2>5. \A r \in Nat : Older(j, r) => r <= o.rv  BY <2>1, Zenon DEF Older
  <2>6. \A k \in Keys : \A r : Older(k, r)' <=> Older(k, r)  BY <1>1, Zenon DEF Older
  <2>7. Older(j, o.rv)  BY <2>1 DEF Older, Order, ListerBehind, CopyOK
  <2>8. \A v \in Workers, k \in Keys : Sends(v, k)' =>
           (v = w /\ k = j) \/ (v # w /\ Sends(v, k) /\ work'[v] = work[v])
    BY <2>4, Zenon DEF Sends
  <2>9. \A k \in Keys : Arrived(k)' <=> Arrived(k)  BY <1>1, Zenon DEF Arrived
  <2>10. SendsOrder'
    <3> SUFFICES ASSUME NEW k \in Keys, NEW v \in Workers, Sends(v, k)'
                 PROVE  Older(k, work[v].obj[1].rv)'
      BY Zenon DEF SendsOrder
    <3>1. CASE v = w /\ k = j  BY <3>1, <1>1, <2>4, <2>7, Zenon DEF Older
    <3>2. CASE Sends(v, k) /\ work'[v] = work[v]  BY <3>2, <1>1, Zenon DEF Order, SendsOrder, Older
    <3>3. QED  BY <3>1, <3>2, <2>8, Zenon
  <2>11. InboxOrder'
    <3> SUFFICES ASSUME NEW k \in Keys, Arrived(k)
                 PROVE  /\ Older(k, inbox[1].obj.rv)'
                        /\ \A v \in Workers : Sends(v, k)' => inbox[1].obj.rv <= work'[v].obj[1].rv
      BY <1>1, <2>9, Zenon DEF InboxOrder
    <3>1. /\ Older(k, inbox[1].obj.rv) /\ inbox[1].obj.rv \in Nat
          /\ \A v \in Workers : Sends(v, k) => inbox[1].obj.rv <= work[v].obj[1].rv
      BY Zenon DEF Order, InboxOrder, Older
    <3>2. Older(k, inbox[1].obj.rv)'  BY <1>1, <3>1, Zenon DEF Older
    <3>3. QED  BY <3>1, <3>2, <2>4, <2>5, <2>8, Zenon
  <2>12. SfcOrder'
    <3> SUFFICES ASSUME NEW k \in Keys, Name(k) \in DOMAIN sfc
                 PROVE  /\ Older(k, sfc[Name(k)].rv)'
                        /\ \A v \in Workers : Sends(v, k)' => sfc[Name(k)].rv <= work'[v].obj[1].rv
                        /\ Arrived(k) => sfc[Name(k)].rv <= inbox[1].obj.rv
      BY <1>1, <2>9, Zenon DEF SfcOrder
    <3>1. /\ Older(k, sfc[Name(k)].rv) /\ sfc[Name(k)].rv \in Nat
          /\ \A v \in Workers : Sends(v, k) => sfc[Name(k)].rv <= work[v].obj[1].rv
          /\ Arrived(k) => sfc[Name(k)].rv <= inbox[1].obj.rv
      BY Zenon DEF Order, SfcOrder, Older
    <3>2. Older(k, sfc[Name(k)].rv)'  BY <1>1, <3>1, Zenon DEF Older
    <3>3. QED  BY <3>1, <3>2, <2>4, <2>5, <2>8, Zenon
  <2>13. ListerBehind'  BY <1>1, Zenon DEF Order, ListerBehind
  <2>14. QED  BY <1>1, <2>10, <2>11, <2>12, <2>13, Zenon DEF Order
<1>4. QED  BY <1>2, <1>3, Zenon DEF SyncHandler

\* The worker that is released was the only one with the object.
LEMMA ReceiveOrder ==
  ASSUME Inv, Order, NEW w \in Workers, Receive(w)
  PROVE  Order'
<1>1. PICK j \in Keys, o \in Object : /\ work[w].key = j /\ work[w].obj[1] = o /\ o.rv \in Nat
                                      /\ work[w].at = "send"
  <2>1. work[w].at = "send"  BY Zenon DEF Receive
  <2>2. work[w].key \in Keys /\ work[w].obj \in {<<o>> : o \in Object}  BY <2>1, Zenon DEF Inv, WorkInv
  <2>3. work[w].obj[1] \in Object  BY <2>2
  <2>4. QED  BY <2>1, <2>2, <2>3, ObjectIs, Zenon
<1>2. UNCHANGED <<api, version, lister, sfc>> /\ inbox' = <<[key |-> j, obj |-> o]>> /\ Done(w)
  BY <1>1, Zenon DEF Receive, kube
<1>3. inbox'[1].key = j /\ inbox'[1].obj = o /\ inbox' # <<>>  BY <1>2, Zenon
<1>4. /\ \A v \in Workers : v # w => work'[v] = work[v]
      /\ work'[w].at = "idle" /\ Sends(w, j)
  BY <1>1, <1>2, DoneSends, Zenon DEF Sends
<1>5. \A v \in Workers, k \in Keys : Sends(v, k)' => v # w /\ Sends(v, k) /\ work'[v] = work[v]
  BY <1>4, Zenon DEF Sends
<1>6. \A v \in Workers : ~Sends(v, j)'
  <2>1. OneWorkerEach  BY Zenon DEF Inv, QueueInv, OneWorkerEach
  <2>2. SUFFICES ASSUME NEW v \in Workers, v # w, Sends(v, j) PROVE FALSE  BY <1>5, Zenon
  <2>3. QED  BY <2>1, <2>2, <1>4, Zenon DEF Sends, OneWorkerEach
<1>7. Older(j, o.rv)  BY <1>1, <1>4, Zenon DEF Order, SendsOrder
<1>8. \A k \in Keys : Arrived(k)' <=> k = j  BY <1>3, Zenon DEF Arrived
<1>9. ListerBehind'  BY <1>2, Zenon DEF Order, ListerBehind
<1>10. SendsOrder'  BY <1>2, <1>5, Zenon DEF Order, SendsOrder, Older
<1>11. InboxOrder'
  <2>1. Older(j, inbox[1].obj.rv)'  BY <1>2, <1>3, <1>7, Zenon DEF Older
  <2>2. QED  BY <1>6, <1>8, <2>1, Zenon DEF InboxOrder
<1>12. SfcOrder'
  <2> SUFFICES ASSUME NEW k \in Keys, Name(k) \in DOMAIN sfc
               PROVE  /\ Older(k, sfc[Name(k)].rv)'
                      /\ \A v \in Workers : Sends(v, k)' => sfc[Name(k)].rv <= work'[v].obj[1].rv
                      /\ k = j => sfc[Name(k)].rv <= o.rv
    BY <1>2, <1>3, <1>8, Zenon DEF SfcOrder
  <2>1. /\ Older(k, sfc[Name(k)].rv)
        /\ \A v \in Workers : Sends(v, k) => sfc[Name(k)].rv <= work[v].obj[1].rv
    BY Zenon DEF Order, SfcOrder
  <2>2. QED  BY <1>1, <1>2, <1>4, <1>5, <2>1, Zenon DEF Older
<1>13. QED  BY <1>2, <1>9, <1>10, <1>11, <1>12, Zenon DEF Order

\* What the cache gets is the message that has arrived.
LEMMA HandleOrder ==
  ASSUME Inv, Order, NamesDistinct, Handle
  PROVE  /\ Order'
         /\ \A n \in DOMAIN sfc : n \in DOMAIN sfc' /\ sfc'[n].rv >= sfc[n].rv
<1>1. PICK j \in Keys, m \in Object : inbox = <<[key |-> j, obj |-> m]>> /\ m.rv \in Nat
  BY ObjectIs, Zenon DEF Inv, WorkInv, Handle
<1>2. inbox[1].key = j /\ inbox[1].obj = m /\ Arrived(j)  BY <1>1, Zenon DEF Arrived
<1>3. /\ lister' = IF j \in DOMAIN lister /\ lister[j].rv = m.rv
                   THEN [lister EXCEPT ![j].filled = TRUE] ELSE lister
      /\ sfc' = With(sfc, Name(j), [spec |-> m.spec, filled |-> TRUE, rv |-> m.rv])
      /\ inbox' = <<>> /\ UNCHANGED <<api, version, work>>
  BY <1>2, Zenon DEF Handle, kube
<1>4. /\ DOMAIN sfc' = DOMAIN sfc \cup {Name(j)} /\ sfc'[Name(j)].rv = m.rv
      /\ \A n \in DOMAIN sfc : n # Name(j) => sfc'[n] = sfc[n]
  BY <1>3, Zenon DEF With
<1>5. DOMAIN lister' = DOMAIN lister /\ \A k \in DOMAIN lister : lister'[k].rv = lister[k].rv
  <2>1. \A k \in DOMAIN lister : lister[k] \in Object  BY Zenon DEF Inv, ListerInv, CopyOK
  <2>2. QED  BY <1>3, <2>1, Zenon DEF Object
<1>6. \A k \in Keys, r \in Nat : Older(k, r) => Older(k, r)'  BY <1>3, <1>5, Zenon DEF Older
<1>7. /\ Older(j, m.rv)
      /\ \A w \in Workers : Sends(w, j) => m.rv <= work[w].obj[1].rv
      /\ Name(j) \in DOMAIN sfc => sfc[Name(j)].rv <= m.rv
  BY <1>2, Zenon DEF Order, InboxOrder, SfcOrder
<1>8. \A n \in DOMAIN sfc : n \in DOMAIN sfc' /\ sfc'[n].rv >= sfc[n].rv
  BY <1>1, <1>4, <1>7 DEF Order
<1>9. ListerBehind'  BY <1>3, <1>5, Zenon DEF Order, ListerBehind
<1>10. SendsOrder'  BY <1>3, <1>5, Zenon DEF Order, SendsOrder, Sends, Older
<1>11. \A k : ~Arrived(k)'  BY <1>3, Zenon DEF Arrived
<1>12. SfcOrder'
  <2> SUFFICES ASSUME NEW k \in Keys, Name(k) \in DOMAIN sfc'
               PROVE  /\ Older(k, sfc[Name(k)].rv)'
                      /\ \A w \in Workers : Sends(w, k) => sfc'[Name(k)].rv <= work[w].obj[1].rv
    BY <1>3, <1>11, Zenon DEF SfcOrder, Sends
  <2>1. CASE k = j
    <3>1. PICK r \in Nat : r = m.rv  BY <1>1, Zenon
    <3>2. Older(j, r)'  BY <1>6, <1>7, <3>1, Zenon
    <3>3. QED  BY <2>1, <3>1, <3>2, <1>4, <1>7, Zenon DEF Older
  <2>2. CASE k # j
    <3>1. Name(k) # Name(j)  BY <2>2, Zenon DEF NamesDistinct
    <3>2. Name(k) \in DOMAIN sfc /\ sfc'[Name(k)] = sfc[Name(k)]  BY <3>1, <1>4, Zenon
    <3>3. PICK r \in Nat : r = sfc[Name(k)].rv  BY <3>2, Zenon DEF Order
    <3>4. Older(k, r) /\ \A w \in Workers : Sends(w, k) => r <= work[w].obj[1].rv
      BY <3>2, <3>3, Zenon DEF Order, SfcOrder
    <3>5. Older(k, r)'  BY <1>6, <3>4, Zenon
    <3>6. QED  BY <3>2, <3>3, <3>4, <3>5, Zenon DEF Older
  <2>3. QED  BY <2>1, <2>2, Zenon
<1>13. InboxOrder'  BY <1>11, Zenon DEF InboxOrder
<1>14. QED  BY <1>1, <1>4, <1>8, <1>9, <1>10, <1>12, <1>13, Zenon DEF Order

-----------------------------------------------------------------------------
(* The theorem.                                                            *)

NotOlder == \A n \in DOMAIN sfc : n \in DOMAIN sfc' /\ sfc'[n].rv >= sfc[n].rv

LEMMA NextOrder ==
  ASSUME Inv, Order, NamesDistinct, [Next]_vars
  PROVE  Order' /\ NotOlder
<1>1. CASE Handle  BY <1>1, HandleOrder, Zenon DEF NotOlder
<1>2. UNCHANGED sfc => NotOlder  BY DEF Order, NotOlder
<1>3. ASSUME NEW k \in Keys, (\E s \in Contents : UserApply(k, s)) \/ UserDelete(k)
      PROVE  Order' /\ UNCHANGED sfc
  BY <1>3, UsersOrder, Zenon DEF UserApply, UserDelete, ctlr
<1>4. CASE Informer \/ Resync \/ \E k \in Keys : Notify(k)
  <2>1. UNCHANGED sfc  BY <1>4, Zenon DEF Informer, Resync, Notify, ctlr
  <2>2. QED  BY <1>2, <1>4, <2>1, InformerOrder, Zenon
<1>5. ASSUME NEW k \in Keys, Add(k) PROVE Order' /\ UNCHANGED sfc
  <2>1. UNCHANGED <<api, version, lister, inbox, sfc, work>>  BY <1>5, Zenon DEF Add, kube, ctlr
  <2>2. QED  BY <2>1, NoNewSends, Zenon
<1>6. ASSUME NEW w \in Workers, Get(w) PROVE Order' /\ UNCHANGED sfc
  <2>1. UNCHANGED <<api, version, lister, inbox, sfc>>  BY <1>6, Zenon DEF Get, kube, ctlr
  <2>2. work' = [work EXCEPT ![w] = [at |-> "sync", key |-> Head(queue), obj |-> <<>>]]
    BY <1>6, Zenon DEF Get
  <2>3. DOMAIN work = Workers  BY Zenon DEF Inv, WorkInv
  <2>4. \A v \in Workers : work'[v].at = "send" => work'[v] = work[v]  BY <2>2, <2>3, Zenon
  <2>5. QED  BY <2>1, <2>4, NoNewSends, Zenon
<1>7. ASSUME NEW w \in Workers, SyncHandler(w) PROVE Order' /\ UNCHANGED sfc
  BY <1>7, SyncOrder, Zenon DEF SyncHandler, ctlr
<1>8. ASSUME NEW w \in Workers, Receive(w) PROVE Order' /\ UNCHANGED sfc
  BY <1>8, ReceiveOrder, Zenon DEF Receive
<1>9. CASE WatchPut
  <2>1. UNCHANGED <<api, version, lister, inbox, sfc, work>>  BY <1>9, Zenon DEF WatchPut, kube
  <2>2. QED  BY <1>2, <2>1, NoNewSends, Zenon
<1>10. CASE Update
  <2>1. UNCHANGED sfc  BY <1>10, Zenon DEF Update, ctlr
  <2>2. QED  BY <1>2, <1>10, <2>1, UpdateOrder, Zenon
<1>11. CASE UNCHANGED vars
  <2>1. UNCHANGED <<api, version, lister, inbox, sfc, work>>  BY <1>11, Zenon DEF vars, kube, ctlr
  <2>2. QED  BY <1>2, <2>1, NoNewSends, Zenon
<1>12. QED
  BY <1>1, <1>2, <1>3, <1>4, <1>5, <1>6, <1>7, <1>8, <1>9, <1>10, <1>11, Zenon DEF Next

\* With several workers, a backlog and a loop that is busy, the controller
\* still never replaces an object by an earlier version of it, as long as no
\* two objects share a name (syncHandler, crdController's message to the loop).
THEOREM NeverOlderHolds == NamesDistinct => (Spec => NeverOlder)
<1> SUFFICES ASSUME NamesDistinct PROVE Spec => NeverOlder  BY Zenon
<1>1. Inv /\ Order /\ [Next]_vars => Inv' /\ Order' /\ NotOlder  BY NextInv, NextOrder, Zenon
<1>2. Init => Inv /\ Order  BY InitInv, InitOrder, Zenon
<1>3. NotOlder => [\A n \in DOMAIN sfc : n \in DOMAIN sfc' /\ sfc'[n].rv >= sfc[n].rv]_vars
  BY Zenon DEF NotOlder
<1>4. QED  BY <1>1, <1>2, <1>3, PTL DEF Spec, NeverOlder
=============================================================================

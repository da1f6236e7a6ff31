-------------------------- MODULE NorthboundProofs --------------------------
(***************************************************************************)
(* What reaches the cache and etcd through the HTTP handlers, the watcher  *)
(* and the one loop, for every set of names, specs and clients and any     *)
(* number of requests, deletions by others, and crashes.                   *)
(***************************************************************************)
EXTENDS Northbound, TLAPS

USE SpecsAssumption, SendersAssumption, NoneAssumption

Senders  == Clients \cup {"watcher", "AfterInit"}
Posts    == {CU(n, s) : n \in Names, s \in Specs}
Deletes  == {D(n) : n \in Names}
System   == {BootMessages[k] : k \in 1..3}
Handlers == [at : {"idle", "read", "send", "reply"}, req : Posts \cup Deletes \cup {D(None)},
             how : {"", "queued", "shortcut", "refused"}, calm : BOOLEAN]

\* A handler reads a POST, and sends only what validate accepts.
ClientOK ==
  /\ client \in [Clients -> Handlers]
  /\ \A c \in Clients :
       /\ client[c].at = "read" => client[c].req \in Posts
       /\ client[c].at = "send" => client[c].req \in Messages
       /\ client[c].at = "reply" => client[c].req.name \in Names

\* A goroutine waits on the channel at most once, and while it waits it has the
\* message it wants to send.
QueueOK ==
  /\ \A i, j \in 1..Len(sendq) : sendq[i] = sendq[j] => i = j
  /\ \A j \in 1..Len(sendq) :
       /\ sendq[j] = "watcher" => watcher \in Messages
       /\ sendq[j] = "AfterInit" => boot # <<>>
       /\ sendq[j] \in Clients => client[sendq[j]].at = "send"

\* What the loop is doing belongs to the message it received.
LoopOK ==
  /\ pc = "handle" => msg \in Messages \cup System
  /\ pc = "store" => msg \in Messages /\ cache[msg.name] = msg.spec
  /\ pc = "render" => \A n \in todo : cache[n] # None

Typed == TypeOK /\ ClientOK /\ QueueOK /\ LoopOK

\* A deletion of n is on its way from etcd to the loop.
InEvents(n) == \E j \in 1..Len(events) : events[j] = D(n)
Reported(n) == InEvents(n) \/ watcher = D(n)

\* Cache and etcd differ only in what the loop is about to write, or where a
\* deletion by someone else has not got through yet.
Differences ==
  pc # "down" => \A n \in Names : cache[n] # etcd[n] =>
    \/ pc = "store" /\ msg.name = n
    \/ etcd[n] = None /\ (missed \/ Reported(n) \/ (pc = "handle" /\ msg = D(n)))

\* The configuration of n once the loop has applied the message it holds, and
\* that no reported deletion will take it away.
Effective(n) == IF pc = "handle" /\ msg.name = n THEN msg.spec ELSE cache[n]
Holds(n, s)  == Effective(n) = s /\ (s # None => ~Reported(n))

\* The watcher sends nothing but deletions.
WatcherOK == watcher \in Deletes \cup {None}

\* Nothing about n is under way but what clients have still to send.
Still(n) == ~Reported(n) /\ (pc \in {"handle", "store"} => msg.name # n)

\* A later request for n has been accepted and will be answered.
Superseded(n) ==
  \E c \in Clients :
    client[c].req.name = n /\ client[c].how = "queued" /\ client[c].at \in {"send", "reply"}

\* A calm request has its entity for itself; before it is received nothing else
\* about that entity is under way, afterwards it is what holds.
CalmClient(c) ==
  client[c].calm /\ client[c].at # "idle" =>
    /\ \A d \in Clients : d # c => client[d].req.name # client[c].req.name
    /\ client[c].at \in {"read", "send"} => Still(client[c].req.name)
    /\ client[c].at = "reply" /\ client[c].how # "refused" =>
         Holds(client[c].req.name, client[c].req.spec)

CalmLast(n) == last[n].calm => Superseded(n) \/ Holds(n, last[n].spec)

CalmOK ==
  /\ last \in [Names -> [calm : BOOLEAN, spec : Specs \cup {None}]]
  /\ pc = "down" => /\ \A n \in Names : ~last[n].calm
                    /\ \A c \in Clients : ~client[c].calm
  /\ \A c \in Clients : CalmClient(c)
  /\ \A n \in Names : CalmLast(n)

-----------------------------------------------------------------------------
(* Messages and sequences.                                                 *)

LEMMA MessageFacts ==
  ASSUME NEW m \in Messages
  PROVE  /\ m.name \in Names /\ m.name # None /\ m.spec \in Valid \cup {None}
         /\ m.op \in {"CreateUpdate", "Delete"}
         /\ m.op = "Delete" => m = D(m.name) /\ m.spec = None
         /\ m.op = "CreateUpdate" => m.spec \in Valid /\ m.spec # None
BY DEF Messages, CU, D

LEMMA SystemFacts ==
  ASSUME NEW m \in System
  PROVE  m.op \in {"EnableRenderer", "Resync", "Render"} /\ m.name = None /\ m.name \notin Names
BY DEF System, BootMessages, Sys

LEMMA RequestFacts ==
  ASSUME NEW m \in Posts \cup Deletes
  PROVE  /\ m.name \in Names /\ m.name # None /\ m.spec \in Specs \cup {None}
         /\ m \in Posts => m.op = "CreateUpdate" /\ (m.spec \in Valid => m \in Messages)
         /\ m \in Deletes => m.op = "Delete" /\ m \in Messages
BY DEF Posts, Deletes, Messages, CU, D

LEMMA DeleteFacts ==
  ASSUME NEW n \in Names
  PROVE  /\ D(n) \in Messages /\ D(n) \in Deletes /\ D(n) # None
         /\ D(n).op = "Delete" /\ D(n).name = n /\ D(n).spec = None
<1>1. D(n) \in Messages /\ D(n) \in Deletes
  BY DEF Messages, Deletes
<1> QED BY <1>1, Zenon DEF D

LEMMA CreateFacts ==
  ASSUME NEW n \in Names, NEW s \in Valid
  PROVE  CU(n, s) \in Messages /\ CU(n, s).op = "CreateUpdate"
<1>1. CU(n, s) \in Messages
  BY DEF Messages
<1> QED BY <1>1, Zenon DEF CU

LEMMA AppendFacts ==
  ASSUME NEW S, NEW q \in Seq(S), NEW x \in S
  PROVE  /\ Append(q, x) \in Seq(S) /\ Len(q) \in Nat /\ Len(Append(q, x)) = Len(q) + 1
         /\ \A j \in 1..Len(q) : Append(q, x)[j] = q[j]
         /\ Append(q, x)[Len(q) + 1] = x
OBVIOUS

LEMMA TailFacts ==
  ASSUME NEW S, NEW q \in Seq(S), q # <<>>
  PROVE  /\ Tail(q) \in Seq(S) /\ Head(q) \in S /\ Head(q) = q[1]
         /\ Len(q) \in Nat \ {0} /\ Len(Tail(q)) = Len(q) - 1
         /\ \A j \in 1..Len(q) - 1 : Tail(q)[j] = q[j + 1]
OBVIOUS

BootTyped(b) == \E k \in 0..3 : b = SubSeq(BootMessages, k + 1, 3)

LEMMA BootFacts ==
  ASSUME NEW b, BootTyped(b), b # <<>>
  PROVE  Head(b) \in System /\ BootTyped(Tail(b))
<1>1. PICK k \in 0..3 : b = SubSeq(BootMessages, k + 1, 3)
  BY Zenon DEF BootTyped
<1>2. BootMessages \in Seq(System) /\ Len(BootMessages) = 3
  BY DEF BootMessages, System, Sys
<1>3. k # 3
  BY <1>1, <1>2
<1>4. /\ Head(b) = BootMessages[k + 1]
      /\ Tail(b) = SubSeq(BootMessages, (k + 1) + 1, 3)
  BY <1>1, <1>2, <1>3
<1> QED BY <1>3, <1>4 DEF BootTyped, System

LEMMA BootBounds == BootTyped(<<>>) /\ BootTyped(BootMessages)
<1>1. BootMessages \in Seq(System) /\ Len(BootMessages) = 3
  BY DEF BootMessages, System, Sys
<1>2. SubSeq(BootMessages, 3 + 1, 3) = <<>> /\ SubSeq(BootMessages, 0 + 1, 3) = BootMessages
  BY <1>1
<1> QED BY <1>2 DEF BootTyped

-----------------------------------------------------------------------------
(* The queue of senders.                                                   *)

\* Whoever waits keeps what it waits with.
Waiting ==
  /\ watcher \in Messages => watcher' \in Messages
  /\ boot # <<>> => boot' # <<>>
  /\ \A c \in Clients : client[c].at = "send" => client'[c].at = "send"

LEMMA QueueSame ==
  ASSUME QueueOK, Waiting, sendq' = sendq
  PROVE  QueueOK'
BY Zenon DEF QueueOK, Waiting

LEMMA QueueAppend ==
  ASSUME sendq \in Seq(Senders), QueueOK, Waiting, NEW x \in Senders, sendq' = Append(sendq, x),
         \A j \in 1..Len(sendq) : sendq[j] # x,
         x = "watcher" => watcher' \in Messages,
         x = "AfterInit" => boot' # <<>>,
         x \in Clients => client'[x].at = "send"
  PROVE  sendq' \in Seq(Senders) /\ QueueOK'
<1> DEFINE L == Len(sendq)
<1>1. /\ sendq' \in Seq(Senders) /\ L \in Nat /\ Len(sendq') = L + 1 /\ sendq'[L + 1] = x
      /\ \A j \in 1..L : sendq'[j] = sendq[j]
  BY AppendFacts
<1>2. \A j \in 1..L : /\ sendq[j] = "watcher" => watcher' \in Messages
                      /\ sendq[j] = "AfterInit" => boot' # <<>>
                      /\ sendq[j] \in Clients => client'[sendq[j]].at = "send"
  BY Zenon DEF QueueOK, Waiting
<1>3. \A i, j \in 1..L : sendq[i] = sendq[j] => i = j
  BY Zenon DEF QueueOK
<1> HIDE DEF L
<1>4. \A j \in 1..L + 1 : j \in 1..L \/ j = L + 1
  BY <1>1
<1>5. \A i, j \in 1..L + 1 : sendq'[i] = sendq'[j] => i = j
  BY <1>1, <1>3, <1>4 DEF L
<1>6. \A j \in 1..L + 1 : /\ sendq'[j] = "watcher" => watcher' \in Messages
                          /\ sendq'[j] = "AfterInit" => boot' # <<>>
                          /\ sendq'[j] \in Clients => client'[sendq'[j]].at = "send"
  BY <1>1, <1>2, <1>4, Zenon
<1> QED BY <1>1, <1>5, <1>6, Zenon DEF QueueOK

\* The head leaves, and so does what it waited with.
LEMMA QueueTail ==
  ASSUME sendq \in Seq(Senders), QueueOK, sendq # <<>>, sendq' = Tail(sendq),
         Head(sendq) = "watcher" \/ UNCHANGED watcher,
         Head(sendq) = "AfterInit" \/ UNCHANGED boot,
         \A c \in Clients : c = Head(sendq) \/ client'[c] = client[c]
  PROVE  sendq' \in Seq(Senders) /\ QueueOK'
<1> DEFINE L == Len(sendq)
<1>1. /\ sendq' \in Seq(Senders) /\ L \in Nat \ {0} /\ Len(sendq') = L - 1
      /\ Head(sendq) = sendq[1] /\ \A j \in 1..L - 1 : sendq'[j] = sendq[j + 1]
  BY TailFacts
<1>2. \A i, j \in 1..L : sendq[i] = sendq[j] => i = j
  BY Zenon DEF QueueOK
<1>3. \A j \in 1..L : /\ sendq[j] = "watcher" => watcher \in Messages
                      /\ sendq[j] = "AfterInit" => boot # <<>>
                      /\ sendq[j] \in Clients => client[sendq[j]].at = "send"
  BY Zenon DEF QueueOK
<1> HIDE DEF L
<1>4. \A j \in 1..L - 1 : j + 1 \in 1..L /\ 1 \in 1..L /\ j + 1 # 1
  BY <1>1
<1>5. \A j \in 1..L - 1 : sendq'[j] # Head(sendq)
  BY <1>1, <1>2, <1>4
<1>6. \A i, j \in 1..L - 1 : sendq'[i] = sendq'[j] => i = j
  <2> SUFFICES ASSUME NEW i \in 1..L - 1, NEW j \in 1..L - 1, sendq'[i] = sendq'[j] PROVE i = j
    BY Zenon
  <2>1. i + 1 \in 1..L /\ j + 1 \in 1..L /\ sendq[i + 1] = sendq[j + 1]
    BY <1>1, <1>4, Zenon
  <2>2. i + 1 = j + 1
    BY <1>2, <2>1, Zenon
  <2> QED BY <1>1, <2>2
<1>7. \A j \in 1..L - 1 : /\ sendq'[j] = "watcher" => watcher' \in Messages
                          /\ sendq'[j] = "AfterInit" => boot' # <<>>
                          /\ sendq'[j] \in Clients => client'[sendq'[j]].at = "send"
  BY <1>1, <1>3, <1>4, <1>5
<1> QED BY <1>1, <1>6, <1>7, Zenon DEF QueueOK

-----------------------------------------------------------------------------
(* The handlers.                                                           *)

LEMMA IdleFacts ==
  Idle \in Handlers /\ Idle.at = "idle" /\ Idle.how = "" /\ ~Idle.calm /\ Idle.req.name \notin Names
BY Zenon DEF Idle, Handlers, D

LEMMA HandlerShape ==
  \E A, R, H : /\ Handlers = [at : A, req : R, how : H, calm : BOOLEAN]
               /\ A = {"idle", "read", "send", "reply"}
               /\ H = {"", "queued", "shortcut", "refused"}
BY Zenon DEF Handlers

\* What Goto leaves of a handler.
LEMMA GotoFacts ==
  ASSUME ClientOK, NEW c \in Clients, NEW at \in {"idle", "read", "send", "reply"},
         NEW how \in {"", "queued", "shortcut", "refused"}, Goto(c, at, how)
  PROVE  /\ client' \in [Clients -> Handlers]
         /\ client'[c].at = at /\ client'[c].how = how
         /\ client'[c].req = client[c].req /\ client'[c].calm = client[c].calm
         /\ \A d \in Clients : d # c => client'[d] = client[d]
<1>1. client \in [Clients -> Handlers] /\ client[c] \in Handlers
  BY Zenon DEF ClientOK
<1>2. /\ client' = [d \in Clients |->
                     IF d = c THEN [client[c] EXCEPT !.at = at, !.how = how] ELSE client[d]]
  BY <1>1, Zenon DEF Goto
<1>3. /\ client'[c] = [client[c] EXCEPT !.at = at, !.how = how]
      /\ \A d \in Clients : d # c => client'[d] = client[d]
  BY <1>2, Zenon
<1>4. /\ client'[c] \in Handlers /\ client'[c].at = at /\ client'[c].how = how
      /\ client'[c].req = client[c].req /\ client'[c].calm = client[c].calm
  <2>1. PICK A, R, H : /\ Handlers = [at : A, req : R, how : H, calm : BOOLEAN]
                       /\ A = {"idle", "read", "send", "reply"}
                       /\ H = {"", "queued", "shortcut", "refused"}
    BY HandlerShape, Zenon
  <2>2. at \in A /\ how \in H
    BY <2>1, Zenon
  <2> QED BY <1>1, <1>3, <2>1, <2>2, Zenon
<1>5. \A d \in Clients : client'[d] \in Handlers
  BY <1>1, <1>3, <1>4, Zenon
<1> QED BY <1>2, <1>3, <1>4, <1>5, Zenon

-----------------------------------------------------------------------------
(* Types.                                                                  *)

LEMMA TypedInit == Init => Typed
<1> SUFFICES ASSUME Init PROVE Typed
  BY Zenon
<1>1. \E k \in 0..3 : boot = SubSeq(BootMessages, k + 1, 3)
  BY BootBounds, Zenon DEF Init, BootTyped
<1>2. TypeOK
  <2>1. \A c \in Clients : client[c].at \in {"idle", "read", "send", "reply"}
    BY IdleFacts, Zenon DEF Init
  <2>2. events \in Seq(Messages) /\ sendq \in Seq(Senders)
    BY DEF Init
  <2>3. watching \in BOOLEAN /\ enabled \in BOOLEAN /\ pending \in BOOLEAN
    BY Zenon DEF Init
  <2> QED BY <1>1, <2>1, <2>2, <2>3, Zenon DEF Init, TypeOK, Senders
<1>3. ClientOK
  BY IdleFacts, Zenon DEF Init, ClientOK
<1> QED BY <1>2, <1>3 DEF Init, Typed, QueueOK, LoopOK

\* A step of the environment: the loop and its message are left alone.
LEMMA TypedOutside ==
  ASSUME Typed, UNCHANGED <<cache, loop>>, etcd' \in [Names -> Valid \cup {None}],
         watching' \in BOOLEAN, events' \in Seq(Messages), watcher' \in Messages \cup {None},
         boot' = boot, sendq' \in Seq(Senders), ClientOK', QueueOK'
  PROVE  Typed'
<1>1. \A c \in Clients : client'[c].at \in {"idle", "read", "send", "reply"}
  BY Zenon DEF ClientOK, Handlers
<1>2. TypeOK'
  BY <1>1, Zenon DEF Typed, TypeOK, loop, Senders
<1>3. LoopOK'
  BY Zenon DEF Typed, LoopOK, loop
<1> QED BY <1>2, <1>3, Zenon DEF Typed

LEMMA TypedProcess ==
  ASSUME Typed, Start \/ AfterInit \/ BootSend \/ InitWatcher \/ Crash
  PROVE  Typed'
<1> USE DEF Typed
<1>1. CASE Start
  <2>1. TypeOK' /\ ClientOK'
    BY <1>1, Zenon DEF Start, TypeOK, ClientOK, watch
  <2>2. QueueOK' /\ LoopOK'
    BY <1>1, Zenon DEF Start, QueueOK, LoopOK, watch
  <2> QED BY <2>1, <2>2, Zenon
<1>2. CASE AfterInit
  <2>1. TypeOK' /\ ClientOK'
    BY <1>2, BootBounds, Zenon DEF AfterInit, TypeOK, ClientOK, watch, store, BootTyped
  <2>2. BootMessages # <<>>
    BY Zenon DEF BootMessages
  <2>3. QueueOK'
    BY <1>2, <2>2, QueueSame, Zenon DEF AfterInit, Waiting, watch
  <2>4. LoopOK'
    BY <1>2, Zenon DEF AfterInit, LoopOK
  <2> QED BY <2>1, <2>3, <2>4, Zenon
<1>3. CASE BootSend
  <2>1. sendq' \in Seq(Senders) /\ QueueOK'
    BY <1>3, QueueAppend, Zenon DEF BootSend, Waiting, watch, TypeOK, Senders
  <2>2. ClientOK'
    BY <1>3, Zenon DEF BootSend, ClientOK
  <2> QED BY <1>3, <2>1, <2>2, TypedOutside, Zenon DEF BootSend, store, watch, TypeOK
<1>4. CASE InitWatcher
  <2>1. ClientOK' /\ QueueOK'
    BY <1>4, QueueSame, Zenon DEF InitWatcher, Waiting, ClientOK
  <2> QED BY <1>4, <2>1, TypedOutside, Zenon DEF InitWatcher, store, TypeOK, Senders
<1>5. CASE Crash
  <2>1. \E k \in 0..3 : boot' = SubSeq(BootMessages, k + 1, 3)
    BY <1>5, BootBounds, Zenon DEF Crash, BootTyped
  <2>2. TypeOK'
    <3>1. \A c \in Clients : client'[c].at \in {"idle", "read", "send", "reply"}
      BY <1>5, IdleFacts, Zenon DEF Crash
    <3>2. events' \in Seq(Messages) /\ sendq' \in Seq(Senders)
      BY <1>5 DEF Crash
    <3>3. watching' \in BOOLEAN /\ enabled' \in BOOLEAN /\ pending' \in BOOLEAN
      BY <1>5, Zenon DEF Crash
    <3> QED BY <1>5, <2>1, <3>1, <3>2, <3>3, Zenon DEF Crash, TypeOK, Senders
  <2>3. ClientOK'
    BY <1>5, IdleFacts, Zenon DEF Crash, ClientOK
  <2> QED BY <1>5, <2>2, <2>3 DEF Crash, QueueOK, LoopOK
<1> QED BY <1>1, <1>2, <1>3, <1>4, <1>5, Zenon

LEMMA NotifyType ==
  ASSUME TypeOK, NEW m \in Messages, Notify(m)
  PROVE  events' \in Seq(Messages)
BY AppendFacts, Zenon DEF TypeOK, Notify

\* What a deletion by someone else does to the requests under way.
LEMMA ExternalChanges ==
  ASSUME Typed, NEW n \in Names, ExternalDelete(n)
  PROVE  /\ client' \in [Clients -> Handlers]
         /\ \A c \in Clients :
              /\ client'[c].at = client[c].at /\ client'[c].req = client[c].req
              /\ client'[c].how = client[c].how
              /\ client'[c].calm = (client[c].calm /\ client[c].req.name # n)
<1>1. \A c \in Clients : (client[c].calm /\ client[c].req.name # n) \in BOOLEAN
  BY Zenon
<1>2. \A c \in Clients :
        client'[c] = [client[c] EXCEPT !.calm = client[c].calm /\ client[c].req.name # n]
  BY Zenon DEF ExternalDelete, Typed, ClientOK, Handlers
<1>3. client' = [c \in Clients |-> client'[c]]
  BY Zenon DEF ExternalDelete
<1>4. \A c \in Clients : client[c] \in Handlers
  BY Zenon DEF Typed, ClientOK
<1>5. ASSUME NEW c \in Clients
      PROVE  /\ client'[c] \in Handlers
             /\ client'[c].at = client[c].at /\ client'[c].req = client[c].req
             /\ client'[c].how = client[c].how
             /\ client'[c].calm = (client[c].calm /\ client[c].req.name # n)
  <2>1. PICK b \in BOOLEAN : b = (client[c].calm /\ client[c].req.name # n)
    BY <1>1, Zenon
  <2>2. client'[c] = [client[c] EXCEPT !.calm = b]
    BY <1>2, <2>1, Zenon
  <2>3. /\ client'[c] \in Handlers
        /\ client'[c].at = client[c].at /\ client'[c].req = client[c].req
        /\ client'[c].how = client[c].how /\ client'[c].calm = b
    <3>1. PICK A, R, H : Handlers = [at : A, req : R, how : H, calm : BOOLEAN]
      BY HandlerShape, Zenon
    <3> QED BY <1>4, <2>2, <3>1, Zenon
  <2> QED BY <2>1, <2>3, Zenon
<1> QED BY <1>3, <1>5, Zenon

LEMMA TypedExternal ==
  ASSUME Typed, NEW n \in Names, ExternalDelete(n)
  PROVE  Typed'
<1> USE DEF Typed
<1>1. events' \in Seq(Messages) /\ etcd' \in [Names -> Valid \cup {None}]
  <2>1. D(n) \in Messages
    BY DEF Messages
  <2> QED BY <2>1, NotifyType, Zenon DEF ExternalDelete, TypeOK
<1>2. /\ client' \in [Clients -> Handlers]
      /\ \A c \in Clients : client'[c].at = client[c].at /\ client'[c].req = client[c].req
  BY ExternalChanges, Zenon
<1>3. ClientOK'
  BY <1>2, Zenon DEF ClientOK
<1>4. QueueOK'
  BY <1>2, QueueSame, Zenon DEF ExternalDelete, Waiting
<1> QED BY <1>1, <1>3, <1>4, TypedOutside, Zenon DEF ExternalDelete, TypeOK, Senders

LEMMA RequestOthers ==
  ASSUME Typed, NEW c \in Clients, NEW m, Request(c, m), NEW d \in Clients, d # c
  PROVE  /\ client'[d] \in Handlers
         /\ client'[d].at = client[d].at /\ client'[d].req = client[d].req
         /\ client'[d].how = client[d].how
         /\ client'[d].calm = (client[d].calm /\ client[d].req.name # m.name)
<1>1. client[d] \in Handlers
  BY Zenon DEF Typed, ClientOK
<1>2. client'[d] = [client[d] EXCEPT !.calm = client[d].calm /\ client[d].req.name # m.name]
  BY Zenon DEF Request
<1>3. PICK b \in BOOLEAN : b = (client[d].calm /\ client[d].req.name # m.name)
  BY Zenon
<1>4. client'[d] = [client[d] EXCEPT !.calm = b]
  BY <1>2, <1>3, Zenon
<1>5. PICK A, R, H : Handlers = [at : A, req : R, how : H, calm : BOOLEAN]
  BY HandlerShape, Zenon
<1>6. /\ client'[d] \in Handlers
      /\ client'[d].at = client[d].at /\ client'[d].req = client[d].req
      /\ client'[d].how = client[d].how /\ client'[d].calm = b
  BY <1>1, <1>4, <1>5, Zenon
<1> QED BY <1>3, <1>6, Zenon

LEMMA RequestChanges ==
  ASSUME Typed, NEW c \in Clients, NEW m \in Posts \cup Deletes, Request(c, m)
  PROVE  /\ client' \in [Clients -> Handlers] /\ client[c] = Idle
         /\ client'[c].req = m /\ client'[c].how = "queued"
         /\ client'[c].at = IF m.op = "Delete" THEN "send" ELSE "read"
         /\ client'[c].calm = (Settled /\ \A e \in Clients : client[e] = Idle)
         /\ \A d \in Clients : d # c =>
              /\ client'[d].at = client[d].at /\ client'[d].req = client[d].req
              /\ client'[d].how = client[d].how
              /\ client'[d].calm = (client[d].calm /\ client[d].req.name # m.name)
<1>1. PICK calm \in BOOLEAN : calm = (Settled /\ \A e \in Clients : client[e] = Idle)
  BY Zenon
<1>2. /\ client[c] = Idle /\ client' = [d \in Clients |-> client'[d]]
      /\ client'[c] = [at |-> IF m.op = "Delete" THEN "send" ELSE "read", req |-> m,
                       how |-> "queued", calm |-> Settled /\ \A e \in Clients : client[e] = Idle]
  BY Zenon DEF Request
<1>3. client'[c] = [at |-> IF m.op = "Delete" THEN "send" ELSE "read", req |-> m,
                    how |-> "queued", calm |-> calm]
  BY <1>1, <1>2, Zenon
<1>4. /\ client'[c] \in Handlers /\ client'[c].req = m /\ client'[c].how = "queued"
      /\ client'[c].at = (IF m.op = "Delete" THEN "send" ELSE "read") /\ client'[c].calm = calm
  BY <1>3 DEF Handlers
<1>5. ASSUME NEW d \in Clients, d # c
      PROVE  /\ client'[d] \in Handlers
             /\ client'[d].at = client[d].at /\ client'[d].req = client[d].req
             /\ client'[d].how = client[d].how
             /\ client'[d].calm = (client[d].calm /\ client[d].req.name # m.name)
  BY <1>5, RequestOthers, ZenonT(30)
<1>6. \A d \in Clients : client'[d] \in Handlers
  BY <1>4, <1>5, Zenon
<1> QED BY <1>1, <1>2, <1>4, <1>5, <1>6, Zenon

LEMMA TypedRequest ==
  ASSUME Typed, NEW c \in Clients, NEW m \in Posts \cup Deletes, Request(c, m)
  PROVE  Typed'
<1> USE DEF Typed
<1>1. /\ client' \in [Clients -> Handlers] /\ client[c] = Idle
      /\ client'[c].req = m /\ client'[c].at = IF m.op = "Delete" THEN "send" ELSE "read"
      /\ \A d \in Clients : d # c => client'[d].at = client[d].at /\ client'[d].req = client[d].req
  BY RequestChanges
<1>2. ClientOK'
  BY <1>1, RequestFacts, Zenon DEF ClientOK
<1>3. client[c].at = "idle" /\ Waiting
  BY <1>1, IdleFacts, Zenon DEF Request, Waiting, watch
<1>4. sendq \in Seq(Senders) /\ \A j \in 1..Len(sendq) : sendq[j] # c
  BY <1>3, Zenon DEF QueueOK, TypeOK, Senders
<1>5. sendq' \in Seq(Senders) /\ QueueOK'
  <2>1. CASE m.op = "Delete"
    <3>1. sendq' = Append(sendq, c) /\ client'[c].at = "send" /\ c \in Senders
      BY <1>1, <2>1, Zenon DEF Request, Senders
    <3>2. c # "watcher" /\ c # "AfterInit"
      BY Zenon
    <3> QED BY <1>3, <1>4, <3>1, <3>2, QueueAppend, Zenon
  <2>2. CASE m.op # "Delete"
    BY <1>3, <1>4, <2>2, QueueSame, Zenon DEF Request
  <2> QED BY <2>1, <2>2, Zenon
<1> QED BY <1>2, <1>5, TypedOutside, Zenon DEF Request, store, watch, TypeOK

LEMMA TypedPost ==
  ASSUME Typed, NEW c \in Clients, ProcessPost(c)
  PROVE  Typed'
<1> USE DEF Typed
<1>1. client[c].at = "read" /\ client[c].req \in Posts
  BY Zenon DEF ProcessPost, ClientOK
<1>2. /\ client[c].req.name \in Names
      /\ client[c].req.spec \in Valid => client[c].req \in Messages
  BY <1>1, RequestFacts, Zenon
<1>3. sendq \in Seq(Senders) /\ \A j \in 1..Len(sendq) : sendq[j] # c
  BY <1>1, Zenon DEF QueueOK, TypeOK, Senders
<1>4. UNCHANGED <<cache, etcd, watching, events, watcher, boot, loop>>
  BY Zenon DEF ProcessPost, store, watch
<1>5. CASE (Goto(c, "reply", "shortcut") \/ Goto(c, "reply", "refused")) /\ UNCHANGED sendq
  <2>1. /\ client' \in [Clients -> Handlers] /\ client'[c].at = "reply"
        /\ client'[c].req = client[c].req
        /\ \A d \in Clients : d # c => client'[d] = client[d]
    BY <1>5, GotoFacts, Zenon
  <2>2. ClientOK'
    BY <1>2, <2>1, Zenon DEF ClientOK
  <2>3. QueueOK'
    BY <1>1, <1>4, <1>5, <2>1, QueueSame, Zenon DEF Waiting
  <2> QED BY <1>3, <1>4, <1>5, <2>2, <2>3, TypedOutside, Zenon DEF TypeOK
<1>6. CASE client[c].req.spec \in Valid /\ Goto(c, "send", "queued") /\ sendq' = Append(sendq, c)
  <2>1. /\ client' \in [Clients -> Handlers] /\ client'[c].at = "send"
        /\ client'[c].req = client[c].req
        /\ \A d \in Clients : d # c => client'[d] = client[d]
    BY <1>6, GotoFacts, Zenon
  <2>2. ClientOK'
    BY <1>2, <1>6, <2>1, Zenon DEF ClientOK
  <2>3. Waiting /\ c \in Senders /\ c # "watcher" /\ c # "AfterInit"
    BY <1>4, <2>1, Zenon DEF Waiting, Senders
  <2>4. sendq' \in Seq(Senders) /\ QueueOK'
    BY <1>3, <1>6, <2>1, <2>3, QueueAppend, Zenon
  <2> QED BY <1>4, <2>2, <2>4, TypedOutside, Zenon DEF TypeOK
<1> QED BY <1>5, <1>6, Zenon DEF ProcessPost

LEMMA TypedReply ==
  ASSUME Typed, NEW c \in Clients, Reply(c)
  PROVE  Typed'
<1> USE DEF Typed
<1>1. /\ client[c].at = "reply" /\ client' = [client EXCEPT ![c] = Idle]
      /\ UNCHANGED <<cache, etcd, watching, events, watcher, boot, sendq, loop>>
  BY Zenon DEF Reply, store, watch
<1>2. ClientOK'
  BY <1>1, IdleFacts, Zenon DEF ClientOK
<1>3. Waiting
  BY <1>1, Zenon DEF Waiting, ClientOK
<1>4. QueueOK'
  BY <1>1, <1>3, QueueSame, Zenon
<1> QED BY <1>1, <1>2, <1>4, TypedOutside, Zenon DEF TypeOK, Senders

LEMMA TypedWatch ==
  ASSUME Typed, Watch
  PROVE  Typed'
<1> USE DEF Typed
<1>1. /\ events # <<>> /\ watcher = None /\ events' = Tail(events)
      /\ UNCHANGED <<cache, etcd, watching, boot, client, loop>>
  BY Zenon DEF Watch, store
<1>2. Head(events) \in Messages /\ events' \in Seq(Messages)
  BY <1>1, TailFacts, Zenon DEF TypeOK
<1>3. sendq \in Seq(Senders) /\ \A j \in 1..Len(sendq) : sendq[j] # "watcher"
  BY <1>1, Zenon DEF QueueOK, TypeOK, Senders
<1>4. ClientOK' /\ (watcher' \in Messages \cup {None}) /\ Waiting
  BY <1>1, <1>2, Zenon DEF Watch, ClientOK, Waiting
<1>5. sendq' \in Seq(Senders) /\ QueueOK'
  <2>1. CASE watcher' = Head(events) /\ sendq' = Append(sendq, "watcher")
    <3>1. "watcher" \in Senders /\ "watcher" \notin Clients /\ "watcher" # "AfterInit"
      BY Zenon DEF Senders
    <3> QED BY <1>2, <1>3, <1>4, <2>1, <3>1, QueueAppend, Zenon
  <2>2. CASE UNCHANGED <<watcher, sendq>>
    BY <1>3, <1>4, <2>2, QueueSame, Zenon
  <2> QED BY <2>1, <2>2, Zenon DEF Watch
<1> QED BY <1>1, <1>2, <1>4, <1>5, TypedOutside, Zenon DEF TypeOK

-----------------------------------------------------------------------------
(* The loop.                                                               *)

\* A turn ends in a render of what the cache then holds, or in a receive.
LEMMA TurnEnds ==
  ASSUME NEW on, NEW p, p \in BOOLEAN, todo \subseteq Names, RenderIfPending(on, p)
  PROVE  /\ pc' \in {"render", "receive"} /\ pending' \in BOOLEAN /\ todo' \subseteq Names
         /\ pc' = "render" => \A n \in todo' : cache'[n] # None
BY Zenon DEF RenderIfPending

\* A step of the loop that takes nothing from the channel.
LEMMA TypedInside ==
  ASSUME Typed, cache' \in [Names -> Valid \cup {None}], etcd' \in [Names -> Valid \cup {None}],
         UNCHANGED <<watching, watcher, boot, client, sendq>>, events' \in Seq(Messages),
         pc' \in {"receive", "handle", "store", "render"},
         msg' \in Messages \cup {None} \cup System,
         enabled' \in BOOLEAN, pending' \in BOOLEAN, todo' \subseteq Names, LoopOK'
  PROVE  Typed'
<1>1. TypeOK'
  BY Zenon DEF Typed, TypeOK, System
<1>2. ClientOK'
  BY Zenon DEF Typed, ClientOK
<1>3. QueueOK'
  BY QueueSame, Zenon DEF Typed, Waiting
<1> QED BY <1>1, <1>2, <1>3, Zenon DEF Typed

LEMMA ReceiveChanges ==
  ASSUME Typed, Receive
  PROVE  /\ pc = "receive" /\ pc' = "handle" /\ Head(sendq) \in Senders
         /\ UNCHANGED <<cache, etcd, watching, events, enabled, pending, todo, last, missed>>
         /\ \/ /\ Head(sendq) = "watcher" /\ msg' = watcher /\ watcher' = None
               /\ watcher \in Messages /\ UNCHANGED <<boot, client>>
            \/ /\ Head(sendq) = "AfterInit" /\ msg' \in System /\ BootTyped(boot')
               /\ UNCHANGED <<watcher, client>>
            \/ \E c \in Clients :
                 /\ Head(sendq) = c /\ client[c].at = "send" /\ msg' = client[c].req
                 /\ msg' \in Messages /\ Goto(c, "reply", "queued") /\ UNCHANGED <<watcher, boot>>
<1> USE DEF Typed
<1>1. /\ Head(sendq) \in Senders /\ Head(sendq) = sendq[1] /\ 1 \in 1..Len(sendq)
  <2>1. sendq \in Seq(Senders) /\ sendq # <<>>
    BY Zenon DEF Receive, TypeOK, Senders
  <2> QED BY <2>1, TailFacts
<1>2. /\ Head(sendq) = "watcher" => watcher \in Messages
      /\ Head(sendq) = "AfterInit" => boot # <<>>
      /\ Head(sendq) \in Clients => client[Head(sendq)].at = "send"
  BY <1>1, Zenon DEF QueueOK
<1>3. CASE Head(sendq) = "AfterInit" /\ msg' = Head(boot) /\ boot' = Tail(boot)
  BY <1>1, <1>2, <1>3, BootFacts, Zenon DEF Receive, store, TypeOK, BootTyped
<1>4. CASE Head(sendq) = "watcher" /\ msg' = watcher /\ watcher' = None /\ UNCHANGED <<boot, client>>
  BY <1>1, <1>2, <1>4, Zenon DEF Receive, store
<1>5. CASE Head(sendq) \in Clients /\ msg' = client[Head(sendq)].req
           /\ Goto(Head(sendq), "reply", "queued") /\ UNCHANGED <<watcher, boot>>
  BY <1>1, <1>2, <1>5, Zenon DEF Receive, store, ClientOK
<1> QED BY <1>3, <1>4, <1>5, Zenon DEF Receive

LEMMA TypedReceive ==
  ASSUME Typed, Receive
  PROVE  Typed'
<1> USE DEF Typed
<1>1. /\ pc' = "handle" /\ UNCHANGED <<cache, etcd, watching, events, enabled, pending, todo>>
      /\ sendq # <<>> /\ sendq' = Tail(sendq)
  BY ReceiveChanges, Zenon DEF Receive
<1>2. CASE Head(sendq) = "watcher" /\ msg' = watcher /\ watcher' = None /\ watcher \in Messages
           /\ UNCHANGED <<boot, client>>
  <2>1. sendq' \in Seq(Senders) /\ QueueOK'
    BY <1>1, <1>2, QueueTail, Zenon DEF TypeOK, Senders
  <2>2. TypeOK' /\ ClientOK' /\ LoopOK'
    BY <1>1, <1>2, <2>1, Zenon DEF TypeOK, ClientOK, LoopOK, Senders
  <2> QED BY <2>1, <2>2, Zenon
<1>3. CASE Head(sendq) = "AfterInit" /\ msg' \in System /\ BootTyped(boot')
           /\ UNCHANGED <<watcher, client>>
  <2>1. sendq' \in Seq(Senders) /\ QueueOK'
    BY <1>1, <1>3, QueueTail, Zenon DEF TypeOK, Senders
  <2>2. TypeOK' /\ ClientOK' /\ LoopOK'
    BY <1>1, <1>3, <2>1, Zenon DEF TypeOK, ClientOK, LoopOK, Senders, BootTyped, System
  <2> QED BY <2>1, <2>2, Zenon
<1>4. ASSUME NEW c \in Clients, Head(sendq) = c, client[c].at = "send", msg' = client[c].req,
             msg' \in Messages, Goto(c, "reply", "queued"), UNCHANGED <<watcher, boot>>
      PROVE  Typed'
  <2>1. /\ client' \in [Clients -> Handlers] /\ client'[c].at = "reply"
        /\ client'[c].req = client[c].req
        /\ \A d \in Clients : d # c => client'[d] = client[d]
    BY <1>4, GotoFacts, Zenon
  <2>2. sendq' \in Seq(Senders) /\ QueueOK'
    BY <1>1, <1>4, <2>1, QueueTail, Zenon DEF TypeOK, Senders
  <2>3. ClientOK'
    BY <1>4, <2>1, MessageFacts, Zenon DEF ClientOK
  <2>4. \A d \in Clients : client'[d].at \in {"idle", "read", "send", "reply"}
    BY <2>1, Zenon DEF Handlers
  <2>5. TypeOK' /\ LoopOK'
    BY <1>1, <1>4, <2>2, <2>4, Zenon DEF TypeOK, LoopOK, Senders
  <2> QED BY <2>2, <2>3, <2>5, Zenon
<1> QED BY <1>2, <1>3, <1>4, ReceiveChanges, Zenon

LEMMA TypedHandle ==
  ASSUME Typed, HandleSystem \/ HandleCU \/ HandleD \/ HandleDMissing
  PROVE  Typed'
<1> USE DEF Typed
<1>1. /\ pc = "handle" /\ msg \in Messages \cup System
      /\ UNCHANGED <<etcd, watching, watcher, events, boot, client, sendq>>
  BY Zenon DEF HandleSystem, HandleCU, HandleD, HandleDMissing, LoopOK, store, watch
<1>2. CASE HandleSystem
  <2>1. PICK p \in BOOLEAN : RenderIfPending(enabled', p)
    BY <1>2, Zenon DEF HandleSystem
  <2>2. /\ pc' \in {"render", "receive"} /\ pending' \in BOOLEAN /\ todo' \subseteq Names
        /\ pc' = "render" => \A n \in todo' : cache'[n] # None
    <3>1. todo \subseteq Names
      BY Zenon DEF TypeOK
    <3> QED BY <2>1, <3>1, TurnEnds, Zenon
  <2>3. enabled' \in BOOLEAN /\ UNCHANGED cache /\ msg' = None
    BY <1>2, Zenon DEF HandleSystem, store
  <2>4. LoopOK'
    BY <2>2, Zenon DEF LoopOK
  <2> QED BY <1>1, <2>2, <2>3, <2>4, TypedInside, Zenon DEF TypeOK
<1>3. CASE HandleDMissing
  <2>1. /\ pc' \in {"render", "receive"} /\ pending' \in BOOLEAN /\ todo' \subseteq Names
        /\ pc' = "render" => \A n \in todo' : cache'[n] # None
    BY <1>3, TurnEnds, Zenon DEF HandleDMissing, TypeOK
  <2>2. UNCHANGED <<enabled, cache>> /\ msg' = None
    BY <1>3, Zenon DEF HandleDMissing, store
  <2>3. LoopOK'
    BY <2>1, Zenon DEF LoopOK
  <2> QED BY <1>1, <2>1, <2>2, <2>3, TypedInside, Zenon DEF TypeOK
<1>4. CASE HandleCU \/ HandleD
  <2>1. /\ pc' = "store" /\ UNCHANGED <<msg, enabled, pending, todo>> /\ msg \in Messages
        /\ cache' = [cache EXCEPT ![msg.name] = msg.spec]
    BY <1>1, <1>4, MessageFacts, SystemFacts, Zenon DEF HandleCU, HandleD
  <2>2. /\ cache' \in [Names -> Valid \cup {None}] /\ LoopOK'
    BY <2>1, MessageFacts, Zenon DEF TypeOK, LoopOK
  <2> QED BY <1>1, <2>1, <2>2, TypedInside, Zenon DEF TypeOK
<1> QED BY <1>2, <1>3, <1>4, Zenon

LEMMA TypedStore ==
  ASSUME Typed, Store
  PROVE  Typed'
<1> USE DEF Typed
<1>1. msg \in Messages /\ UNCHANGED <<cache, watching, watcher, boot, client, sendq, enabled>>
  BY Zenon DEF Store, LoopOK
<1>2. etcd' \in [Names -> Valid \cup {None}] /\ msg' = None
  BY <1>1, MessageFacts, Zenon DEF Store, TypeOK
<1>3. events' \in Seq(Messages)
  BY <1>1, NotifyType, Zenon DEF Store, TypeOK
<1>4. /\ pc' \in {"render", "receive"} /\ pending' \in BOOLEAN /\ todo' \subseteq Names
      /\ pc' = "render" => \A n \in todo' : cache'[n] # None
  BY TurnEnds, Zenon DEF Store, TypeOK
<1>5. LoopOK'
  BY <1>4, Zenon DEF LoopOK
<1> QED BY <1>1, <1>2, <1>3, <1>4, <1>5, TypedInside, Zenon DEF TypeOK

LEMMA EntityValid ==
  ASSUME Typed, NEW n \in Names, RenderEntity(n)
  PROVE  cache[n] \in Valid
<1>1. cache[n] \in Valid \cup {None}
  BY Zenon DEF Typed, TypeOK
<1>2. cache[n] # None
  BY Zenon DEF Typed, LoopOK, RenderEntity
<1> QED BY <1>1, <1>2, Zenon

LEMMA TypedRender ==
  ASSUME Typed, RenderEnd \/ \E n \in Names : RenderEntity(n)
  PROVE  Typed'
<1> USE DEF Typed
<1>1. CASE RenderEnd
  <2>1. LoopOK'
    BY <1>1, Zenon DEF RenderEnd, LoopOK
  <2> QED BY <1>1, <2>1, TypedInside, Zenon DEF RenderEnd, store, watch, TypeOK, System
<1>2. ASSUME NEW n \in Names, RenderEntity(n) PROVE Typed'
  <2>1. cache[n] \in Valid
    BY <1>2, EntityValid, Zenon
  <2>2. CU(n, cache[n]) \in Messages
    BY <2>1 DEF Messages
  <2>3. events' \in Seq(Messages)
    BY <1>2, <2>2, NotifyType, Zenon DEF RenderEntity
  <2>4. etcd' \in [Names -> Valid \cup {None}] /\ todo' \subseteq Names
    BY <1>2, <2>1, Zenon DEF RenderEntity, TypeOK
  <2>5. LoopOK'
    BY <1>2, Zenon DEF RenderEntity, LoopOK
  <2> QED BY <1>2, <2>3, <2>4, <2>5, TypedInside, Zenon DEF RenderEntity, TypeOK, System
<1> QED BY <1>1, <1>2, Zenon

LEMMA TypedStep == Typed /\ [Next]_vars => Typed'
<1> SUFFICES ASSUME Typed, [Next]_vars PROVE Typed'
  BY Zenon
<1>1. CASE UNCHANGED vars
  <2>1. UNCHANGED <<cache, etcd, watching, events, watcher, boot, client, sendq, loop>>
    BY <1>1, Zenon DEF vars, store, watch
  <2>2. ClientOK' /\ QueueOK'
    BY <2>1, QueueSame, Zenon DEF Typed, ClientOK, Waiting
  <2> QED BY <2>1, <2>2, TypedOutside, Zenon DEF Typed, TypeOK, Senders
<1>2. ASSUME NEW c \in Clients, NEW n \in Names,
             Request(c, D(n)) \/ \E s \in Specs : Request(c, CU(n, s))
      PROVE  Typed'
  BY <1>2, TypedRequest DEF Posts, Deletes
<1> QED BY <1>1, <1>2, TypedProcess, TypedExternal, TypedPost, TypedReply, TypedWatch,
           TypedReceive, TypedHandle, TypedStore, TypedRender, Zenon DEF Next, LoopStep, Handler

-----------------------------------------------------------------------------
(* Reported deletions.                                                     *)

LEMMA NotifyEvents ==
  ASSUME TypeOK, NEW m \in Messages, Notify(m), NEW n \in Names
  PROVE  /\ InEvents(n) => InEvents(n)'
         /\ InEvents(n)' => InEvents(n) \/ m = D(n)
         /\ watching /\ m = D(n) => InEvents(n)'
<1>1. CASE ~watching
  BY <1>1, Zenon DEF Notify, InEvents
<1>2. CASE watching
  <2> DEFINE L == Len(events)
  <2>1. /\ L \in Nat /\ Len(events') = L + 1 /\ events'[L + 1] = m
        /\ \A j \in 1..L : events'[j] = events[j]
    <3>1. events \in Seq(Messages) /\ events' = Append(events, m)
      BY <1>2, Zenon DEF Notify, TypeOK
    <3> QED BY <3>1, AppendFacts
  <2>2. InEvents(n)' <=> \E j \in 1..L + 1 : events'[j] = D(n)
    BY <2>1, Zenon DEF InEvents, D
  <2>3. InEvents(n) <=> \E j \in 1..L : events[j] = D(n)
    BY Zenon DEF InEvents
  <2> HIDE DEF L
  <2>4. \A j \in 1..L : j \in 1..L + 1
    BY <2>1
  <2>5. L + 1 \in 1..L + 1 /\ \A j \in 1..L + 1 : j \in 1..L \/ j = L + 1
    BY <2>1
  <2>6. InEvents(n) => InEvents(n)'
    BY <2>1, <2>2, <2>3, <2>4, Zenon
  <2>7. InEvents(n)' => InEvents(n) \/ m = D(n)
    BY <2>1, <2>2, <2>3, <2>5, Zenon
  <2>8. m = D(n) => InEvents(n)'
    BY <2>1, <2>2, <2>5, Zenon
  <2> QED BY <2>6, <2>7, <2>8, Zenon
<1> QED BY <1>1, <1>2, Zenon DEF TypeOK

LEMMA SameEvents ==
  ASSUME UNCHANGED events, NEW n
  PROVE  InEvents(n)' <=> InEvents(n)
BY Zenon DEF InEvents, D

LEMMA WatchReports ==
  ASSUME Typed, Watch, NEW n \in Names
  PROVE  Reported(n)' <=> Reported(n)
<1> USE DEF Typed
<1>1. /\ events # <<>> /\ watcher = None /\ events' = Tail(events) /\ D(n) \in Messages
  BY DEF Watch, Messages
<1>2. watcher # D(n)
  BY <1>1, Zenon
<1> DEFINE L == Len(events)
<1>3. /\ L \in Nat \ {0} /\ Len(events') = L - 1 /\ Head(events) = events[1]
      /\ Head(events) \in Messages
      /\ \A j \in 1..L - 1 : events'[j] = events[j + 1]
  BY <1>1, TailFacts DEF TypeOK
<1>4. /\ InEvents(n)' <=> \E j \in 1..L - 1 : events'[j] = D(n)
      /\ InEvents(n) <=> \E j \in 1..L : events[j] = D(n)
  BY <1>3, Zenon DEF InEvents, D
<1> HIDE DEF L
<1>5. InEvents(n)' => InEvents(n)
  BY <1>3, <1>4
<1>6. InEvents(n) => InEvents(n)' \/ Head(events) = D(n)
  <2> SUFFICES ASSUME NEW j \in 1..L, events[j] = D(n), Head(events) # D(n)
               PROVE  \E i \in 1..L - 1 : events'[i] = D(n)
    BY <1>4, Zenon
  <2>1. j - 1 \in 1..L - 1 /\ events'[j - 1] = events[j]
    BY <1>3
  <2> QED BY <2>1, Zenon
<1>7. Head(events) = D(n) => InEvents(n)
  BY <1>3, <1>4
<1>8. D(n).op = "Delete"
  BY Zenon DEF D
<1>9. CASE Head(events).op = "Delete" /\ watcher' = Head(events)
  BY <1>2, <1>5, <1>6, <1>7, <1>9, Zenon DEF Reported, D
<1>10. CASE Head(events).op # "Delete" /\ UNCHANGED watcher
  BY <1>2, <1>5, <1>6, <1>8, <1>10, Zenon DEF Reported, D
<1> QED BY <1>9, <1>10, Zenon DEF Watch

LEMMA ReceiveReports ==
  ASSUME Typed, Receive, NEW n \in Names
  PROVE  /\ Reported(n)' => Reported(n)
         /\ Reported(n) => Reported(n)' \/ msg' = D(n)
<1>1. UNCHANGED events /\ (UNCHANGED watcher \/ (watcher' = None /\ msg' = watcher))
  BY ReceiveChanges, Zenon
<1>2. D(n) # None
  BY DEF Messages
<1> QED BY <1>1, <1>2, SameEvents, Zenon DEF Reported, D

-----------------------------------------------------------------------------
(* Cache and etcd.                                                         *)

LEMMA DifferencesInit == Init => Differences
BY Zenon DEF Init, Differences

LEMMA DifferencesSame ==
  ASSUME Differences, UNCHANGED <<cache, etcd>>, missed => missed',
         UNCHANGED <<pc, msg>> \/ pc \notin {"down", "handle", "store"},
         \A n \in Names : Reported(n) => Reported(n)' \/ (pc' = "handle" /\ msg' = D(n))
  PROVE  Differences'
BY Zenon DEF Differences, D

LEMMA DifferencesExternal ==
  ASSUME Typed, Differences, NEW n \in Names, ExternalDelete(n)
  PROVE  Differences'
<1>1. /\ UNCHANGED <<cache, watcher, pc, msg>> /\ D(n) \in Messages /\ Notify(D(n))
      /\ missed' = (missed \/ (pc # "down" /\ ~watching))
  BY DEF ExternalDelete, loop, Messages
<1>2. etcd'[n] = None /\ \A x \in Names : x # n => etcd'[x] = etcd[x]
  BY Zenon DEF ExternalDelete, Typed, TypeOK
<1>3. \A x \in Names : Reported(x) => Reported(x)'
  BY <1>1, NotifyEvents, Zenon DEF Typed, Reported, D
<1>4. pc # "down" => missed' \/ Reported(n)'
  BY <1>1, NotifyEvents, Zenon DEF Typed, TypeOK, Reported
<1>5. missed => missed'
  BY <1>1, Zenon
<1> SUFFICES ASSUME pc # "down", NEW x \in Names, cache[x] # etcd'[x]
             PROVE  \/ pc = "store" /\ msg.name = x
                    \/ etcd'[x] = None /\ (missed' \/ Reported(x)' \/ (pc = "handle" /\ msg = D(x)))
  BY <1>1, Zenon DEF Differences, D
<1>6. CASE x = n
  BY <1>2, <1>4, <1>6, Zenon
<1>7. CASE x # n
  BY <1>2, <1>3, <1>5, <1>7, Zenon DEF Differences
<1> QED BY <1>6, <1>7, Zenon

LEMMA DifferencesLoop ==
  ASSUME Typed, Differences, LoopStep
  PROVE  Differences'
<1> USE DEF Typed
<1>1. CASE Receive
  <2>1. pc = "receive" /\ pc' = "handle" /\ UNCHANGED <<cache, etcd, missed>>
    BY <1>1, ReceiveChanges, Zenon
  <2>2. \A n \in Names : Reported(n) => Reported(n)' \/ msg' = D(n)
    BY <1>1, ReceiveReports, Zenon
  <2> QED BY <2>1, <2>2, DifferencesSame, Zenon
<1>2. CASE HandleSystem
  <2>1. /\ UNCHANGED <<cache, etcd, events, watcher, missed>> /\ pc = "handle" /\ msg \in System
        /\ pc' \in {"render", "receive"}
    BY <1>2, MessageFacts, Zenon DEF HandleSystem, store, watch, RenderIfPending, LoopOK
  <2>2. \A n \in Names : msg.name # n /\ msg # D(n)
    BY <2>1, SystemFacts, DeleteFacts, Zenon
  <2>3. \A n \in Names : Reported(n) => Reported(n)'
    BY <2>1, SameEvents, Zenon DEF Reported, D
  <2> QED BY <2>1, <2>2, <2>3, Zenon DEF Differences
<1>3. CASE HandleDMissing
  <2>1. /\ UNCHANGED <<cache, etcd, events, watcher, missed>> /\ pc = "handle"
        /\ cache[msg.name] = None /\ pc' \in {"render", "receive"}
    BY <1>3, Zenon DEF HandleDMissing, store, watch, RenderIfPending
  <2>2. \A n \in Names : Reported(n) => Reported(n)'
    BY <2>1, SameEvents, Zenon DEF Reported, D
  <2>3. \A n \in Names : msg = D(n) => cache[n] = None
    BY <2>1, DeleteFacts, Zenon
  <2> QED BY <2>1, <2>2, <2>3, Zenon DEF Differences
<1>4. CASE HandleCU \/ HandleD
  <2>1. /\ UNCHANGED <<etcd, events, watcher, missed, msg>> /\ pc = "handle" /\ pc' = "store"
        /\ msg \in Messages /\ cache' = [cache EXCEPT ![msg.name] = msg.spec]
    BY <1>4, MessageFacts, SystemFacts, Zenon DEF HandleCU, HandleD, watch, LoopOK
  <2>2. \A n \in Names : n # msg.name => cache'[n] = cache[n]
    BY <2>1, Zenon DEF TypeOK
  <2>3. \A n \in Names : Reported(n) => Reported(n)'
    BY <2>1, SameEvents, Zenon DEF Reported, D
  <2>4. \A n \in Names : msg = D(n) => msg.name = n
    BY DEF D
  <2> QED BY <2>1, <2>2, <2>3, <2>4, Zenon DEF Differences
<1>5. CASE Store
  <2>1. /\ UNCHANGED <<cache, watcher, missed>> /\ pc = "store" /\ pc' \in {"render", "receive"}
        /\ msg \in Messages /\ cache[msg.name] = msg.spec /\ msg.name \in Names
        /\ etcd' = [etcd EXCEPT ![msg.name] = msg.spec]
    BY <1>5, MessageFacts, Zenon DEF Store, RenderIfPending, LoopOK
  <2>2. etcd'[msg.name] = cache[msg.name] /\ \A n \in Names : n # msg.name => etcd'[n] = etcd[n]
    BY <2>1, Zenon DEF TypeOK
  <2>3. \A n \in Names : Reported(n) => Reported(n)'
    BY <1>5, <2>1, SameEvents, NotifyEvents, Zenon DEF Store, Reported, D
  <2> QED BY <2>1, <2>2, <2>3, Zenon DEF Differences
<1>6. CASE RenderEnd
  <2>1. \A n \in Names : Reported(n) => Reported(n)'
    BY <1>6, SameEvents, Zenon DEF RenderEnd, watch, Reported, D
  <2> QED BY <1>6, <2>1, DifferencesSame, Zenon DEF RenderEnd, store
<1>7. ASSUME NEW n \in Names, RenderEntity(n) PROVE Differences'
  <2>1. /\ UNCHANGED <<cache, watcher, missed, pc, msg>> /\ pc = "render"
        /\ etcd'[n] = cache[n] /\ \A x \in Names : x # n => etcd'[x] = etcd[x]
    BY <1>7, Zenon DEF RenderEntity, TypeOK
  <2>2. CU(n, cache[n]) \in Messages
    BY <1>7, EntityValid, CreateFacts, Zenon
  <2>3. \A x \in Names : Reported(x) => Reported(x)'
    BY <1>7, <2>1, <2>2, NotifyEvents, Zenon DEF RenderEntity, Reported, D
  <2> QED BY <2>1, <2>3, Zenon DEF Differences
<1> QED BY <1>1, <1>2, <1>3, <1>4, <1>5, <1>6, <1>7, Zenon DEF LoopStep

LEMMA DifferencesStep == Typed /\ Differences /\ [Next]_vars => Differences'
<1> SUFFICES ASSUME Typed, Differences, [Next]_vars PROVE Differences'
  BY Zenon
<1>1. ASSUME UNCHANGED <<cache, etcd, events, watcher, pc, msg, missed>> PROVE Differences'
  <2>1. \A n \in Names : Reported(n) => Reported(n)'
    BY <1>1, SameEvents, Zenon DEF Reported, D
  <2> QED BY <1>1, <2>1, DifferencesSame, Zenon
<1>2. CASE UNCHANGED vars \/ BootSend \/ InitWatcher
  BY <1>1, <1>2, Zenon DEF vars, store, watch, loop, BootSend, InitWatcher
<1>3. ASSUME NEW c \in Clients, Handler(c) PROVE Differences'
  BY <1>1, <1>3, Zenon DEF Handler, ProcessPost, Reply, store, watch, loop
<1>4. ASSUME NEW c \in Clients, NEW m, Request(c, m) PROVE Differences'
  BY <1>1, <1>4, Zenon DEF Request, store, watch, loop
<1>5. CASE Start \/ Crash
  BY <1>5, Zenon DEF Start, Crash, Differences
<1>6. CASE AfterInit
  <2>1. \A n \in Names : Reported(n) => Reported(n)'
    BY <1>6, SameEvents, Zenon DEF AfterInit, watch, Reported, D
  <2> QED BY <1>6, <2>1, DifferencesSame, Zenon DEF AfterInit, store
<1>7. CASE Watch
  BY <1>7, WatchReports, DifferencesSame, Zenon DEF Watch, store, loop
<1> QED BY <1>2, <1>3, <1>4, <1>5, <1>6, <1>7, DifferencesExternal, DifferencesLoop, Zenon DEF Next

-----------------------------------------------------------------------------
(* What a calm request left.                                               *)

\* A configuration that no reported deletion threatens stays, and nothing about
\* n gets under way by itself.
Kept(n) ==
  /\ Effective(n) = None \/ ~Reported(n) =>
       Effective(n)' = Effective(n) /\ (Reported(n)' => Effective(n) = None)
  /\ Still(n) => Still(n)'

LEMMA KeptSame ==
  ASSUME NEW n \in Names, UNCHANGED cache, Reported(n)' => Reported(n),
         UNCHANGED <<pc, msg>> \/ pc \notin {"handle", "store"},
         UNCHANGED <<pc, msg>> \/ pc' \notin {"handle", "store"} \/ msg'.name # n
  PROVE  Kept(n)
BY Zenon DEF Kept, Effective, Still

LEMMA WatcherStep == Typed /\ WatcherOK /\ [Next]_vars => WatcherOK'
<1> SUFFICES ASSUME Typed, WatcherOK, [Next]_vars PROVE WatcherOK'
  BY Zenon
<1> USE DEF Typed, WatcherOK
<1>1. CASE Watch
  <2>1. Head(events) \in Messages
    BY <1>1, TailFacts, Zenon DEF Watch, TypeOK
  <2>2. Head(events).op = "Delete" => Head(events) \in Deletes
    BY <2>1, MessageFacts, Zenon DEF Deletes
  <2> QED BY <1>1, <2>2, Zenon DEF Watch, Deletes, D
<1>2. CASE Receive
  BY <1>2, ReceiveChanges, Zenon DEF Deletes, D
<1>3. CASE watcher' \in {watcher, None}
  BY <1>3, Zenon DEF Deletes, D
<1>4. ASSUME NEW c \in Clients, Handler(c) PROVE watcher' = watcher
  BY <1>4, Zenon DEF Handler, ProcessPost, Reply, watch
<1>5. ASSUME NEW c \in Clients, NEW m, Request(c, m) PROVE watcher' = watcher
  BY <1>5, Zenon DEF Request, watch
<1>6. ASSUME NEW n \in Names, ExternalDelete(n) \/ RenderEntity(n) PROVE watcher' = watcher
  BY <1>6, Zenon DEF ExternalDelete, RenderEntity
<1>7. CASE UNCHANGED vars \/ BootSend \/ InitWatcher \/ AfterInit \/ Start \/ Crash
  BY <1>3, <1>7, Zenon DEF vars, watch, BootSend, InitWatcher, AfterInit, Start, Crash
<1>8. CASE HandleSystem \/ HandleCU \/ HandleD \/ HandleDMissing \/ Store \/ RenderEnd
  BY <1>3, <1>8, Zenon DEF HandleSystem, HandleCU, HandleD, HandleDMissing, Store, RenderEnd, watch
<1> QED BY <1>1, <1>2, <1>3, <1>4, <1>5, <1>6, <1>7, <1>8, Zenon DEF Next, LoopStep

LEMMA KeptReceive ==
  ASSUME Typed, WatcherOK, Receive, NEW n \in Names, msg'.name = n => UNCHANGED client
  PROVE  Kept(n)
<1> USE DEF Typed
<1>1. /\ pc = "receive" /\ pc' = "handle" /\ UNCHANGED cache /\ (Reported(n)' => Reported(n))
  BY ReceiveChanges, ReceiveReports, Zenon
<1>2. CASE msg'.name # n
  BY <1>1, <1>2, KeptSame, Zenon
<1>3. CASE msg'.name = n
  <2>1. \A c \in Clients : client[c].at = "send" /\ Goto(c, "reply", "queued") => client' # client
    BY GotoFacts, Zenon
  <2>2. msg' \notin System
    BY <1>3, SystemFacts, Zenon
  <2>3. watcher \in Messages /\ msg' = watcher
    BY <1>3, <2>1, <2>2, ReceiveChanges, Zenon
  <2>4. watcher = D(n) /\ msg'.spec = None
    <3>1. watcher \in Deletes
      BY <2>3, Zenon DEF WatcherOK
    <3>2. PICK x \in Names : watcher = D(x)
      BY <3>1, Zenon DEF Deletes
    <3> QED BY <1>3, <2>3, <3>2, DeleteFacts, Zenon
  <2>5. Reported(n) /\ ~Still(n) /\ Effective(n) = cache[n] /\ Effective(n)' = None
    BY <1>1, <1>3, <2>4, Zenon DEF Reported, Still, Effective
  <2> QED BY <2>5, Zenon DEF Kept
<1> QED BY <1>2, <1>3, Zenon

LEMMA KeptInside ==
  ASSUME Typed, NEW n \in Names,
         \/ HandleSystem \/ HandleCU \/ HandleD \/ HandleDMissing \/ Store \/ RenderEnd
         \/ \E x \in Names : RenderEntity(x)
  PROVE  Kept(n)
<1> USE DEF Typed
<1>1. CASE HandleSystem
  <2>1. /\ UNCHANGED <<cache, events, watcher>> /\ pc = "handle" /\ msg.name # n
        /\ pc' \in {"render", "receive"}
    BY <1>1, MessageFacts, SystemFacts, Zenon DEF HandleSystem, store, watch, RenderIfPending, LoopOK
  <2>2. Reported(n)' <=> Reported(n)
    BY <2>1, SameEvents, Zenon DEF Reported, D
  <2> QED BY <2>1, <2>2, Zenon DEF Kept, Effective, Still
<1>2. CASE HandleDMissing
  <2>1. /\ UNCHANGED <<cache, events, watcher>> /\ pc = "handle" /\ msg \in Messages
        /\ msg.op = "Delete" /\ cache[msg.name] = None /\ pc' \in {"render", "receive"}
    BY <1>2, SystemFacts, Zenon DEF HandleDMissing, store, watch, RenderIfPending, LoopOK
  <2>2. Reported(n)' <=> Reported(n)
    BY <2>1, SameEvents, Zenon DEF Reported, D
  <2>3. msg.spec = None
    BY <2>1, MessageFacts, Zenon
  <2> QED BY <2>1, <2>2, <2>3, Zenon DEF Kept, Effective, Still
<1>3. CASE HandleCU \/ HandleD
  <2>1. /\ UNCHANGED <<events, watcher, msg>> /\ pc = "handle" /\ pc' = "store"
        /\ msg \in Messages /\ cache' = [cache EXCEPT ![msg.name] = msg.spec]
    BY <1>3, MessageFacts, SystemFacts, Zenon DEF HandleCU, HandleD, watch, LoopOK
  <2>2. cache'[n] = IF msg.name = n THEN msg.spec ELSE cache[n]
    BY <2>1, MessageFacts, Zenon DEF TypeOK
  <2>3. Reported(n)' <=> Reported(n)
    BY <2>1, SameEvents, Zenon DEF Reported, D
  <2> QED BY <2>1, <2>2, <2>3, Zenon DEF Kept, Effective, Still
<1>4. CASE Store
  <2>1. /\ UNCHANGED <<cache, watcher>> /\ pc = "store" /\ pc' \in {"render", "receive"}
        /\ msg \in Messages /\ cache[msg.name] = msg.spec
    BY <1>4, Zenon DEF Store, RenderIfPending, LoopOK
  <2>2. Reported(n)' => Reported(n) \/ msg = D(n)
    BY <1>4, <2>1, SameEvents, NotifyEvents, Zenon DEF Store, Reported, D
  <2>3. msg = D(n) => msg.name = n /\ msg.spec = None
    BY DEF D
  <2> QED BY <2>1, <2>2, <2>3, Zenon DEF Kept, Effective, Still
<1>5. CASE RenderEnd
  <2>1. Reported(n)' <=> Reported(n)
    BY <1>5, SameEvents, Zenon DEF RenderEnd, watch, Reported, D
  <2> QED BY <1>5, <2>1, KeptSame, Zenon DEF RenderEnd, store
<1>6. ASSUME NEW x \in Names, RenderEntity(x) PROVE Kept(n)
  <2>1. CU(x, cache[x]) \in Messages /\ CU(x, cache[x]) # D(n)
    <3>1. CU(x, cache[x]) \in Messages /\ CU(x, cache[x]).op = "CreateUpdate"
      BY <1>6, EntityValid, CreateFacts, Zenon
    <3> QED BY <3>1, DeleteFacts, Zenon
  <2>2. Reported(n)' => Reported(n)
    BY <1>6, <2>1, NotifyEvents, Zenon DEF RenderEntity, Reported, D
  <2> QED BY <1>6, <2>2, KeptSame, Zenon DEF RenderEntity
<1> QED BY <1>1, <1>2, <1>3, <1>4, <1>5, <1>6, Zenon

\* Steps outside the loop.
LEMMA KeptOutside ==
  ASSUME Typed, NEW n \in Names,
         \/ UNCHANGED vars \/ AfterInit \/ BootSend \/ InitWatcher \/ Watch
         \/ \E c \in Clients : Handler(c) \/ \E m \in Posts \cup Deletes : Request(c, m)
         \/ \E x \in Names : x # n /\ ExternalDelete(x)
  PROVE  Kept(n)
<1>1. ASSUME UNCHANGED <<cache, events, watcher, pc, msg>> PROVE Kept(n)
  BY <1>1, SameEvents, KeptSame, Zenon DEF Reported, D
<1>2. CASE UNCHANGED vars \/ BootSend \/ InitWatcher
  BY <1>1, <1>2, Zenon DEF vars, store, watch, loop, BootSend, InitWatcher
<1>3. ASSUME NEW c \in Clients, Handler(c) PROVE Kept(n)
  BY <1>1, <1>3, Zenon DEF Handler, ProcessPost, Reply, store, watch, loop
<1>4. ASSUME NEW c \in Clients, NEW m, Request(c, m) PROVE Kept(n)
  BY <1>1, <1>4, Zenon DEF Request, store, watch, loop
<1>5. CASE AfterInit
  BY <1>5, SameEvents, KeptSame, Zenon DEF AfterInit, store, watch, Reported, D
<1>6. CASE Watch
  BY <1>6, WatchReports, KeptSame, Zenon DEF Watch, store, loop
<1>7. ASSUME NEW x \in Names, x # n, ExternalDelete(x) PROVE Kept(n)
  <2>1. D(x) \in Messages /\ D(x) # D(n)
    BY <1>7, DeleteFacts, Zenon
  <2>2. Reported(n)' => Reported(n)
    BY <1>7, <2>1, NotifyEvents, Zenon DEF ExternalDelete, Reported, D, Typed
  <2> QED BY <1>7, <2>2, KeptSame, Zenon DEF ExternalDelete, loop
<1> QED BY <1>2, <1>3, <1>4, <1>5, <1>6, <1>7, Zenon

LEMMA ClientNames ==
  ASSUME Typed, NEW c \in Clients, client[c].at # "idle"
  PROVE  client[c].req.name \in Names
<1>1. client[c].at \in {"read", "send", "reply"}
  BY Zenon DEF Typed, TypeOK
<1>2. /\ client[c].at = "read" => client[c].req \in Posts
      /\ client[c].at = "send" => client[c].req \in Messages
      /\ client[c].at = "reply" => client[c].req.name \in Names
  BY Zenon DEF Typed, ClientOK
<1> QED BY <1>1, <1>2, MessageFacts, RequestFacts, Zenon

LEMMA HoldsKept ==
  ASSUME NEW n, NEW s, Kept(n), Holds(n, s)
  PROVE  Holds(n, s)'
BY Zenon DEF Kept, Holds

\* The two conjuncts of CalmOK after a step, for an entity n and a spec s.
LEMMA CalmClientNext ==
  ASSUME NEW c \in Clients, NEW n, NEW s,
         client'[c].req.name = n, client'[c].req.spec = s,
         client'[c].calm /\ client'[c].at # "idle" =>
           /\ \A d \in Clients : d # c => client'[d].req.name # n
           /\ client'[c].at \in {"read", "send"} => Still(n)'
           /\ client'[c].at = "reply" /\ client'[c].how # "refused" => Holds(n, s)'
  PROVE  CalmClient(c)'
BY Zenon DEF CalmClient, Still, Holds, Effective, Reported, InEvents, D

LEMMA CalmLastNext ==
  ASSUME NEW n \in Names, NEW s, last'[n].spec = s,
         last'[n].calm => Superseded(n)' \/ Holds(n, s)'
  PROVE  CalmLast(n)'
BY Zenon DEF CalmLast, Holds, Effective, Reported, InEvents, D

\* A client whose handler the step leaves where it is, while no other handler
\* turns to its entity.
LEMMA CalmClientKept ==
  ASSUME Typed, NEW c \in Clients, CalmClient(c),
         client'[c].at = client[c].at, client'[c].req = client[c].req,
         client'[c].how = client[c].how, client'[c].calm => client[c].calm,
         client'[c].calm /\ client[c].at # "idle" =>
           /\ Kept(client[c].req.name)
           /\ \A d \in Clients : d # c =>
                \/ client'[d].req.name = client[d].req.name
                \/ client'[d].req.name # client[c].req.name
  PROVE  CalmClient(c)'
<1>1. PICK n, s : n = client[c].req.name /\ s = client[c].req.spec
  BY Zenon
<1> SUFFICES ASSUME client'[c].calm, client[c].at # "idle"
             PROVE  /\ \A d \in Clients : d # c => client'[d].req.name # n
                    /\ client[c].at \in {"read", "send"} => Still(n)'
                    /\ client[c].at = "reply" /\ client[c].how # "refused" => Holds(n, s)'
  BY <1>1, CalmClientNext, Zenon
<1>2. Kept(n)
  BY <1>1, Zenon
<1>3. /\ \A d \in Clients : d # c => client[d].req.name # n
      /\ client[c].at \in {"read", "send"} => Still(n)
      /\ client[c].at = "reply" /\ client[c].how # "refused" => Holds(n, s)
  BY <1>1, Zenon DEF CalmClient
<1>4. \A d \in Clients : d # c => client'[d].req.name # n
  BY <1>1, <1>3, Zenon
<1>5. Still(n) => Still(n)'
  BY <1>2, Zenon DEF Kept
<1> QED BY <1>2, <1>3, <1>4, <1>5, HoldsKept, Zenon

LEMMA CalmLastKept ==
  ASSUME NEW n \in Names, CalmLast(n), Kept(n), last'[n] = last[n],
         last[n].calm /\ Superseded(n) => Superseded(n)'
  PROVE  CalmLast(n)'
<1>1. PICK s : s = last[n].spec
  BY Zenon
<1>2. last[n].calm => Superseded(n) \/ Holds(n, s)
  BY <1>1, Zenon DEF CalmLast
<1> QED BY <1>1, <1>2, HoldsKept, CalmLastNext, Zenon

LEMMA CalmSame ==
  ASSUME Typed, CalmOK, UNCHANGED <<client, last>>, pc' = pc \/ pc' # "down",
         \A n \in Names : Kept(n)
  PROVE  CalmOK'
<1>1. \A c \in Clients : CalmClient(c)'
  BY CalmClientKept, ClientNames, Zenon DEF CalmOK
<1>2. \A n \in Names : Superseded(n)' <=> Superseded(n)
  BY Zenon DEF Superseded
<1>3. \A n \in Names : CalmLast(n)'
  BY <1>2, CalmLastKept, Zenon DEF CalmOK
<1> QED BY <1>1, <1>3, Zenon DEF CalmOK

LEMMA CalmExternal ==
  ASSUME Typed, CalmOK, NEW n \in Names, ExternalDelete(n)
  PROVE  CalmOK'
<1>1. \A x \in Names : x # n => Kept(x)
  BY KeptOutside, Zenon
<1>2. \A c \in Clients :
        /\ client'[c].at = client[c].at /\ client'[c].req = client[c].req
        /\ client'[c].how = client[c].how
        /\ client'[c].calm => client[c].calm /\ client[c].req.name # n
  BY ExternalChanges, Zenon
<1>3. \A c \in Clients : CalmClient(c)'
  BY <1>1, <1>2, CalmClientKept, ClientNames, Zenon DEF CalmOK
<1>4. /\ last' \in [Names -> [calm : BOOLEAN, spec : Specs \cup {None}]] /\ pc' = pc
      /\ ~last'[n].calm /\ \A x \in Names : x # n => last'[x] = last[x]
  BY Zenon DEF ExternalDelete, loop, CalmOK, Unknown
<1>5. \A x \in Names : Superseded(x) => Superseded(x)'
  BY <1>2, Zenon DEF Superseded
<1>6. \A x \in Names : CalmLast(x)'
  BY <1>1, <1>4, <1>5, CalmLastKept, Zenon DEF CalmOK, CalmLast
<1> QED BY <1>2, <1>3, <1>4, <1>6, Zenon DEF CalmOK

\* When a request starts calm nothing about its entity is under way.
LEMMA SettledStill ==
  ASSUME TypeOK, Settled, NEW n \in Names
  PROVE  Still(n)
<1>1. D(n) # None /\ D(n).op = "Delete"
  BY DEF Messages, D
<1> QED BY <1>1, Zenon DEF Settled, Still, Reported, InEvents

LEMMA CalmRequest ==
  ASSUME Typed, CalmOK, NEW c \in Clients, NEW m \in Posts \cup Deletes, Request(c, m)
  PROVE  CalmOK'
<1>1. \A n \in Names : Kept(n)
  BY KeptOutside, Zenon
<1>2. /\ client[c] = Idle /\ client'[c].req = m
      /\ client'[c].at \in {"read", "send"}
      /\ client'[c].calm => Settled /\ \A e \in Clients : client[e] = Idle
      /\ \A d \in Clients : d # c =>
           /\ client'[d].at = client[d].at /\ client'[d].req = client[d].req
           /\ client'[d].how = client[d].how
           /\ client'[d].calm => client[d].calm /\ client[d].req.name # m.name
  <2>1. client'[c].at \in {"read", "send"}
    BY RequestChanges, Zenon
  <2>2. client'[c].calm => Settled /\ \A e \in Clients : client[e] = Idle
    BY RequestChanges, Zenon
  <2>3. \A d \in Clients : d # c =>
          (client'[d].calm => client[d].calm /\ client[d].req.name # m.name)
    BY RequestChanges, Zenon
  <2>4. /\ client[c] = Idle /\ client'[c].req = m
        /\ \A d \in Clients : d # c =>
             /\ client'[d].at = client[d].at /\ client'[d].req = client[d].req
             /\ client'[d].how = client[d].how
    <3>1. client[c] = Idle /\ client'[c].req = m
      BY RequestChanges, Zenon
    <3>2. ASSUME NEW d \in Clients, d # c
          PROVE  /\ client'[d].at = client[d].at /\ client'[d].req = client[d].req
                 /\ client'[d].how = client[d].how
      BY <3>2, RequestOthers, ZenonT(30)
    <3> QED BY <3>1, <3>2, Zenon
  <2> QED BY <2>1, <2>2, <2>3, <2>4, Zenon
<1>3. m.name \in Names /\ UNCHANGED <<last, pc>> /\ pc # "down"
  BY RequestFacts, Zenon DEF Request, Running, loop
<1>4. ASSUME NEW d \in Clients, d # c PROVE CalmClient(d)'
  <2>1. CalmClient(d)
    BY Zenon DEF CalmOK
  <2>2. client[d].at # "idle" => Kept(client[d].req.name)
    BY <1>1, ClientNames, Zenon
  <2>3. client'[d].calm => \A e \in Clients : e # d =>
          client'[e].req.name = client[e].req.name \/ client'[e].req.name # client[d].req.name
    BY <1>2, <1>4, Zenon
  <2> QED BY <1>2, <1>4, <2>1, <2>2, <2>3, CalmClientKept, Zenon
<1>5. CalmClient(c)'
  <2>1. PICK n, s : n = m.name /\ s = m.spec
    BY Zenon
  <2>2. Settled => Still(n)'
    BY <1>1, <1>3, <2>1, SettledStill, Zenon DEF Typed, Kept
  <2>3. (\A e \in Clients : client[e] = Idle) => \A d \in Clients : d # c => client'[d].req.name # n
    <3> SUFFICES ASSUME NEW d \in Clients, d # c, client[d] = Idle PROVE client'[d].req.name # n
      BY Zenon
    <3>1. client'[d].req.name = Idle.req.name
      BY <1>2, Zenon
    <3> QED BY <1>3, <2>1, <3>1, IdleFacts, Zenon
  <2>4. client'[c].calm => Still(n)' /\ \A d \in Clients : d # c => client'[d].req.name # n
    BY <1>2, <2>2, <2>3, Zenon
  <2>5. client'[c].req.name = n /\ client'[c].req.spec = s /\ client'[c].at # "reply"
    BY <1>2, <2>1, Zenon
  <2> QED BY <2>4, <2>5, CalmClientNext, Zenon
<1>6. \A n \in Names : Superseded(n) => Superseded(n)'
  BY <1>2, IdleFacts, Zenon DEF Superseded
<1>7. \A n \in Names : CalmLast(n)'
  BY <1>1, <1>3, <1>6, CalmLastKept, Zenon DEF CalmOK
<1> QED BY <1>3, <1>4, <1>5, <1>7, Zenon DEF CalmOK

LEMMA CalmPost ==
  ASSUME Typed, CalmOK, NEW c \in Clients, ProcessPost(c)
  PROVE  CalmOK'
<1>1. \A n \in Names : Kept(n)
  BY KeptOutside, Zenon DEF Handler
<1>2. PICK n, s : n = client[c].req.name /\ s = client[c].req.spec
  BY Zenon
<1>3. /\ client[c].at = "read" /\ n \in Names
      /\ UNCHANGED <<last, pc, cache, msg>>
      /\ \/ cache[n] = s /\ Goto(c, "reply", "shortcut")
         \/ Goto(c, "reply", "refused") \/ Goto(c, "send", "queued")
  BY <1>2, ClientNames, Zenon DEF ProcessPost, loop, store
<1>4. /\ client'[c].req = client[c].req /\ client'[c].calm = client[c].calm
      /\ \A d \in Clients : d # c => client'[d] = client[d]
      /\ \/ cache[n] = s /\ client'[c].at = "reply"
         \/ client'[c].at = "reply" /\ client'[c].how = "refused"
         \/ client'[c].at = "send"
  BY <1>3, GotoFacts, Zenon DEF Typed
<1>5. ASSUME NEW d \in Clients, d # c PROVE CalmClient(d)'
  BY <1>1, <1>4, <1>5, CalmClientKept, ClientNames, Zenon DEF CalmOK
<1>6. CalmClient(c)'
  <2> SUFFICES ASSUME client[c].calm
               PROVE  /\ \A d \in Clients : d # c => client'[d].req.name # n
                      /\ client'[c].at \in {"read", "send"} => Still(n)'
                      /\ client'[c].at = "reply" /\ client'[c].how # "refused" => Holds(n, s)'
    BY <1>2, <1>4, CalmClientNext, Zenon
  <2>1. Still(n) /\ \A d \in Clients : d # c => client[d].req.name # n
    BY <1>2, <1>3, Zenon DEF CalmOK, CalmClient
  <2>2. Still(n)'
    BY <1>1, <1>3, <2>1, Zenon DEF Kept
  <2>3. cache[n] = s => Holds(n, s)
    BY <2>1, Zenon DEF Still, Holds, Effective
  <2> QED BY <1>1, <1>3, <1>4, <2>1, <2>2, <2>3, HoldsKept, Zenon
<1>7. \A x \in Names : Superseded(x) => Superseded(x)'
  BY <1>3, <1>4, Zenon DEF Superseded
<1>8. \A x \in Names : CalmLast(x)'
  BY <1>1, <1>3, <1>7, CalmLastKept, Zenon DEF CalmOK
<1>9. pc' = "down" => \A d \in Clients : ~client'[d].calm
  BY <1>3, <1>4, Zenon DEF CalmOK
<1> QED BY <1>3, <1>5, <1>6, <1>8, <1>9, Zenon DEF CalmOK

LEMMA CalmReply ==
  ASSUME Typed, CalmOK, NEW c \in Clients, Reply(c)
  PROVE  CalmOK'
<1>1. \A x \in Names : Kept(x)
  BY KeptOutside, Zenon DEF Handler
<1>2. PICK n, s, how : n = client[c].req.name /\ s = client[c].req.spec /\ how = client[c].how
  BY Zenon
<1>3. /\ client[c].at = "reply" /\ n \in Names /\ UNCHANGED pc
      /\ client'[c] = Idle /\ \A d \in Clients : d # c => client'[d] = client[d]
  BY <1>2, ClientNames, Zenon DEF Reply, loop, Typed, ClientOK
<1>4. client[c].calm \in BOOLEAN /\ s \in Specs \cup {None}
  <2>1. client[c].calm \in BOOLEAN /\ client[c].req \in Posts \cup Deletes \cup {D(None)}
    BY Zenon DEF Typed, ClientOK, Handlers
  <2>2. D(None).spec = None
    BY Zenon DEF D
  <2> QED BY <1>2, <2>1, <2>2, RequestFacts, Zenon
<1>5. /\ last' \in [Names -> [calm : BOOLEAN, spec : Specs \cup {None}]]
      /\ \A x \in Names : x # n \/ how = "refused" => last'[x] = last[x]
      /\ how # "refused" => last'[n].spec = s /\ last'[n].calm = client[c].calm
  BY <1>2, <1>3, <1>4, Zenon DEF Reply, CalmOK
<1>6. ASSUME NEW d \in Clients, d # c PROVE CalmClient(d)'
  BY <1>1, <1>3, <1>6, CalmClientKept, ClientNames, IdleFacts, Zenon DEF CalmOK
<1>7. CalmClient(c)'
  BY <1>3, IdleFacts, Zenon DEF CalmClient
<1>8. ASSUME NEW x \in Names, x # n \/ how = "refused" PROVE CalmLast(x)'
  <2>1. Superseded(x) => Superseded(x)'
    BY <1>2, <1>3, <1>8, Zenon DEF Superseded
  <2> QED BY <1>1, <1>5, <1>8, <2>1, CalmLastKept, Zenon DEF CalmOK
<1>9. how # "refused" => CalmLast(n)'
  <2>1. how # "refused" /\ client[c].calm => Holds(n, s)
    BY <1>2, <1>3, Zenon DEF CalmOK, CalmClient
  <2> QED BY <1>1, <1>3, <1>5, <2>1, HoldsKept, CalmLastNext, Zenon
<1>10. pc' = "down" => \A d \in Clients : ~client'[d].calm
  BY <1>3, IdleFacts, Zenon DEF CalmOK
<1>11. pc' = "down" => \A x \in Names : ~last'[x].calm
  BY <1>3, <1>5, Zenon DEF CalmOK
<1> QED BY <1>5, <1>6, <1>7, <1>8, <1>9, <1>10, <1>11, Zenon DEF CalmOK

\* The loop takes a client's message.
LEMMA CalmReceive ==
  ASSUME Typed, WatcherOK, CalmOK, Receive, NEW c \in Clients,
         client[c].at = "send", msg' = client[c].req, Goto(c, "reply", "queued")
  PROVE  CalmOK'
<1>1. PICK n, s : n = client[c].req.name /\ s = client[c].req.spec
  BY Zenon
<1>2. n \in Names /\ UNCHANGED <<cache, last>> /\ pc' = "handle"
  BY <1>1, ClientNames, ReceiveChanges, Zenon
<1>3. /\ client'[c].at = "reply" /\ client'[c].how = "queued"
      /\ client'[c].req = client[c].req /\ client'[c].calm = client[c].calm
      /\ \A d \in Clients : d # c => client'[d] = client[d]
  BY GotoFacts, Zenon DEF Typed
<1>4. \A x \in Names : x # n => Kept(x)
  BY <1>1, KeptReceive, Zenon
<1>5. ASSUME NEW d \in Clients, d # c PROVE CalmClient(d)'
  <2>1. CalmClient(d)
    BY Zenon DEF CalmOK
  <2>2. client'[d].calm /\ client[d].at # "idle" => client[d].req.name \in Names \ {n}
    BY <1>1, <1>3, <1>5, <2>1, ClientNames, Zenon DEF CalmClient
  <2> QED BY <1>3, <1>4, <1>5, <2>1, <2>2, CalmClientKept, Zenon
<1>6. CalmClient(c)'
  <2> SUFFICES ASSUME client[c].calm
               PROVE  (\A d \in Clients : d # c => client'[d].req.name # n) /\ Holds(n, s)'
    BY <1>1, <1>3, CalmClientNext, Zenon
  <2>1. Still(n) /\ \A d \in Clients : d # c => client[d].req.name # n
    BY <1>1, Zenon DEF CalmOK, CalmClient
  <2>2. ~Reported(n)'
    BY <1>2, <2>1, ReceiveReports, Zenon DEF Still
  <2>3. Effective(n)' = s
    BY <1>1, <1>2, Zenon DEF Effective
  <2> QED BY <1>3, <2>1, <2>2, <2>3, Zenon DEF Holds
<1>7. Superseded(n)'
  BY <1>1, <1>3, Zenon DEF Superseded
<1>8. \A x \in Names : Superseded(x) => Superseded(x)'
  BY <1>3, Zenon DEF Superseded
<1>9. \A x \in Names : CalmLast(x)'
  BY <1>2, <1>4, <1>7, <1>8, CalmLastKept, Zenon DEF CalmOK, CalmLast
<1> QED BY <1>2, <1>5, <1>6, <1>9, Zenon DEF CalmOK

LEMMA UnknownFacts == ~Unknown.calm
BY Zenon DEF Unknown

LEMMA CalmInit == Init => CalmOK
<1> SUFFICES ASSUME Init PROVE CalmOK
  BY Zenon
<1>1. \A c \in Clients : client[c] = Idle
  BY Zenon DEF Init
<1>2. \A n \in Names : last[n] = Unknown
  BY Zenon DEF Init
<1>3. last \in [Names -> [calm : BOOLEAN, spec : Specs \cup {None}]]
  BY Zenon DEF Init, Unknown
<1>4. (\A n \in Names : ~last[n].calm) /\ \A c \in Clients : ~client[c].calm
  BY <1>1, <1>2, IdleFacts, UnknownFacts, Zenon
<1> QED BY <1>3, <1>4, Zenon DEF CalmOK, CalmClient, CalmLast

LEMMA CalmStep == Typed /\ WatcherOK /\ CalmOK /\ [Next]_vars => CalmOK'
<1> SUFFICES ASSUME Typed, WatcherOK, CalmOK, [Next]_vars PROVE CalmOK'
  BY Zenon
<1>1. CASE UNCHANGED vars \/ AfterInit \/ BootSend \/ InitWatcher \/ Watch
  BY <1>1, KeptOutside, CalmSame, Zenon DEF vars, loop, AfterInit, BootSend, InitWatcher, Watch
<1>2. CASE Start
  <2>1. /\ pc = "down" /\ pc' = "init" /\ UNCHANGED <<client, last>>
    BY <1>2, Zenon DEF Start
  <2>2. /\ \A n \in Names : ~last'[n].calm
        /\ \A c \in Clients : ~client'[c].calm
    BY <2>1, Zenon DEF CalmOK
  <2> QED BY <2>1, <2>2, Zenon DEF CalmOK, CalmClient, CalmLast
<1>3. CASE Crash
  <2>1. /\ \A c \in Clients : client'[c] = Idle
        /\ \A n \in Names : last'[n] = Unknown
        /\ last' \in [Names -> [calm : BOOLEAN, spec : Specs \cup {None}]]
    BY <1>3, Zenon DEF Crash, Unknown
  <2>2. /\ \A n \in Names : ~last'[n].calm
        /\ \A c \in Clients : ~client'[c].calm
    BY <2>1, IdleFacts, UnknownFacts, Zenon
  <2> QED BY <2>1, <2>2, Zenon DEF CalmOK, CalmClient, CalmLast
<1>4. CASE Receive
  <2>1. CASE UNCHANGED client
    BY <1>4, <2>1, KeptReceive, ReceiveChanges, CalmSame, Zenon
  <2>2. CASE ~UNCHANGED client
    <3>1. PICK c \in Clients :
            client[c].at = "send" /\ msg' = client[c].req /\ Goto(c, "reply", "queued")
      BY <1>4, <2>2, ReceiveChanges, Zenon
    <3> QED BY <1>4, <3>1, CalmReceive, Zenon
  <2> QED BY <2>1, <2>2, Zenon
<1>5. CASE HandleSystem \/ HandleCU \/ HandleD \/ HandleDMissing \/ Store \/ RenderEnd
           \/ \E n \in Names : RenderEntity(n)
  <2>1. UNCHANGED <<client, last>> /\ (pc' = pc \/ pc' # "down")
    BY <1>5, Zenon DEF HandleSystem, HandleCU, HandleD, HandleDMissing, Store, RenderEnd, RenderEntity,
                RenderIfPending
  <2> QED BY <1>5, <2>1, KeptInside, CalmSame, Zenon
<1>6. ASSUME NEW c \in Clients, NEW n \in Names,
             Request(c, D(n)) \/ \E s \in Specs : Request(c, CU(n, s))
      PROVE  CalmOK'
  BY <1>6, CalmRequest DEF Posts, Deletes
<1> QED BY <1>1, <1>2, <1>3, <1>4, <1>5, <1>6, CalmExternal, CalmPost, CalmReply, Zenon
        DEF Next, LoopStep, Handler

-----------------------------------------------------------------------------

Inv == Typed /\ WatcherOK /\ Differences /\ CalmOK

LEMMA Invariance == Spec => []Inv
<1>1. Init => Inv
  BY TypedInit, DifferencesInit, CalmInit, Zenon DEF Inv, Init, WatcherOK
<1>2. Inv /\ [Next]_vars => Inv'
  BY TypedStep, WatcherStep, DifferencesStep, CalmStep, Zenon DEF Inv
<1> QED BY <1>1, <1>2, PTL DEF Spec

\* The channel, the handlers, the watcher and the loop hold values of their
\* kinds, whatever the number of clients and entities: only configurations that
\* passed validate are in the cache, in etcd or on the channel.
THEOREM TypeCorrect == Spec => []TypeOK
<1>1. Inv => TypeOK
  BY Zenon DEF Inv, Typed
<1> QED BY <1>1, Invariance, PTL

\* Whenever no request, message or deletion event is under way the cache and
\* etcd hold the same configuration of every entity, after any history of
\* requests, deletions by others, renders, crashes and restarts in which no
\* deletion fell between the load of the cache and the start of the watch.
THEOREM CacheMatchesStoreHolds == Spec => []CacheMatchesStore
<1>1. Inv => CacheMatchesStore
  <2> SUFFICES ASSUME Inv, Quiet, ~missed PROVE cache = etcd
    BY Zenon DEF CacheMatchesStore
  <2>1. TypeOK /\ Differences /\ pc = "receive" /\ Settled
    BY Zenon DEF Inv, Typed, Quiet, Settled
  <2>2. \A n \in Names : ~Reported(n)
    BY <2>1, SettledStill, Zenon DEF Still
  <2>3. \A n \in Names : cache[n] = etcd[n]
    BY <2>1, <2>2, Zenon DEF Differences
  <2>4. /\ cache \in [Names -> Valid \cup {None}]
        /\ etcd \in [Names -> Valid \cup {None}]
    BY <2>1, Zenon DEF TypeOK
  <2> QED BY <2>3, <2>4
<1> QED BY <1>1, Invariance, PTL

\* A request answered OK that nothing overtook, made when nothing was on its way
\* to the cache, is what the cache holds whenever the system is quiet again,
\* until the next request for the entity, its deletion by others, or a crash:
\* although the answer is sent before the message is applied, and although the
\* watcher reports the controller's own deletions back to it.
THEOREM CalmRequestSticksHolds == Spec => []CalmRequestSticks
<1>1. Inv => CalmRequestSticks
  <2> SUFFICES ASSUME Inv, Quiet, NEW n \in Names, last[n].calm PROVE cache[n] = last[n].spec
    BY Zenon DEF CalmRequestSticks
  <2>1. CalmLast(n) /\ pc = "receive" /\ \A c \in Clients : client[c] = Idle
    BY Zenon DEF Inv, CalmOK, Quiet, Settled
  <2>2. ~Superseded(n)
    BY <2>1, IdleFacts, Zenon DEF Superseded
  <2> QED BY <2>1, <2>2, Zenon DEF CalmLast, Holds, Effective
<1> QED BY <1>1, Invariance, PTL
=============================================================================

-------------------------- MODULE PodNodeMapProofs --------------------------
(***************************************************************************)
(* The map of the pods as the renderer sees it, for every set of pods and  *)
(* nodes and every bound.                                                  *)
(***************************************************************************)
EXTENDS PodNodeMap, TLAPS

USE BoundsAssumption

-----------------------------------------------------------------------------
(* Maps.                                                                   *)

LEMMA MapIs ==
  ASSUME NEW f \in Maps
  PROVE  DOMAIN f \subseteq Pods /\ f \in [DOMAIN f -> Nodes]
BY Zenon DEF Maps

LEMMA IsMap ==
  ASSUME NEW S \in SUBSET Pods, NEW f \in [S -> Nodes]
  PROVE  f \in Maps
BY Zenon DEF Maps

LEMMA NoMapType == NoMap \in Maps
<1>1. NoMap \in [{} -> Nodes]  BY Zenon DEF NoMap
<1>2. QED  BY <1>1, IsMap, Zenon

LEMMA WithoutType ==
  ASSUME NEW f \in Maps, NEW x
  PROVE  Without(f, x) \in Maps
<1>1. DOMAIN f \subseteq Pods /\ f \in [DOMAIN f -> Nodes]  BY MapIs, Zenon
<1>2. Without(f, x) \in [DOMAIN f \ {x} -> Nodes]  BY <1>1, Zenon DEF Without, Restrict
<1>3. QED  BY <1>1, <1>2, IsMap, Zenon

LEMMA OverType ==
  ASSUME NEW f \in Maps, NEW g \in Maps
  PROVE  /\ Over(f, g) \in Maps
         /\ DOMAIN Over(f, g) = DOMAIN f \cup DOMAIN g
<1>1. /\ DOMAIN f \subseteq Pods /\ f \in [DOMAIN f -> Nodes]
      /\ DOMAIN g \subseteq Pods /\ g \in [DOMAIN g -> Nodes]
  BY MapIs, Zenon
<1>2. Over(f, g) \in [DOMAIN f \cup DOMAIN g -> Nodes]  BY <1>1, Zenon DEF Over
<1>3. QED  BY <1>1, <1>2, IsMap, Zenon

LEMMA WithType ==
  ASSUME NEW f \in Maps, NEW p \in Pods, NEW n \in Nodes
  PROVE  /\ With(f, p, n) \in Maps
         /\ DOMAIN f \subseteq DOMAIN With(f, p, n)
<1>1. [x \in {p} |-> n] \in Maps  BY IsMap, Zenon
<1>2. QED  BY <1>1, OverType, Zenon DEF With

-----------------------------------------------------------------------------
(* The invariant.                                                          *)

Boots == {<<>>, <<"Render">>, <<"Resync", "Render">>, <<"EnableRenderer", "Resync", "Render">>}

Messages ==
    [from : {"AfterInit", "http", "watcher", "ksr", "ticker"}, op : Ops,
     pod : {""} \cup Pods, node : {""} \cup Nodes]

\* What goroutines send: only handlers of POST send a node, only handlers and
\* the users' watcher delete, only AfterInit enables the renderer, and its last
\* message is a Render.
MessageOK(m) ==
    /\ m.op = "CreateUpdate" => m.pod \in Pods /\ m.node \in Nodes
    /\ m.op = "Delete" => m.from \in {"http", "watcher"}
    /\ m.op = "EnableRenderer" => m.from = "AfterInit"
    /\ m.from = "AfterInit" /\ boot = <<>> => m.op = "Render"

QueueInv ==
    /\ boot \in Boots /\ sendq \in Seq(Messages) /\ echoes \in Seq(Pods)
    /\ \A n \in DOMAIN sendq : MessageOK(sendq[n])

CountInv == movesDone \in 0 .. MaxMoves /\ moves \in 0 .. movesDone

\* Rendering is never put off once it is enabled.
RenderInv == /\ enabled => ~pending
             /\ Started => rendered = ram

Inv == TypeOK /\ QueueInv /\ CountInv /\ RenderInv

-----------------------------------------------------------------------------
(* The queue of senders.                                                   *)

LEMMA AppendedTo ==
  ASSUME NEW S, NEW q \in Seq(S), NEW m \in S
  PROVE  /\ Append(q, m) \in Seq(S)
         /\ DOMAIN q = 1 .. Len(q) /\ Len(q) \in Nat
         /\ DOMAIN Append(q, m) = 1 .. Len(q) + 1
         /\ \A n \in 1 .. Len(q) : Append(q, m)[n] = q[n]
         /\ Append(q, m)[Len(q) + 1] = m
OBVIOUS

LEMMA TailOf ==
  ASSUME NEW S, NEW q \in Seq(S), q # <<>>
  PROVE  /\ Tail(q) \in Seq(S) /\ Head(q) \in S /\ Head(q) = q[1]
         /\ DOMAIN q = 1 .. Len(q) /\ Len(q) \in Nat \ {0}
         /\ DOMAIN Tail(q) = 1 .. Len(q) - 1
         /\ \A n \in 1 .. Len(q) - 1 : Tail(q)[n] = q[n + 1]
OBVIOUS

OneMessageEach ==
    \A m, n \in DOMAIN sendq : sendq[m].from = sendq[n].from /\ sendq[m].from # "http" => m = n

\* A goroutine blocks on its message.
LEMMA Sent ==
  ASSUME sendq \in Seq(Messages), OneMessageEach,
         NEW m \in Messages, m.from # "http" => ~Sending(m.from),
         AddOperationMsgToQueue(m)
  PROVE  /\ sendq' \in Seq(Messages) /\ OneMessageEach'
         /\ \A n \in DOMAIN sendq' : sendq'[n] = m \/ \E k \in DOMAIN sendq : sendq'[n] = sendq[k]
         /\ m.from = "AfterInit" => Sending("AfterInit")'
         /\ Sending("AfterInit") => Sending("AfterInit")'
<1> DEFINE L == Len(sendq)
<1>1. /\ sendq' \in Seq(Messages) /\ L \in Nat /\ DOMAIN sendq = 1 .. L
      /\ DOMAIN sendq' = 1 .. L + 1 /\ sendq'[L + 1] = m
      /\ \A n \in 1 .. L : sendq'[n] = sendq[n]
  BY AppendedTo DEF AddOperationMsgToQueue
<1>2. \A n \in DOMAIN sendq' : sendq'[n] = m \/ \E k \in DOMAIN sendq : sendq'[n] = sendq[k]
  BY <1>1
<1>3. OneMessageEach'
  <2> SUFFICES ASSUME NEW i \in 1 .. L + 1, NEW j \in 1 .. L + 1,
                      sendq'[i].from = sendq'[j].from, sendq'[i].from # "http"
               PROVE  i = j
    BY <1>1, Zenon DEF OneMessageEach
  <2>1. CASE i \in 1 .. L /\ j \in 1 .. L  BY <2>1, <1>1, Zenon DEF OneMessageEach
  <2>2. CASE i \in 1 .. L /\ j = L + 1      BY <2>2, <1>1, Zenon DEF Sending
  <2>3. CASE i = L + 1 /\ j \in 1 .. L      BY <2>3, <1>1, Zenon DEF Sending
  <2>4. QED  BY <2>1, <2>2, <2>3, <1>1
<1>4. m.from = "AfterInit" => Sending("AfterInit")'  BY <1>1 DEF Sending
<1>5. Sending("AfterInit") => Sending("AfterInit")'  BY <1>1 DEF Sending
<1>6. QED  BY <1>1, <1>2, <1>3, <1>4, <1>5, Zenon

\* The loop takes the first message, which releases its sender.
LEMMA Received ==
  ASSUME sendq \in Seq(Messages), OneMessageEach, NEW op, Receive(op)
  PROVE  /\ sendq' \in Seq(Messages) /\ OneMessageEach'
         /\ Head(sendq) \in Messages /\ 1 \in DOMAIN sendq /\ Head(sendq) = sendq[1]
         /\ \A n \in DOMAIN sendq' : \E k \in DOMAIN sendq : sendq'[n] = sendq[k]
         /\ Sending("AfterInit") /\ ~Sending("AfterInit")' => Head(sendq).from = "AfterInit"
<1> DEFINE L == Len(sendq)
<1>1. /\ sendq' \in Seq(Messages) /\ Head(sendq) \in Messages /\ Head(sendq) = sendq[1]
      /\ DOMAIN sendq = 1 .. L /\ L \in Nat \ {0}
      /\ DOMAIN sendq' = 1 .. L - 1 /\ \A n \in 1 .. L - 1 : sendq'[n] = sendq[n + 1]
  BY TailOf, Zenon DEF Receive
<1>2. \A n \in DOMAIN sendq' : n + 1 \in DOMAIN sendq /\ sendq'[n] = sendq[n + 1]  BY <1>1
<1>3. OneMessageEach'
  <2> SUFFICES ASSUME NEW i \in 1 .. L - 1, NEW j \in 1 .. L - 1,
                      sendq'[i].from = sendq'[j].from, sendq'[i].from # "http"
               PROVE  i = j
    BY <1>1, Zenon DEF OneMessageEach
  <2>1. /\ i + 1 \in DOMAIN sendq /\ sendq'[i] = sendq[i + 1]
        /\ j + 1 \in DOMAIN sendq /\ sendq'[j] = sendq[j + 1]
    BY <1>1, <1>2, Zenon
  <2>2. sendq[i + 1].from = sendq[j + 1].from /\ sendq[i + 1].from # "http"  BY <2>1, Zenon
  <2>3. i + 1 = j + 1  BY <2>1, <2>2, Zenon DEF OneMessageEach
  <2>4. QED  BY <2>3
<1>4. ASSUME Sending("AfterInit"), ~Sending("AfterInit")'
      PROVE  Head(sendq).from = "AfterInit"
  <2>1. PICK k \in 1 .. L : sendq[k].from = "AfterInit"  BY <1>1, <1>4, Zenon DEF Sending
  <2>2. CASE k = 1  BY <2>1, <2>2, <1>1, Zenon
  <2>3. CASE k # 1
    <3>1. k - 1 \in DOMAIN sendq' /\ sendq'[k - 1] = sendq[k]  BY <2>3, <1>1
    <3>2. QED  BY <3>1, <2>1, <1>4, Zenon DEF Sending
  <2>4. QED  BY <2>2, <2>3, Zenon
<1>5. QED  BY <1>1, <1>2, <1>3, <1>4
-----------------------------------------------------------------------------
(* The three kinds of steps: of a sender, of the loop, of neither.         *)

MessagesOK == \A n \in DOMAIN sendq : MessageOK(sendq[n]) /\ sendq[n].op \in Ops
QueueOK == sendq \in Seq(Messages) /\ OneMessageEach /\ MessagesOK

LEMMA InvQueue == Inv => QueueOK
BY Zenon DEF Inv, TypeOK, QueueInv, QueueOK, OneMessageEach, MessagesOK

\* One goroutine more waits for the loop; nothing that is rendered changes.
LEMMA SendStep ==
  ASSUME Inv, up, NEW m \in Messages, MessageOK(m), m.from # "http" => ~Sending(m.from),
         AddOperationMsgToQueue(m), SendOnly,
         movesDone' = movesDone, moves' \in 0 .. moves, echoes' \in Seq(Pods)
  PROVE  Inv'
<1>1. /\ sendq' \in Seq(Messages) /\ OneMessageEach'
      /\ \A n \in DOMAIN sendq' : sendq'[n] = m \/ \E k \in DOMAIN sendq : sendq'[n] = sendq[k]
      /\ Sending("AfterInit") => Sending("AfterInit")'
  BY InvQueue, Sent, Zenon DEF QueueOK
<1>2. m.op \in Ops  BY Zenon DEF Messages
<1>3. MessagesOK'
  <2>1. SUFFICES ASSUME NEW n \in DOMAIN sendq' PROVE (MessageOK(sendq[n]) /\ sendq[n].op \in Ops)'
    BY Zenon DEF MessagesOK
  <2>2. CASE sendq'[n] = m  BY <2>2, <1>2, Zenon DEF MessageOK, SendOnly
  <2>3. CASE \E k \in DOMAIN sendq : sendq'[n] = sendq[k]
    <3>1. PICK k \in DOMAIN sendq : sendq'[n] = sendq[k]  BY <2>3, Zenon
    <3>2. QED  BY <3>1, InvQueue, Zenon DEF QueueOK, MessagesOK, MessageOK, SendOnly
  <2>4. QED  BY <1>1, <2>2, <2>3, Zenon
<1>4. /\ UNCHANGED <<config, contiv, rendered, cache, ram, enabled, pending, boot, watching>>
      /\ up' = up /\ asked' = asked /\ overtaken' = overtaken
  BY Zenon DEF SendOnly, hist
<1>5. moves' \in 0 .. MaxMoves /\ CountInv'  BY DEF Inv, CountInv
<1>6. TypeOK'
  BY <1>1, <1>3, <1>4, <1>5, Zenon DEF Inv, TypeOK, OneMessageEach, MessagesOK
<1>7. QueueInv'  BY <1>1, <1>3, <1>4, Zenon DEF Inv, QueueInv, MessagesOK
<1>8. RenderInv'  BY <1>1, <1>4, Zenon DEF Inv, RenderInv, Started
<1>9. QED  BY <1>5, <1>6, <1>7, <1>8, Zenon DEF Inv

\* One iteration of the loop: what changes the map is due to be rendered.
LEMMA LoopStep ==
  ASSUME Inv, NEW op, Receive(op), NEW due \in BOOLEAN, RenderIf(due),
         config' \in Maps, cache' \in Maps, ram' \in Maps, enabled' \in BOOLEAN, echoes' \in Seq(Pods),
         asked' \in Maps, overtaken' \in BOOLEAN,
         UNCHANGED <<contiv, up, boot, watching, moves, movesDone>>,
         op = "EnableRenderer" \/ enabled' = enabled,
         op = "Render" => due, due \/ ram' = ram
  PROVE  Inv'
<1> DEFINE h == Head(sendq)
<1>1. /\ sendq' \in Seq(Messages) /\ OneMessageEach'
      /\ h \in Messages /\ 1 \in DOMAIN sendq /\ h = sendq[1]
      /\ \A n \in DOMAIN sendq' : \E k \in DOMAIN sendq : sendq'[n] = sendq[k]
      /\ Sending("AfterInit") /\ ~Sending("AfterInit")' => h.from = "AfterInit"
  BY InvQueue, Received, Zenon DEF QueueOK
<1>2. MessageOK(h) /\ h.op = op
  <2>1. MessageOK(sendq[1])  BY <1>1, InvQueue, Zenon DEF QueueOK, MessagesOK
  <2>2. QED  BY <2>1, <1>1, Zenon DEF Receive
<1>3. MessagesOK'
  <2>1. SUFFICES ASSUME NEW n \in DOMAIN sendq' PROVE (MessageOK(sendq[n]) /\ sendq[n].op \in Ops)'
    BY Zenon DEF MessagesOK
  <2>2. PICK k \in DOMAIN sendq : sendq'[n] = sendq[k]  BY <1>1, Zenon
  <2>3. QED  BY <2>2, InvQueue, Zenon DEF QueueOK, MessagesOK, MessageOK
<1>4. up  BY Zenon DEF Inv, TypeOK, Down, Receive
<1>5. pending' = (due /\ ~enabled') /\ rendered' = IF due /\ enabled' THEN ram' ELSE rendered
  BY Zenon DEF RenderIf
<1>6. TypeOK'
  <2>1. rendered' \in Maps /\ contiv' \in Maps  BY <1>5, Zenon DEF Inv, TypeOK
  <2>2. pending' \in BOOLEAN  BY <1>5, Zenon
  <2>3. QED  BY <2>1, <2>2, <1>1, <1>3, <1>4, Zenon DEF Inv, TypeOK, OneMessageEach, MessagesOK
<1>7. QueueInv'  BY <1>1, <1>3, Zenon DEF Inv, QueueInv, MessagesOK
<1>8. CountInv'  BY Zenon DEF Inv, CountInv
<1>9. RenderInv'
  <2>1. enabled' => ~pending'  BY <1>5, Zenon
  <2>2. SUFFICES ASSUME Started' PROVE rendered' = ram'  BY <2>1, Zenon DEF RenderInv
  <2>3. CASE due  BY <2>2, <2>3, <1>5, Zenon DEF Started
  <2>4. CASE ~due
    <3>1. boot = <<>> /\ enabled' /\ ~Sending("AfterInit")'  BY <2>2, Zenon DEF Started
    <3>2. h.from # "AfterInit"  BY <2>4, <3>1, <1>2, Zenon DEF MessageOK
    <3>3. op # "EnableRenderer" /\ ~Sending("AfterInit")  BY <3>1, <3>2, <1>1, <1>2, Zenon DEF MessageOK
    <3>4. Started  BY <3>1, <3>3, <1>4, Zenon DEF Started
    <3>5. QED  BY <3>4, <2>4, <1>5, Zenon DEF Inv, RenderInv
  <2>5. QED  BY <2>3, <2>4, Zenon
<1>10. QED  BY <1>6, <1>7, <1>8, <1>9, Zenon DEF Inv
-----------------------------------------------------------------------------
(* The invariant is inductive.                                             *)

LEMMA EmptyQueue ==
  ASSUME Down
  PROVE  /\ DOMAIN sendq = {} /\ moves \in 0 .. MaxMoves /\ cache \in Maps /\ ram \in Maps
         /\ enabled \in BOOLEAN /\ pending \in BOOLEAN /\ watching \in BOOLEAN
<1>1. DOMAIN sendq = {}  BY DEF Down
<1>2. moves \in 0 .. MaxMoves  BY DEF Down
<1>3. cache \in Maps /\ ram \in Maps  BY NoMapType, Zenon DEF Down
<1>4. enabled \in BOOLEAN /\ pending \in BOOLEAN /\ watching \in BOOLEAN  BY Zenon DEF Down
<1>5. QED  BY <1>1, <1>2, <1>3, <1>4, Zenon

LEMMA InitInv == Init => Inv
<1> SUFFICES ASSUME Init PROVE Inv  BY Zenon
<1>1. TypeOK
  <2>1. {config, contiv, cache, ram, rendered, asked} \subseteq Maps
    BY EmptyQueue, NoMapType, Zenon DEF Init
  <2>2. QED  BY <2>1, EmptyQueue, Zenon DEF Init, TypeOK
<1>2. QueueInv  BY DEF Init, Down, QueueInv, Boots
<1>3. CountInv  BY DEF Init, Down, CountInv
<1>4. RenderInv  BY Zenon DEF Init, Down, RenderInv, Started
<1>5. QED  BY <1>1, <1>2, <1>3, <1>4, Zenon DEF Inv

LEMMA StartInv == Inv /\ Start => Inv'
<1> SUFFICES ASSUME Inv, Start PROVE Inv'  BY Zenon
<1>1. Down  BY Zenon DEF Inv, TypeOK, Start
<1>2. TypeOK'  BY Zenon DEF Inv, TypeOK, Start, hist
<1>3. QueueInv'  BY <1>1 DEF Inv, QueueInv, Start, Boots, Down
<1>4. CountInv'  BY Zenon DEF Inv, CountInv, Start, env
<1>5. RenderInv'  BY <1>1, Zenon DEF RenderInv, Started, Start, Down
<1>6. QED  BY <1>2, <1>3, <1>4, <1>5, Zenon DEF Inv

\* The message that empties boot is the Render.
LEMMA AfterInitInv == Inv /\ AfterInit => Inv'
<1> SUFFICES ASSUME Inv, AfterInit PROVE Inv'  BY Zenon
<1> DEFINE m == Msg("AfterInit", Head(boot), "", "")
<1>1. /\ Head(boot) \in {"EnableRenderer", "Resync", "Render"} /\ Tail(boot) \in Boots
      /\ Tail(boot) = <<>> => Head(boot) = "Render"
  <2>1. boot \in {<<"Render">>, <<"Resync", "Render">>, <<"EnableRenderer", "Resync", "Render">>}
    BY Zenon DEF Inv, QueueInv, Boots, AfterInit
  <2>2. CASE boot = <<"Render">>
    <3>1. Head(boot) = "Render" /\ Tail(boot) = <<>>  BY <2>2
    <3>2. QED  BY <3>1, Zenon DEF Boots
  <2>3. CASE boot = <<"Resync", "Render">>
    <3>1. Head(boot) = "Resync" /\ Tail(boot) = <<"Render">>  BY <2>3
    <3>2. QED  BY <3>1 DEF Boots
  <2>4. CASE boot = <<"EnableRenderer", "Resync", "Render">>
    <3>1. Head(boot) = "EnableRenderer" /\ Tail(boot) = <<"Resync", "Render">>  BY <2>4
    <3>2. QED  BY <3>1 DEF Boots
  <2>5. QED  BY <2>1, <2>2, <2>3, <2>4, Zenon
<1>2. m \in Messages /\ m.from = "AfterInit" /\ m.op = Head(boot) /\ m.op \in Ops
  BY <1>1, Zenon DEF Msg, Messages, Ops
<1>3. AddOperationMsgToQueue(m) /\ ~Sending("AfterInit") /\ boot' = Tail(boot)  BY Zenon DEF AfterInit
<1> HIDE DEF m
<1>4. /\ sendq' \in Seq(Messages) /\ OneMessageEach' /\ Sending("AfterInit")'
      /\ \A n \in DOMAIN sendq' : sendq'[n] = m \/ \E k \in DOMAIN sendq : sendq'[n] = sendq[k]
  BY <1>2, <1>3, InvQueue, Sent, Zenon DEF QueueOK
<1>5. MessagesOK'
  <2>1. SUFFICES ASSUME NEW n \in DOMAIN sendq' PROVE (MessageOK(sendq[n]) /\ sendq[n].op \in Ops)'
    BY Zenon DEF MessagesOK
  <2>2. CASE sendq'[n] = m  BY <2>2, <1>1, <1>2, <1>3, Zenon DEF MessageOK
  <2>3. CASE \E k \in DOMAIN sendq : sendq'[n] = sendq[k]
    <3>1. PICK k \in DOMAIN sendq : sendq'[n] = sendq[k]  BY <2>3, Zenon
    <3>2. sendq[k].from # "AfterInit"  BY <1>3, Zenon DEF Sending
    <3>3. QED  BY <3>1, <3>2, InvQueue, Zenon DEF QueueOK, MessagesOK, MessageOK
  <2>4. QED  BY <1>4, <2>2, <2>3, Zenon
<1>6. /\ UNCHANGED <<config, contiv, rendered, cache, ram, enabled, pending, watching, moves, echoes>>
      /\ up' = up /\ up /\ movesDone' = movesDone /\ asked' = asked /\ overtaken' = overtaken
  BY Zenon DEF AfterInit, env, hist, Inv, TypeOK, Down
<1>7. TypeOK'  BY <1>4, <1>5, <1>6, Zenon DEF Inv, TypeOK, OneMessageEach, MessagesOK
<1>8. QueueInv'  BY <1>1, <1>3, <1>4, <1>5, <1>6, Zenon DEF Inv, QueueInv, MessagesOK
<1>9. CountInv'  BY <1>6, Zenon DEF Inv, CountInv
<1>10. RenderInv'  BY <1>4, <1>6, Zenon DEF Inv, RenderInv, Started
<1>11. QED  BY <1>7, <1>8, <1>9, <1>10, Zenon DEF Inv

LEMMA CrashInv == Inv /\ Crash => Inv'
<1> SUFFICES ASSUME Inv, Crash PROVE Inv'  BY Zenon
<1>1. Down'  BY Zenon DEF Crash, Down
<1>2. TypeOK'
  <2>1. {config, contiv, cache, ram, rendered, asked}' \subseteq Maps /\ overtaken' \in BOOLEAN
    BY NoMapType, Zenon DEF Inv, TypeOK, Crash, hist
  <2>2. (DOMAIN sendq = {} /\ moves \in 0 .. MaxMoves)'  BY <1>1 DEF Down
  <2>3. QED  BY <2>1, <2>2, <1>1, Zenon DEF TypeOK, Down
<1>3. QueueInv'  BY <1>1 DEF QueueInv, Down, Boots
<1>4. CountInv'  BY <1>1 DEF Inv, CountInv, Crash, Down
<1>5. RenderInv'  BY <1>1, Zenon DEF RenderInv, Started, Down
<1>6. QED  BY <1>2, <1>3, <1>4, <1>5, Zenon DEF Inv

\* Steps that send nothing and render nothing.
LEMMA QuietStep ==
  ASSUME Inv, contiv' \in Maps, watching' \in BOOLEAN, movesDone' \in 0 .. MaxMoves,
         moves' \in 0 .. movesDone', ~up => watching' = watching /\ moves' = moves,
         UNCHANGED <<config, rendered, cache, ram, up, enabled, pending, boot, sendq, echoes>>,
         UNCHANGED hist
  PROVE  Inv'
<1>1. TypeOK'  BY DEF Inv, TypeOK, Down, hist
<1>2. QueueInv'  BY Zenon DEF Inv, QueueInv, MessageOK
<1>3. CountInv'  BY Zenon DEF CountInv
<1>4. RenderInv'  BY Zenon DEF Inv, RenderInv, Started, Sending
<1>5. QED  BY <1>1, <1>2, <1>3, <1>4, Zenon DEF Inv

LEMMA KsrInv ==
  ASSUME Inv, NEW map \in Maps, Ksr(map)
  PROVE  Inv'
<1>1. movesDone' \in 0 .. MaxMoves /\ moves' \in 0 .. movesDone'
  BY DEF Inv, CountInv, Ksr
<1>2. ~up => moves' = moves  BY Zenon DEF Inv, TypeOK, Down, Ksr
<1>3. QED  BY <1>1, <1>2, QuietStep, Zenon DEF Inv, TypeOK, Ksr
LEMMA InvCounts ==
  ASSUME Inv
  PROVE  /\ moves \in Nat /\ moves \in 0 .. moves /\ moves \in 0 .. movesDone
         /\ movesDone \in 0 .. MaxMoves /\ echoes \in Seq(Pods)
<1>1. moves \in 0 .. movesDone /\ movesDone \in 0 .. MaxMoves  BY Zenon DEF Inv, CountInv
<1>2. moves \in Nat /\ moves \in 0 .. moves  BY <1>1
<1>3. echoes \in Seq(Pods)  BY Zenon DEF Inv, QueueInv
<1>4. QED  BY <1>1, <1>2, <1>3, Zenon

LEMMA SendersInv ==
  ASSUME Inv,
         \/ \E p \in Pods, n \in Nodes : ProcessPost(p, n)
         \/ \E p \in Pods : ProcessDelete(p)
         \/ InitAndRunWatcher \/ RunContivKSRWatcher \/ Ticker
  PROVE  Inv'
<1>1. ASSUME NEW p \in Pods, NEW n \in Nodes, ProcessPost(p, n) PROVE Inv'
  <2>1. CASE UNCHANGED sendq
    BY <2>1, <1>1, InvCounts, QuietStep, Zenon DEF ProcessPost, SendOnly, Inv, TypeOK
  <2>2. CASE AddOperationMsgToQueue(Msg("http", "CreateUpdate", p, n))
    <3> DEFINE m == Msg("http", "CreateUpdate", p, n)
    <3>1. m \in Messages /\ MessageOK(m) /\ m.from = "http"  BY Zenon DEF Msg, Messages, Ops, MessageOK
    <3> HIDE DEF m
    <3>2. QED  BY <3>1, <2>2, <1>1, InvCounts, SendStep, Zenon DEF ProcessPost, m
  <2>3. QED  BY <2>1, <2>2, <1>1, Zenon DEF ProcessPost
<1>2. ASSUME NEW p \in Pods, ProcessDelete(p) PROVE Inv'
  <2> DEFINE m == Msg("http", "Delete", p, "")
  <2>1. m \in Messages /\ MessageOK(m) /\ m.from = "http"  BY Zenon DEF Msg, Messages, Ops, MessageOK
  <2> HIDE DEF m
  <2>2. QED  BY <2>1, <1>2, InvCounts, SendStep, Zenon DEF ProcessDelete, m
<1>3. CASE InitAndRunWatcher
  <2>1. up  BY <1>3, Zenon DEF Inv, TypeOK, Down, InitAndRunWatcher
  <2>2. Head(echoes) \in Pods /\ Tail(echoes) \in Seq(Pods)
    BY <1>3, InvCounts, TailOf, Zenon DEF InitAndRunWatcher
  <2> DEFINE m == Msg("watcher", "Delete", Head(echoes), "")
  <2>3. m \in Messages /\ MessageOK(m) /\ m.from = "watcher"
    BY <2>2, Zenon DEF Msg, Messages, Ops, MessageOK
  <2> HIDE DEF m
  <2>4. QED  BY <2>1, <2>2, <2>3, <1>3, InvCounts, SendStep, Zenon DEF InitAndRunWatcher, env, m
<1>4. CASE RunContivKSRWatcher
  <2>0. moves > 0 /\ moves' = moves - 1  BY <1>4, Zenon DEF RunContivKSRWatcher
  <2>1. up  BY <2>0 DEF Inv, TypeOK, Down
  <2>2. moves' \in 0 .. moves  BY <2>0, InvCounts
  <2> DEFINE m == Msg("ksr", "Resync", "", "")
  <2>3. m \in Messages /\ MessageOK(m) /\ m.from = "ksr"  BY Zenon DEF Msg, Messages, Ops, MessageOK
  <2> HIDE DEF m
  <2>4. QED  BY <2>1, <2>2, <2>3, <1>4, InvCounts, SendStep, Zenon DEF RunContivKSRWatcher, env, m
<1>5. CASE Ticker
  <2> DEFINE m == Msg("ticker", "Resync", "", "")
  <2>1. m \in Messages /\ MessageOK(m) /\ m.from = "ticker"  BY Zenon DEF Msg, Messages, Ops, MessageOK
  <2> HIDE DEF m
  <2>2. QED  BY <2>1, <1>5, InvCounts, SendStep, Zenon DEF Ticker, env, m
<1>6. QED  BY <1>1, <1>2, <1>3, <1>4, <1>5, Zenon

LEMMA LoopInv == Inv /\ ProcessOperationalMessages => Inv'
<1> SUFFICES ASSUME Inv, ProcessOperationalMessages PROVE Inv'  BY Zenon
<1>1. /\ config \in Maps /\ contiv \in Maps /\ cache \in Maps /\ ram \in Maps /\ echoes \in Seq(Pods)
      /\ enabled \in BOOLEAN /\ pending \in BOOLEAN /\ asked \in Maps /\ overtaken \in BOOLEAN
  BY Zenon DEF Inv, TypeOK, QueueInv
<1>2. CASE HandleCRUDOperationCU
  <2> DEFINE p == Head(sendq).pod
             n == Head(sendq).node
  <2>1. MessageOK(Head(sendq)) /\ Head(sendq).op = "CreateUpdate"
    BY <1>2, InvQueue, Received, Zenon DEF QueueOK, MessagesOK, HandleCRUDOperationCU, Receive
  <2>2. p \in Pods /\ n \in Nodes  BY <2>1, Zenon DEF MessageOK
  <2>3. cache' = With(cache, p, n) /\ ram' = With(ram, p, n) /\ config' \in {config, With(config, p, n)}
    BY <1>2, Zenon DEF HandleCRUDOperationCU
  <2>4. config' \in Maps /\ cache' \in Maps /\ ram' \in Maps  BY <1>1, <2>2, <2>3, WithType, Zenon
  <2>5. asked' \in Maps /\ overtaken' \in BOOLEAN
    BY <1>1, <1>2, <2>2, WithType, Zenon DEF HandleCRUDOperationCU, Reported
  <2>6. QED  BY <1>1, <1>2, <2>4, <2>5, LoopStep, Zenon DEF HandleCRUDOperationCU
<1>3. CASE HandleCRUDOperationD
  <2> DEFINE p == Head(sendq).pod
  <2>1. config' \in {config, Without(config, p)} /\ cache' = Without(cache, p)
    BY <1>3, Zenon DEF HandleCRUDOperationD, DeleteFromDatastore
  <2>2. config' \in Maps /\ cache' \in Maps  BY <1>1, <2>1, WithoutType, Zenon
  <2>3. echoes' \in Seq(Pods)
    <3>1. DOMAIN config \subseteq Pods  BY <1>1, MapIs, Zenon
    <3>2. echoes' = echoes \/ (p \in DOMAIN config /\ echoes' = Append(echoes, p))
      BY <1>3, Zenon DEF HandleCRUDOperationD, DeleteFromDatastore
    <3> HIDE DEF p
    <3>3. p \in DOMAIN config => Append(echoes, p) \in Seq(Pods)  BY <1>1, <3>1
    <3>4. QED  BY <1>1, <3>2, <3>3, Zenon
  <2>4. asked' \in Maps  BY <1>1, <1>3, WithoutType, Zenon DEF HandleCRUDOperationD
  <2>5. /\ Receive("Delete") /\ RenderIf(TRUE) /\ ram' = ram /\ enabled' = enabled
        /\ UNCHANGED <<contiv, up, boot, watching, moves, movesDone>> /\ overtaken' = overtaken
    BY <1>3, Zenon DEF HandleCRUDOperationD, DeleteFromRam
  <2>6. ram' \in Maps /\ enabled' \in BOOLEAN /\ overtaken' \in BOOLEAN  BY <1>1, <2>5, Zenon
  <2>7. QED  BY <2>2, <2>3, <2>4, <2>5, <2>6, LoopStep, Zenon
<1>4. CASE SyncNetworkPodToNodeMap
  <2>1. ram' \in Maps  BY <1>1, <1>4, OverType, Zenon DEF SyncNetworkPodToNodeMap, Merged
  <2> DEFINE due == pending \/ Changed(ram, ram')
  <2>2. due \in BOOLEAN /\ (due \/ ram' = ram)  BY <1>1, Zenon DEF Changed
  <2>3. RenderIf(due) /\ Receive("Resync")  BY <1>4, Zenon DEF SyncNetworkPodToNodeMap
  <2> HIDE DEF due
  <2>4. QED  BY <1>1, <1>4, <2>1, <2>2, <2>3, LoopStep DEF SyncNetworkPodToNodeMap, env, hist
<1>5. CASE RenderMsg  BY <1>1, <1>5, LoopStep, Zenon DEF RenderMsg, env, hist
<1>6. CASE EnableRenderer
  <2>1. enabled' \in BOOLEAN  BY <1>6, Zenon DEF EnableRenderer
  <2>2. /\ Receive("EnableRenderer") /\ RenderIf(pending)
        /\ UNCHANGED <<config, contiv, cache, ram, up, boot, watching, moves, echoes, movesDone>>
        /\ UNCHANGED <<asked, overtaken>>
    BY <1>6, Zenon DEF EnableRenderer, env, hist
  <2>3. QED  BY <1>1, <2>1, <2>2, LoopStep
<1>7. QED  BY <1>2, <1>3, <1>4, <1>5, <1>6, Zenon DEF ProcessOperationalMessages

LEMMA NextInv == Inv /\ [Next]_vars => Inv'
<1> SUFFICES ASSUME Inv, [Next]_vars PROVE Inv'  BY Zenon
<1>1. CASE Start  BY <1>1, StartInv, Zenon
<1>2. CASE AfterInit  BY <1>2, AfterInitInv, Zenon
<1>3. CASE Crash  BY <1>3, CrashInv, Zenon
<1>4. CASE \/ \E p \in Pods, n \in Nodes : ProcessPost(p, n)
           \/ \E p \in Pods : ProcessDelete(p)
           \/ InitAndRunWatcher \/ RunContivKSRWatcher \/ Ticker
  BY <1>4, SendersInv, Zenon
<1>5. CASE RegisterWatches
  BY <1>5, QuietStep, Zenon DEF RegisterWatches, Inv, TypeOK, CountInv, env
<1>6. CASE \E p \in Pods, n \in Nodes : contiv # With(contiv, p, n) /\ Ksr(With(contiv, p, n))
  <2>1. PICK p \in Pods, n \in Nodes : Ksr(With(contiv, p, n))  BY <1>6, Zenon
  <2>2. With(contiv, p, n) \in Maps  BY WithType, Zenon DEF Inv, TypeOK
  <2>3. QED  BY <2>1, <2>2, KsrInv, Zenon
<1>7. CASE \E p \in DOMAIN contiv : Ksr(Without(contiv, p))
  <2>1. PICK p \in DOMAIN contiv : Ksr(Without(contiv, p))  BY <1>7, Zenon
  <2>2. Without(contiv, p) \in Maps  BY WithoutType, Zenon DEF Inv, TypeOK
  <2>3. QED  BY <2>1, <2>2, KsrInv, Zenon
<1>8. CASE ProcessOperationalMessages  BY <1>8, LoopInv, Zenon
<1>9. CASE UNCHANGED vars
  BY <1>9, QuietStep, Zenon DEF vars, mem, env, Inv, TypeOK, CountInv
<1>10. QED  BY <1>1, <1>2, <1>3, <1>4, <1>5, <1>6, <1>7, <1>8, <1>9, Zenon DEF Next
-----------------------------------------------------------------------------
(* The theorems.                                                           *)

LEMMA Invariance == Spec => []Inv
<1>1. Init => Inv  BY InitInv, Zenon
<1>2. Inv /\ [Next]_vars => Inv'  BY NextInv, Zenon
<1>3. QED  BY <1>1, <1>2, PTL DEF Spec

\* The maps always locate pods on nodes, every goroutine but a handler's is
\* blocked on at most one message, and a process that is down holds nothing
\* (networkpodnodemap.go, ProcessOperationalMessages).
THEOREM TypeCorrect == Spec => []TypeOK
<1>1. Inv => TypeOK  BY Zenon DEF Inv
<1>2. QED  BY <1>1, Invariance, PTL

\* For any pods, nodes, requests, moves, crashes and failed writes: once the
\* messages of AfterInit are handled, the map that was last rendered is the map
\* that the renderer would read now (SyncNetworkPodToNodeMap and the end of
\* every iteration of ProcessOperationalMessages).
THEOREM RenderedIsRamHolds == Spec => []RenderedIsRam
<1>1. Inv => RenderedIsRam  BY Zenon DEF Inv, RenderInv, RenderedIsRam, Started
<1>2. QED  BY <1>1, Invariance, PTL

-----------------------------------------------------------------------------
(* The users' map.                                                         *)

LEMMA WithDomain ==
  ASSUME NEW f \in Maps, NEW p \in Pods, NEW n \in Nodes
  PROVE  DOMAIN With(f, p, n) = {p} \cup DOMAIN f
<1>1. [x \in {p} |-> n] \in Maps  BY IsMap, Zenon
<1>2. DOMAIN [x \in {p} |-> n] = {p}  BY Zenon
<1>3. QED  BY <1>1, <1>2, OverType, Zenon DEF With

LEMMA WithoutDomain ==
  ASSUME NEW f \in Maps, NEW x
  PROVE  /\ DOMAIN Without(f, x) = DOMAIN f \ {x}
         /\ x \notin DOMAIN f => Without(f, x) = f
<1>1. DOMAIN Without(f, x) = DOMAIN f \ {x}  BY Zenon DEF Without, Restrict
<1>2. ASSUME x \notin DOMAIN f PROVE Without(f, x) = f
  <2>1. DOMAIN f \ {x} = DOMAIN f  BY <1>2, Zenon
  <2>2. f \in [DOMAIN f -> Nodes]  BY MapIs, Zenon
  <2>3. f = [y \in DOMAIN f |-> f[y]]  BY <2>2, Zenon
  <2>4. Without(f, x) = [y \in DOMAIN f |-> f[y]]  BY <2>1, Zenon DEF Without, Restrict
  <2>5. QED  BY <2>3, <2>4, Zenon
<1>3. QED  BY <1>1, <1>2, Zenon

\* What has yet to be reported deleted is nowhere, as long as nothing overtook a
\* report: the message that the watcher sends finds nothing to delete.
StickInv ==
    /\ faults \in Nat
    /\ ~overtaken /\ faults = 0 =>
          /\ config = asked /\ (up => cache = asked)
          /\ \A p : Reported(p) => p \notin DOMAIN asked

\* A step that reports no more, and leaves the maps alone.
LEMMA StickFrame ==
  ASSUME Inv, StickInv, \A p : Reported(p)' => Reported(p),
         UNCHANGED <<config, asked, overtaken, faults>>, ~up' \/ cache' = config \/ (up /\ cache' = cache)
  PROVE  StickInv'
BY Zenon DEF StickInv

LEMMA ReportedSent ==
  ASSUME Inv, NEW m \in Messages, AddOperationMsgToQueue(m),
         \/ m.from # "watcher" /\ echoes' = echoes
         \/ echoes # <<>> /\ m.pod = Head(echoes) /\ echoes' = Tail(echoes)
  PROVE  \A p : Reported(p)' => Reported(p)
<1> DEFINE L == Len(sendq)
<1>0. sendq \in Seq(Messages)  BY InvQueue, Zenon DEF QueueOK
<1>1. /\ DOMAIN sendq = 1 .. L /\ L \in Nat /\ DOMAIN sendq' = 1 .. L + 1 /\ sendq'[L + 1] = m
      /\ \A n \in 1 .. L : sendq'[n] = sendq[n]
  BY <1>0, AppendedTo DEF AddOperationMsgToQueue
<1>2. \A n \in DOMAIN sendq' : (n \in DOMAIN sendq /\ sendq'[n] = sendq[n]) \/ sendq'[n] = m
  BY <1>1
<1> SUFFICES ASSUME NEW p, Reported(p)' PROVE Reported(p)  BY Zenon
<1>3. CASE m.from # "watcher" /\ echoes' = echoes
  BY <1>2, <1>3, Zenon DEF Reported
<1>4. CASE echoes # <<>> /\ m.pod = Head(echoes) /\ echoes' = Tail(echoes)
  <2>1. echoes \in Seq(Pods)  BY InvCounts, Zenon
  <2>2. /\ 1 \in DOMAIN echoes /\ m.pod = echoes[1]
        /\ \A n \in DOMAIN echoes' : n + 1 \in DOMAIN echoes /\ echoes'[n] = echoes[n + 1]
    BY <1>4, <2>1, TailOf
  <2>3. CASE \E n \in DOMAIN echoes' : echoes'[n] = p  BY <2>2, <2>3, Zenon DEF Reported
  <2>4. CASE \E n \in DOMAIN sendq' : sendq'[n].from = "watcher" /\ sendq'[n].pod = p
    BY <1>2, <2>2, <2>4, Zenon DEF Reported
  <2>5. QED  BY <2>3, <2>4, Zenon DEF Reported
<1>5. QED  BY <1>3, <1>4, Zenon

LEMMA ReportedReceived ==
  ASSUME Inv, NEW op, Receive(op)
  PROVE  /\ \A p : (\E n \in DOMAIN sendq' : sendq'[n].from = "watcher" /\ sendq'[n].pod = p) => Reported(p)
         /\ Head(sendq).from = "watcher" => Reported(Head(sendq).pod)
         /\ Head(sendq) \in Messages /\ MessageOK(Head(sendq)) /\ Head(sendq).op = op /\ up
<1>1. /\ \A n \in DOMAIN sendq' : \E k \in DOMAIN sendq : sendq'[n] = sendq[k]
      /\ 1 \in DOMAIN sendq /\ Head(sendq) = sendq[1] /\ Head(sendq) \in Messages
  BY InvQueue, Received, Zenon DEF QueueOK
<1>2. MessageOK(sendq[1])  BY <1>1, InvQueue, Zenon DEF QueueOK, MessagesOK
<1>3. up  BY Zenon DEF Inv, TypeOK, Down, Receive
<1>4. ASSUME NEW p, NEW n \in DOMAIN sendq', sendq'[n].from = "watcher", sendq'[n].pod = p PROVE Reported(p)
  <2>1. PICK k \in DOMAIN sendq : sendq'[n] = sendq[k]  BY <1>1, Zenon
  <2>2. QED  BY <2>1, <1>4, Zenon DEF Reported
<1>5. Head(sendq).from = "watcher" => Reported(Head(sendq).pod)  BY <1>1, Zenon DEF Reported
<1>6. QED  BY <1>1, <1>2, <1>3, <1>4, <1>5, Zenon DEF Receive

LEMMA StickCU == Inv /\ StickInv /\ HandleCRUDOperationCU => StickInv'
<1> SUFFICES ASSUME Inv, StickInv, HandleCRUDOperationCU PROVE StickInv'  BY Zenon
<1> DEFINE p == Head(sendq).pod
           n == Head(sendq).node
<1>1. /\ Receive("CreateUpdate") /\ cache' = With(cache, p, n) /\ asked' = With(asked, p, n)
      /\ overtaken' = (overtaken \/ Reported(p)) /\ echoes' = echoes /\ up' = up
      /\ \/ config' = With(config, p, n) /\ faults' = faults
         \/ faults' = faults + 1
  BY Zenon DEF HandleCRUDOperationCU
<1>2. /\ \A q : (\E k \in DOMAIN sendq' : sendq'[k].from = "watcher" /\ sendq'[k].pod = q) => Reported(q)
      /\ p \in Pods /\ n \in Nodes /\ up
  BY <1>1, ReportedReceived, Zenon DEF MessageOK
<1> HIDE DEF p, n
<1>3. \A q : Reported(q)' => Reported(q)  BY <1>1, <1>2, Zenon DEF Reported
<1>4. faults' \in Nat /\ (faults' = 0 => faults = 0 /\ config' = With(config, p, n))
  BY <1>1 DEF StickInv
<1>5. asked \in Maps  BY Zenon DEF Inv, TypeOK
<1>6. DOMAIN asked' = {p} \cup DOMAIN asked  BY <1>1, <1>2, <1>5, WithDomain, Zenon
<1>7. QED  BY <1>1, <1>2, <1>3, <1>4, <1>6, Zenon DEF StickInv

LEMMA StickD == Inv /\ StickInv /\ HandleCRUDOperationD => StickInv'
<1> SUFFICES ASSUME Inv, StickInv, HandleCRUDOperationD PROVE StickInv'  BY Zenon
<1> DEFINE p == Head(sendq).pod
<1>1. /\ Receive("Delete") /\ cache' = Without(cache, p) /\ overtaken' = overtaken /\ up' = up
      /\ asked' = IF Head(sendq).from = "http" THEN Without(asked, p) ELSE asked
      /\ \/ config' = Without(config, p) /\ faults' = faults /\ echoes' \in {echoes, Append(echoes, p)}
         \/ faults' = faults + 1 /\ echoes' = echoes
  BY Zenon DEF HandleCRUDOperationD, DeleteFromDatastore
<1>2. /\ \A q : (\E k \in DOMAIN sendq' : sendq'[k].from = "watcher" /\ sendq'[k].pod = q) => Reported(q)
      /\ Head(sendq).from = "watcher" => Reported(p)
      /\ Head(sendq).from \in {"http", "watcher"} /\ up
  BY <1>1, ReportedReceived, Zenon DEF MessageOK
<1> HIDE DEF p
<1>3. faults' \in Nat /\ (faults' = 0 => faults = 0 /\ config' = Without(config, p))
  BY <1>1 DEF StickInv
<1>4. asked \in Maps  BY Zenon DEF Inv, TypeOK
<1>5. DOMAIN Without(asked, p) = DOMAIN asked \ {p} /\ (p \notin DOMAIN asked => Without(asked, p) = asked)
  BY <1>4, WithoutDomain, Zenon
<1>6. \A q : Reported(q)' => Reported(q) \/ q = p
  <2>1. \A q : (\E k \in DOMAIN echoes' : echoes'[k] = q) => (\E k \in DOMAIN echoes : echoes[k] = q) \/ q = p
    <3>1. CASE echoes' = echoes  BY <3>1, Zenon
    <3>2. CASE echoes' = Append(echoes, p)
      <4>1. echoes \in Seq({p} \cup Pods)  BY InvCounts
      <4>2. \A k \in DOMAIN echoes' : (k \in DOMAIN echoes /\ echoes'[k] = echoes[k]) \/ echoes'[k] = p
        BY <3>2, <4>1
      <4>3. QED  BY <4>2, Zenon
    <3>3. QED  BY <1>1, <3>1, <3>2, Zenon
  <2>2. QED  BY <1>2, <2>1, Zenon DEF Reported
<1>7. SUFFICES ASSUME ~overtaken', faults' = 0
               PROVE  config' = asked' /\ cache' = asked' /\ \A q : Reported(q)' => q \notin DOMAIN asked'
  BY <1>3, Zenon DEF StickInv
<1>8. /\ config = asked /\ cache = asked /\ config' = Without(asked, p) /\ cache' = Without(asked, p)
      /\ \A q : Reported(q) => q \notin DOMAIN asked
  BY <1>1, <1>2, <1>3, <1>7, Zenon DEF StickInv
<1>9. asked' = Without(asked, p)  BY <1>1, <1>2, <1>5, <1>8, Zenon
<1>10. QED  BY <1>5, <1>6, <1>8, <1>9, Zenon

LEMMA StickNext == Inv /\ StickInv /\ [Next]_vars => StickInv'
<1> SUFFICES ASSUME Inv, StickInv, [Next]_vars PROVE StickInv'  BY Zenon
<1>1. CASE Start \/ RegisterWatches \/ UNCHANGED vars
           \/ (\E map : Ksr(map)) \/ (\E p \in Pods, n \in Nodes : ProcessPost(p, n) /\ UNCHANGED sendq)
  <2>1. /\ UNCHANGED <<config, asked, overtaken, faults>> /\ UNCHANGED <<sendq, echoes>>
        /\ cache' = config \/ (up' = up /\ cache' = cache)
    BY <1>1, Zenon DEF Start, RegisterWatches, Ksr, ProcessPost, SendOnly, vars, mem, env, hist
  <2>2. \A p : Reported(p)' => Reported(p)  BY <2>1, Zenon DEF Reported
  <2>3. ~up' \/ cache' = config \/ (up /\ cache' = cache)  BY <2>1, Zenon
  <2>4. QED  BY <2>1, <2>2, <2>3, StickFrame, Zenon
<1>2. CASE AfterInit
  <2> DEFINE m == Msg("AfterInit", Head(boot), "", "")
  <2>1. Head(boot) \in Ops
    <3>1. boot \in {<<"Render">>, <<"Resync", "Render">>, <<"EnableRenderer", "Resync", "Render">>}
      BY <1>2, Zenon DEF Inv, QueueInv, Boots, AfterInit
    <3>2. QED  BY <3>1 DEF Ops
  <2>2. m \in Messages /\ m.from # "watcher"  BY <2>1, Zenon DEF Msg, Messages
  <2>3. AddOperationMsgToQueue(m)  BY <1>2, Zenon DEF AfterInit
  <2> HIDE DEF m
  <2>4. UNCHANGED <<config, asked, overtaken, faults, echoes, up, cache>>  BY <1>2, Zenon DEF AfterInit, env, hist
  <2>5. QED  BY <2>2, <2>3, <2>4, ReportedSent, StickFrame, Zenon
<1>3. CASE Crash
  <2>1. UNCHANGED <<config, asked, overtaken, faults>> /\ ~up' /\ sendq' = <<>> /\ echoes' = <<>>
    BY <1>3, Zenon DEF Crash, hist
  <2>2. DOMAIN sendq' = {} /\ DOMAIN echoes' = {}  BY <2>1
  <2>3. \A p : Reported(p)' => Reported(p)  BY <2>2, Zenon DEF Reported
  <2>4. QED  BY <2>1, <2>3, StickFrame, Zenon
<1>4. ASSUME NEW m \in Messages, AddOperationMsgToQueue(m), SendOnly, faults' = faults,
             \/ m.from # "watcher" /\ echoes' = echoes
             \/ echoes # <<>> /\ m.pod = Head(echoes) /\ echoes' = Tail(echoes)
      PROVE  StickInv'
  <2>1. UNCHANGED <<config, asked, overtaken, faults, up, cache>>  BY <1>4, Zenon DEF SendOnly, hist
  <2>2. \A p : Reported(p)' => Reported(p)  BY <1>4, ReportedSent, Zenon
  <2>3. QED  BY <2>1, <2>2, StickFrame, Zenon
<1>5. ASSUME NEW p \in Pods, NEW n \in Nodes, ProcessPost(p, n) PROVE StickInv'
  <2>1. CASE UNCHANGED sendq  BY <1>1, <1>5, <2>1, Zenon
  <2>2. CASE AddOperationMsgToQueue(Msg("http", "CreateUpdate", p, n))
    <3> DEFINE m == Msg("http", "CreateUpdate", p, n)
    <3>1. m \in Messages /\ m.from # "watcher"  BY Zenon DEF Msg, Messages, Ops
    <3> HIDE DEF m
    <3>2. QED  BY <3>1, <2>2, <1>4, <1>5, Zenon DEF ProcessPost, m
  <2>3. QED  BY <2>1, <2>2, <1>5, Zenon DEF ProcessPost
<1>6. ASSUME NEW p \in Pods, ProcessDelete(p) PROVE StickInv'
  <2> DEFINE m == Msg("http", "Delete", p, "")
  <2>1. m \in Messages /\ m.from # "watcher"  BY Zenon DEF Msg, Messages, Ops
  <2> HIDE DEF m
  <2>2. QED  BY <2>1, <1>4, <1>6, Zenon DEF ProcessDelete, m
<1>7. CASE InitAndRunWatcher
  <2>1. Head(echoes) \in Pods  BY <1>7, InvCounts, TailOf, Zenon DEF InitAndRunWatcher
  <2> DEFINE m == Msg("watcher", "Delete", Head(echoes), "")
  <2>2. m \in Messages /\ m.pod = Head(echoes)  BY <2>1, Zenon DEF Msg, Messages, Ops
  <2> HIDE DEF m
  <2>3. QED  BY <2>2, <1>4, <1>7, Zenon DEF InitAndRunWatcher, env, m
<1>8. CASE RunContivKSRWatcher
  <2> DEFINE m == Msg("ksr", "Resync", "", "")
  <2>1. m \in Messages /\ m.from # "watcher"  BY Zenon DEF Msg, Messages, Ops
  <2> HIDE DEF m
  <2>2. QED  BY <2>1, <1>4, <1>8, Zenon DEF RunContivKSRWatcher, env, m
<1>9. CASE Ticker
  <2> DEFINE m == Msg("ticker", "Resync", "", "")
  <2>1. m \in Messages /\ m.from # "watcher"  BY Zenon DEF Msg, Messages, Ops
  <2> HIDE DEF m
  <2>2. QED  BY <2>1, <1>4, <1>9, Zenon DEF Ticker, env, m
<1>10. CASE SyncNetworkPodToNodeMap \/ RenderMsg \/ EnableRenderer
  <2>1. /\ Receive("Resync") \/ Receive("Render") \/ Receive("EnableRenderer")
        /\ UNCHANGED <<config, asked, overtaken, faults, echoes, up, cache>>
    BY <1>10, Zenon DEF SyncNetworkPodToNodeMap, RenderMsg, EnableRenderer, env, hist
  <2>2. \A p : (\E n \in DOMAIN sendq' : sendq'[n].from = "watcher" /\ sendq'[n].pod = p) => Reported(p)
    BY <2>1, ReportedReceived, Zenon
  <2>3. \A p : Reported(p)' => Reported(p)  BY <2>1, <2>2, Zenon DEF Reported
  <2>4. QED  BY <2>1, <2>3, StickFrame, Zenon
<1>11. QED  BY <1>1, <1>2, <1>3, <1>5, <1>6, <1>7, <1>8, <1>9, <1>10, StickCU, StickD, Zenon
         DEF Next, ProcessOperationalMessages

\* For any pods, nodes and requests, crashes included: the users' map is the one
\* that their requests make, in memory and in etcd, as long as no write or
\* delete failed and no pod was placed between its deletion and the watch's
\* report of it (InitAndRunWatcher, HandleCRUDOperationD).
THEOREM LocationsStickHolds == Spec => []LocationsStick
<1>1. Init => StickInv
  <2> SUFFICES ASSUME Init PROVE StickInv  BY Zenon
  <2>1. DOMAIN sendq = {} /\ DOMAIN echoes = {} /\ faults \in Nat  BY DEF Init, Down
  <2>2. QED  BY <2>1, Zenon DEF Init, Down, StickInv, Reported
<1>2. Inv /\ StickInv /\ [Next]_vars => StickInv'  BY StickNext, Zenon
<1>3. StickInv => LocationsStick  BY Zenon DEF StickInv, LocationsStick
<1>4. QED  BY <1>1, <1>2, <1>3, Invariance, PTL DEF Spec

-----------------------------------------------------------------------------
(* The renderer's map.                                                     *)

LEMMA LoopKeeps ==
  ASSUME Inv, Started, ProcessOperationalMessages
  PROVE  DOMAIN contiv \cap DOMAIN rendered \subseteq DOMAIN rendered'
<1>1. rendered = ram /\ contiv \in Maps /\ cache \in Maps /\ ram \in Maps
  BY Zenon DEF Inv, RenderInv, TypeOK
<1>2. DOMAIN contiv \cap DOMAIN ram \subseteq DOMAIN ram'
  <2>1. CASE HandleCRUDOperationCU
    <3> DEFINE p == Head(sendq).pod
               n == Head(sendq).node
    <3>1. MessageOK(Head(sendq)) /\ Head(sendq).op = "CreateUpdate"
      BY <2>1, InvQueue, Received, Zenon DEF QueueOK, MessagesOK, HandleCRUDOperationCU, Receive
    <3>2. p \in Pods /\ n \in Nodes  BY <3>1, Zenon DEF MessageOK
    <3>3. ram' = With(ram, p, n)  BY <2>1, Zenon DEF HandleCRUDOperationCU
    <3>4. QED  BY <1>1, <3>2, <3>3, WithType, Zenon
  <2>2. CASE HandleCRUDOperationD  BY <2>2, Zenon DEF HandleCRUDOperationD, DeleteFromRam
  <2>3. CASE SyncNetworkPodToNodeMap
    BY <1>1, <2>3, OverType, Zenon DEF SyncNetworkPodToNodeMap, Merged
  <2>4. CASE RenderMsg  BY <2>4, Zenon DEF RenderMsg
  <2>5. CASE EnableRenderer  BY <2>5, Zenon DEF EnableRenderer
  <2>6. QED  BY <2>1, <2>2, <2>3, <2>4, <2>5, Zenon DEF ProcessOperationalMessages
<1>3. rendered' = rendered \/ rendered' = ram'
  BY Zenon DEF ProcessOperationalMessages, HandleCRUDOperationCU, HandleCRUDOperationD,
         SyncNetworkPodToNodeMap, RenderMsg, EnableRenderer, RenderIf
<1>4. QED  BY <1>1, <1>2, <1>3, Zenon

\* For any pods, nodes and requests: no step takes from the renderer a pod that
\* the KSR locates before and after it, once the controller has started
\* (HandleCRUDOperationD, SyncNetworkPodToNodeMap).
THEOREM PlacedStaysHolds == Spec => PlacedStays
<1> DEFINE Keeps == Started /\ up' => DOMAIN contiv \cap DOMAIN contiv' \cap DOMAIN rendered
                                      \subseteq DOMAIN rendered'
<1>1. Inv /\ [Next]_vars => [Keeps]_vars
  <2> SUFFICES ASSUME Inv, Next, Started PROVE DOMAIN contiv \cap DOMAIN rendered \subseteq DOMAIN rendered'
    BY Zenon
  <2>1. CASE ProcessOperationalMessages  BY <2>1, LoopKeeps, Zenon
  <2>2. CASE rendered' = rendered  BY <2>2, Zenon
  <2>3. ProcessOperationalMessages \/ rendered' = rendered
    BY Zenon DEF Next, Start, AfterInit, Crash, ProcessPost, ProcessDelete, RegisterWatches,
           InitAndRunWatcher, RunContivKSRWatcher, Ticker, Ksr, SendOnly
  <2>4. QED  BY <2>1, <2>2, <2>3, Zenon
<1>2. QED  BY <1>1, Invariance, PTL DEF Spec, PlacedStays
=============================================================================

--------------------------- MODULE IpamStoreProofs ---------------------------
(***************************************************************************)
(* What etcd and RAM hold of the addresses: that a restart finds what was  *)
(* there, and the invariant from which no address is held twice, as far as *)
(* requests, starts and crashes go.                                        *)
(***************************************************************************)
EXTENDS IpamPoolsProofs

-----------------------------------------------------------------------------
(* What rendering an entity leaves behind.                                 *)

\* The entity has a verdict, and if that is "Up", etcd and RAM agree on it.
Settled(e) ==
  /\ entities[e].status.oper \in {"Up", "Down"}
  /\ entities[e].status.oper = "Up" =>
       saved[e] = entities[e] /\ \A i \in IfacesIn(e) : entities[e].status.ifs[i] = ifStates[i]

\* The entity being rendered: the interfaces done have their status in RAM.
Underway ==
  /\ entities[cur].status.oper \in {NoError, "Down"}
  /\ entities[cur].status.oper = NoError => \A i \in IfacesIn(cur) :
       (\E n \in 1..Len(rest) : rest[n] = i) \/ entities[cur].status.ifs[i] = ifStates[i]

Renders ==
  /\ pc = "idle" => \A e \in Configured(entities) : Settled(e)
  /\ pc = "render" => \A e \in Configured(entities) : e \in todo \/ e = cur \/ Settled(e)
  /\ cur # None => Underway

LEMMA RendersRequest ==
  ASSUME Typed, RequestMade
  PROVE  Renders'
<1>1. cur' = None
  BY RequestTypes, Zenon
<1>2. pc' # "idle" /\ (pc' = "render" => todo' = Configured(entities'))
  BY Zenon DEF RequestMade
<1> QED BY <1>1, <1>2, Zenon DEF Renders

LEMMA RendersRenderStart ==
  ASSUME Typed, Renders, NEW e \in Entities, RenderStart(e)
  PROVE  Renders'
<1>1. /\ pc = "render" /\ pc' = "render" /\ cur = None /\ cur' = e /\ todo' = todo \ {e}
      /\ UNCHANGED <<ifStates, saved>>
      /\ \A d \in Entities \ {e} : entities'[d] = entities[d]
  BY RenderStartEffect, Zenon
<1>2. ASSUME NEW d \in Configured(entities') PROVE d \in todo' \/ d = cur' \/ Settled(d)'
  <2>1. d \in Entities /\ d # None
    BY NothingAssumption, Zenon DEF Configured
  <2>2. CASE d = e
    BY <1>1, <2>2, Zenon
  <2>3. CASE d # e
    <3>1. entities'[d] = entities[d] /\ d \in Configured(entities)
      BY <1>1, <2>1, <2>3, Zenon DEF Configured
    <3>2. d \in todo \/ Settled(d)
      BY <1>1, <2>1, <3>1, Zenon DEF Renders
    <3>3. Settled(d) => Settled(d)'
      BY <1>1, <3>1, Zenon DEF Settled
    <3> QED BY <1>1, <2>3, <3>2, <3>3, Zenon
  <2> QED BY <2>2, <2>3, Zenon
<1>3. Underway'
  <2>1. PICK oper \in {NoError, "Down"} :
          /\ rest' = IF oper = NoError THEN IfacesOf[e] ELSE <<>>
          /\ entities'[e] = With(e, oper, NoStatuses)
    BY RenderStartEffect, Zenon
  <2>2. entities'[e].status.oper = oper
    BY <2>1 DEF With
  <2>3. ASSUME oper = NoError, NEW i \in IfacesIn(e)
        PROVE  \E n \in 1..Len(rest') : rest'[n] = i
    BY <2>1, <2>3, Zenon DEF IfacesIn
  <2> QED BY <1>1, <2>2, <2>3, Zenon DEF Underway
<1> QED BY <1>1, <1>2, <1>3, Zenon DEF Renders

LEMMA SettledFrame ==
  ASSUME Typed, NEW d \in Entities, NEW e \in Entities, d # e, NEW i \in IfacesIn(e), Settled(d),
         entities'[d] = entities[d], saved'[d] = saved[d],
         \A j \in Ifaces \ {i} : ifStates'[j] = ifStates[j]
  PROVE  Settled(d)'
<1>1. \A j \in IfacesIn(d) : ifStates'[j] = ifStates[j]
  BY OwnerFacts, Zenon
<1> QED BY <1>1, Zenon DEF Settled

LEMMA RendersRenderInterface ==
  ASSUME Typed, Renders, RenderInterface
  PROVE  Renders'
<1>1. PICK i : i = Head(rest)
  BY Zenon
<1>2. /\ pc = "render" /\ cur \in Entities /\ entities[cur] # None /\ i \in Ifaces /\ i \in IfacesIn(cur)
      /\ rest \in Seq(IfacesIn(cur)) /\ rest # <<>> /\ cur # None
  BY <1>1, RenderInterfaceEffect, NothingAssumption, Zenon
<1>3. PICK r \in Results, q \in Results : RenderedInterface(i, r, q)
  BY <1>1, RenderInterfaceEffect, Zenon
<1>4. CASE Panicked(r, q)
  <2>1. pc' = "panic" /\ cur' = None
    BY <1>4, ClearedTypes, Zenon DEF Panicked
  <2> QED BY <2>1, Zenon DEF Renders
<1>5. ASSUME NEW x, ifStates' = [ifStates EXCEPT ![i] = x], UNCHANGED <<saved, pc, todo, cur>>,
             \A d \in Entities \ {cur} : entities'[d] = entities[d]
      PROVE  /\ \A d \in Configured(entities') : d \in todo' \/ d = cur' \/ Settled(d)'
             /\ ifStates'[i] = x /\ \A j \in Ifaces \ {i} : ifStates'[j] = ifStates[j]
  <2>1. ifStates'[i] = x /\ \A j \in Ifaces \ {i} : ifStates'[j] = ifStates[j]
    BY <1>2, <1>5, TypedVars, Zenon
  <2>2. ASSUME NEW d \in Configured(entities'), d # cur PROVE d \in todo' \/ Settled(d)'
    <3>1. d \in Entities /\ entities'[d] = entities[d] /\ d \in Configured(entities)
      BY <1>5, <2>2, Zenon DEF Configured
    <3>2. d \in todo \/ Settled(d)
      BY <1>2, <2>2, <3>1, Zenon DEF Renders
    <3> QED BY <1>2, <1>5, <2>1, <2>2, <3>1, <3>2, SettledFrame, Zenon
  <2> QED BY <1>5, <2>1, <2>2, Zenon
<1>6. CASE Persisted(i, r, q)
  <2>1. /\ ifStates' = [ifStates EXCEPT ![i] = q.st] /\ UNCHANGED <<saved, pc, todo, cur>>
        /\ \A d \in Entities \ {cur} : entities'[d] = entities[d]
        /\ rest' = Tail(rest)
        /\ entities'[cur].status.oper = entities[cur].status.oper
        /\ entities'[cur].status.ifs = [entities[cur].status.ifs EXCEPT ![i] = q.st]
    BY <1>6, Zenon DEF Persisted
  <2>2. /\ \A d \in Configured(entities') : d \in todo' \/ d = cur' \/ Settled(d)'
        /\ ifStates'[i] = q.st /\ \A j \in Ifaces \ {i} : ifStates'[j] = ifStates[j]
    BY <1>5, <2>1, Zenon
  <2>3. entities[cur].status.ifs \in [Ifaces -> IfaceStatuses \cup {None}]
    BY <1>2, TypedFacts, EntityRecordFacts, Zenon
  <2>4. ASSUME entities[cur].status.oper = NoError, NEW j \in IfacesIn(cur)
        PROVE  (\E n \in 1..Len(rest') : rest'[n] = j) \/ entities'[cur].status.ifs[j] = ifStates'[j]
    <3>1. j \in Ifaces
      BY <1>2, OwnerFacts, Zenon
    <3>2. CASE j = i
      BY <2>1, <2>2, <2>3, <3>1, <3>2, Zenon
    <3>3. CASE j # i
      <4>1. (\E n \in 1..Len(rest) : rest[n] = j) \/ entities[cur].status.ifs[j] = ifStates[j]
        BY <1>2, <2>4, Zenon DEF Renders, Underway
      <4>2. ASSUME NEW n \in 1..Len(rest), rest[n] = j PROVE \E m \in 1..Len(rest') : rest'[m] = j
        <5>1. n # 1
          BY <1>1, <1>2, <3>3, <4>2
        <5>2. n - 1 \in 1..Len(Tail(rest)) /\ Tail(rest)[n - 1] = rest[n]
          BY <1>2, <5>1
        <5> QED BY <2>1, <4>2, <5>2, Zenon
      <4>3. entities'[cur].status.ifs[j] = entities[cur].status.ifs[j] /\ ifStates'[j] = ifStates[j]
        BY <2>1, <2>2, <2>3, <3>1, <3>3, Zenon
      <4> QED BY <4>1, <4>2, <4>3, Zenon
    <3> QED BY <3>2, <3>3, Zenon
  <2>5. Underway'
    BY <1>2, <2>1, <2>4, Zenon DEF Underway, Renders
  <2> QED BY <1>2, <2>1, <2>2, <2>5, Zenon DEF Renders
<1>7. CASE Failed(i, r, q)
  <2>1. /\ ifStates' = [ifStates EXCEPT ![i] = None] /\ UNCHANGED <<saved, pc, todo, cur>>
        /\ \A d \in Entities \ {cur} : entities'[d] = entities[d]
        /\ entities'[cur].status.oper = "Down"
    BY <1>7, Zenon DEF Failed
  <2>2. \A d \in Configured(entities') : d \in todo' \/ d = cur' \/ Settled(d)'
    BY <1>5, <2>1, Zenon
  <2>3. Underway'
    BY <2>1, OperFacts, Zenon DEF Underway
  <2> QED BY <1>2, <2>1, <2>2, <2>3, Zenon DEF Renders
<1> QED BY <1>2, <1>3, <1>4, <1>6, <1>7, RenderedEffect, Zenon

LEMMA RendersRenderComplete ==
  ASSUME Typed, Renders, RenderComplete
  PROVE  Renders'
<1>1. /\ cur \in Entities /\ cur # None /\ pc = "render" /\ pc' = "render" /\ rest = <<>> /\ cur' = None
      /\ saved'[cur] = entities'[cur] /\ entities'[cur].status.ifs = entities[cur].status.ifs
      /\ entities'[cur].status.oper = Verdict(entities[cur].status.oper)
      /\ \A d \in Entities \ {cur} : entities'[d] = entities[d] /\ saved'[d] = saved[d]
      /\ UNCHANGED <<ifStates, todo>>
  BY RenderCompleteEffect, NothingAssumption, Zenon
<1>2. Underway
  BY <1>1, Zenon DEF Renders
<1>3. \A i \in IfacesIn(cur) : entities[cur].status.oper = NoError => entities[cur].status.ifs[i] = ifStates[i]
  BY <1>1, <1>2 DEF Underway
<1>4. ASSUME NEW e, e = cur PROVE Settled(e)'
  <2>1. entities'[cur].status.oper \in {"Up", "Down"}
    BY <1>1, OperFacts, Zenon
  <2>2. entities'[cur].status.oper = "Up" => entities[cur].status.oper = NoError
    BY <1>1, OperFacts, Zenon
  <2> QED BY <1>1, <1>3, <1>4, <2>1, <2>2, Zenon DEF Settled
<1>5. ASSUME NEW d \in Configured(entities') PROVE d \in todo' \/ Settled(d)'
  <2>1. CASE d = cur
    BY <1>4, <2>1, Zenon
  <2>2. CASE d # cur
    <3>1. d \in Configured(entities) /\ entities'[d] = entities[d] /\ saved'[d] = saved[d]
      BY <1>1, <2>2, Zenon DEF Configured
    <3>2. d \in todo \/ Settled(d)
      BY <1>1, <2>2, <3>1, Zenon DEF Renders
    <3> QED BY <1>1, <3>1, <3>2, Zenon DEF Settled
  <2> QED BY <2>1, <2>2, Zenon
<1> QED BY <1>1, <1>5, Zenon DEF Renders

LEMMA RendersRenderEnd ==
  ASSUME Typed, Renders, RenderEnd
  PROVE  Renders'
<1>1. /\ pc = "render" /\ cur = None /\ todo = {} /\ pc' = "idle"
      /\ UNCHANGED <<ifStates, entities, saved, cur>>
  BY Zenon DEF RenderEnd, work
<1>2. ASSUME NEW e \in Configured(entities') PROVE Settled(e)'
  <2>1. e \in Configured(entities) /\ e # None
    BY <1>1, NothingAssumption, Zenon DEF Configured
  <2>2. Settled(e)
    BY <1>1, <2>1, Zenon DEF Renders
  <2> QED BY <1>1, <2>2, Zenon DEF Settled
<1> QED BY <1>1, <1>2, Zenon DEF Renders

LEMMA RendersNext == Typed /\ Renders /\ [Next]_vars => Renders'
<1> SUFFICES ASSUME Typed, Renders, [Next]_vars PROVE Renders'
  BY Zenon
<1>1. CASE UNCHANGED vars
  BY <1>1, Zenon DEF vars, work, Renders, Settled, Underway
<1>2. CASE Start
  <2>1. pc' \in {"boot", "panic"} /\ cur' = cur /\ pc \notin {"boot", "idle", "render"}
    BY <1>2, StartEffect, Zenon DEF Started, Up, work
  <2>2. cur = None
    BY <2>1, TypedVars, Zenon
  <2> QED BY <2>1, <2>2, Zenon DEF Renders
<1>3. CASE BootRender
  <2>1. pc = "boot" /\ pc' = "render" /\ todo' = Configured(entities') /\ cur' = cur
    BY <1>3, Zenon DEF BootRender
  <2>2. cur = None
    BY <2>1, TypedVars, Zenon
  <2> QED BY <2>1, <2>2, Zenon DEF Renders
<1>4. CASE Crash
  <2>1. pc' = "down" /\ cur' = None
    BY <1>4, Zenon DEF Crash, ClearRAM
  <2> QED BY <2>1, Zenon DEF Renders
<1>5. ASSUME NEW p \in Pools, PoolD(p) PROVE Renders'
  <2>1. UNCHANGED entities /\ pc = "idle" /\ \E kind : Request(kind) /\ RenderIfRunning(entities)
    BY <1>5, Zenon DEF PoolD
  <2>2. RequestMade
    BY <2>1, Zenon DEF Request, RenderIfRunning, RequestMade
  <2> QED BY <2>2, RendersRequest, Zenon
<1>6. ASSUME NEW i \in Ifaces, NEW n \in Hosts, Move(i, n) PROVE Renders'
  <2>1. UNCHANGED entities /\ pc = "idle" /\ \E kind : Request(kind) /\ RenderIfRunning(entities)
    BY <1>6, Zenon DEF Move
  <2>2. RequestMade
    BY <2>1, Zenon DEF Request, RenderIfRunning, RequestMade
  <2> QED BY <2>2, RendersRequest, Zenon
<1>7. ASSUME NEW p \in Pools, NEW spec \in PoolSpecs, PoolCU(p, spec) PROVE Renders'
  BY <1>7, PoolCUEffect, RendersRequest, Zenon
<1>8. ASSUME NEW e \in Entities, EntityD(e) PROVE Renders'
  BY <1>8, EntityDEffect, RendersRequest, Zenon
<1>9. ASSUME NEW e \in Entities, NEW spec \in SpecsOf(e), EntityCU(e, spec) PROVE Renders'
  BY <1>9, EntityCUEffect, RendersRequest, Zenon
<1> QED BY <1>1, <1>2, <1>3, <1>4, <1>5, <1>6, <1>7, <1>8, <1>9, RendersRenderStart, RendersRenderInterface,
           RendersRenderComplete, RendersRenderEnd, Zenon DEF Next

\* At rest, what etcd holds of an entity that is up is what the cache holds, and
\* its interface statuses are those of ramCache.InterfaceStates: whatever the
\* requests, failed renderings, panics and crashes before, renderComplete saved
\* what InitInterfaceStatus had put in RAM.
THEOREM RestartKeepsAddressesHolds == Spec => []RestartKeepsAddresses
<1>1. Init => Typed /\ Renders
  BY TypedInit, Zenon DEF Init, NoWork, Renders
<1>2. Typed /\ Renders /\ [Next]_vars => (Typed /\ Renders)'
  BY TypedNext, RendersNext, Zenon
<1>3. Typed /\ Renders => RestartKeepsAddresses
  <2> SUFFICES ASSUME Typed, Renders, pc = "idle", NEW e \in Configured(entities),
                      entities[e].status.oper = "Up"
               PROVE  /\ saved[e] = entities[e]
                      /\ \A n \in 1..Len(IfacesOf[e]) :
                           saved[e].status.ifs[IfacesOf[e][n]] = ifStates[IfacesOf[e][n]]
    BY Zenon DEF RestartKeepsAddresses
  <2>1. saved[e] = entities[e] /\ \A i \in IfacesIn(e) : saved[e].status.ifs[i] = ifStates[i]
    BY DEF Renders, Settled
  <2>2. \A n \in 1..Len(IfacesOf[e]) : IfacesOf[e][n] \in IfacesIn(e)
    BY Zenon DEF IfacesIn
  <2> QED BY <2>1, <2>2, Zenon
<1> QED BY <1>1, <1>2, <1>3, PTL DEF Spec

-----------------------------------------------------------------------------
(* Statuses without a number.                                              *)

\* An interface status that holds no number is that of an interface whose spec
\* names no pool.
NumberedRecord(e, r) ==
  \A i \in IfacesIn(e) :
    r.status.ifs[i] # None /\ Held(r.status.ifs[i]) = {} => r.spec[i].pools = <<>>
Numbered(es) == \A e \in Entities : es[e] # None => NumberedRecord(e, es[e])

AllNumbered == Numbered(entities) /\ Numbered(saved)

\* One record of an entity map changes.
LEMMA NumberedUpdate ==
  ASSUME NEW es, NEW fs, NEW e \in Entities, Numbered(es),
         \A d \in Entities \ {e} : fs[d] = es[d],
         fs[e] # None => NumberedRecord(e, fs[e])
  PROVE  Numbered(fs)
BY Zenon DEF Numbered

LEMMA NumberedStart ==
  ASSUME Typed, AllNumbered, Start
  PROVE  AllNumbered'
<1>1. /\ \A e \in Entities : saved[e] = None => entities'[e] = None
      /\ \A e \in Entities : saved[e] # None =>
           /\ entities'[e].spec = saved[e].spec
           /\ \A i \in Ifaces : entities'[e].status.ifs[i] = Reloaded(saved[e].status.ifs[i])
      /\ saved' = saved
  BY StartEffect, ZenonT(30) DEF Started
<1>2. ASSUME NEW e \in Entities, entities'[e] # None, NEW i \in IfacesIn(e),
             entities'[e].status.ifs[i] # None, Held(entities'[e].status.ifs[i]) = {}
      PROVE  entities'[e].spec[i].pools = <<>>
  <2>1. i \in Ifaces /\ saved[e] # None
    BY <1>1, <1>2, OwnerFacts, Zenon
  <2>2. PICK st \in IfaceStatuses \cup {None} : st = saved[e].status.ifs[i]
    BY <2>1, TypedFacts, EntityRecordFacts, ZenonT(30)
  <2>3. Reloaded(st) # None /\ Held(Reloaded(st)) = {}
    BY <1>1, <1>2, <2>1, <2>2, Zenon
  <2>4. st # None /\ Held(st) = {}
    BY <2>3, ReloadedFacts, Zenon
  <2> QED BY <1>1, <2>1, <2>2, <2>4, Zenon DEF AllNumbered, Numbered, NumberedRecord
<1>3. PICK es : es = entities'
  BY Zenon
<1>4. Numbered(es)
  BY <1>2, <1>3, Zenon DEF Numbered, NumberedRecord
<1> QED BY <1>1, <1>3, <1>4, Zenon DEF AllNumbered, Numbered

LEMMA NumberedRenderInterface ==
  ASSUME Typed, AllNumbered, RenderInterface
  PROVE  AllNumbered'
<1>1. PICK i : i = Head(rest)
  BY Zenon
<1>2. cur \in Entities /\ entities[cur] # None /\ i \in Ifaces /\ i \in IfacesIn(cur)
  BY <1>1, RenderInterfaceEffect, Zenon
<1>3. PICK r \in Results, q \in Results : RenderedInterface(i, r, q)
  BY <1>1, RenderInterfaceEffect, Zenon
<1>4. PICK e, es, fs, ss : e = cur /\ es = entities /\ fs = entities' /\ ss = saved'
  BY Zenon
<1>5. PICK ifs, pls : ifs = es[e].status.ifs /\ pls = es[e].spec[i].pools
  BY Zenon
<1>6. ifs \in [Ifaces -> IfaceStatuses \cup {None}] /\ pls \in Seq(Pools)
  <2>1. es[e].spec[i] \in IfaceSpecs
    BY <1>2, <1>4, TypedFacts, EntityRecordFacts, SpecFacts, Zenon
  <2>2. pls \in Seq(Pools)
    BY <1>5, <2>1, IfaceSpecsAssumption, Zenon
  <2> QED BY <1>2, <1>4, <1>5, <2>2, TypedFacts, EntityRecordFacts, Zenon
<1>7. \A j \in IfacesIn(e) : ifs[j] # None /\ Held(ifs[j]) = {} => es[e].spec[j].pools = <<>>
  BY <1>2, <1>4, <1>5, Zenon DEF AllNumbered, Numbered, NumberedRecord
<1>8. \A j \in IfacesIn(e) : j \in Ifaces
  BY <1>2, <1>4, OwnerFacts, Zenon
<1>9. CASE Panicked(r, q)
  <2>1. /\ ClearRAM /\ ss[e].spec = es[e].spec /\ ss[e].status.ifs = ifs
        /\ \A d \in Entities \ {e} : ss[d] = saved[d]
    BY <1>4, <1>5, <1>9, Zenon DEF Panicked
  <2>2. NumberedRecord(e, ss[e])
    BY <1>7, <2>1, Zenon DEF NumberedRecord
  <2>3. Numbered(ss)
    BY <1>2, <1>4, <2>1, <2>2, NumberedUpdate DEF AllNumbered
  <2>4. Numbered(fs)
    BY <1>4, <2>1, ClearedTypes, Zenon DEF Numbered
  <2> QED BY <1>4, <2>3, <2>4, Zenon DEF AllNumbered, Numbered
<1>10. ASSUME NEW x, fs[e].spec = es[e].spec, fs[e].status.ifs = [ifs EXCEPT ![i] = x],
              \A d \in Entities \ {e} : fs[d] = es[d], saved' = saved,
              x # None /\ Held(x) = {} => pls = <<>>
       PROVE  AllNumbered'
  <2>1. ASSUME NEW j \in IfacesIn(e), fs[e].status.ifs[j] # None, Held(fs[e].status.ifs[j]) = {}
        PROVE  fs[e].spec[j].pools = <<>>
    <3>1. CASE j = i
      BY <1>2, <1>5, <1>6, <1>10, <2>1, <3>1, Zenon
    <3>2. CASE j # i
      <4>1. fs[e].status.ifs[j] = ifs[j]
        BY <1>6, <1>8, <1>10, <3>2, Zenon
      <4> QED BY <1>7, <1>10, <2>1, <4>1, Zenon
    <3> QED BY <3>1, <3>2, Zenon
  <2>3. NumberedRecord(e, fs[e])
    BY <2>1, Zenon DEF NumberedRecord
  <2>2. Numbered(fs)
    BY <1>2, <1>4, <1>10, <2>3, NumberedUpdate DEF AllNumbered
  <2> QED BY <1>4, <1>10, <2>2, Zenon DEF AllNumbered, Numbered
<1>11. CASE q.end = "ok" /\ Persisted(i, r, q)
  <2>1. \A n \in 1..Len(pls) : q.st.nums[pls[n]] # None
    BY <1>3, <1>4, <1>5, <1>11, Zenon DEF RenderedInterface
  <2>2. Held(q.st) = {} => pls = <<>>
    <3> SUFFICES ASSUME pls # <<>> PROVE Held(q.st) # {}
      BY Zenon
    <3>1. 1 \in 1..Len(pls) /\ pls[1] \in Pools
      BY <1>6
    <3> QED BY <2>1, <3>1, Zenon DEF Held
  <2>3. /\ fs[e].spec = es[e].spec /\ fs[e].status.ifs = [ifs EXCEPT ![i] = q.st]
        /\ \A d \in Entities \ {e} : fs[d] = es[d]
        /\ saved' = saved
    BY <1>4, <1>5, <1>11, Zenon DEF Persisted
  <2> QED BY <1>10, <2>2, <2>3, Zenon
<1>12. CASE Failed(i, r, q)
  <2>1. /\ fs[e].spec = es[e].spec /\ fs[e].status.ifs = [ifs EXCEPT ![i] = None]
        /\ \A d \in Entities \ {e} : fs[d] = es[d]
        /\ saved' = saved
    BY <1>4, <1>5, <1>12, Zenon DEF Failed
  <2> QED BY <1>10, <2>1, Zenon
<1> QED BY <1>2, <1>3, <1>9, <1>11, <1>12, RenderedEffect, Zenon

LEMMA NumberedNext == Typed /\ AllNumbered /\ [Next]_vars => AllNumbered'
<1> SUFFICES ASSUME Typed, AllNumbered, [Next]_vars PROVE AllNumbered'
  BY Zenon
<1>1. ASSUME UNCHANGED <<entities, saved>> PROVE AllNumbered'
  BY <1>1, Zenon DEF AllNumbered, Numbered
<1>2. CASE UNCHANGED vars
  BY <1>1, <1>2, Zenon DEF vars
<1>3. CASE Crash
  <2>1. ClearRAM /\ saved' = saved
    BY <1>3, Zenon DEF Crash
  <2> QED BY <2>1, ClearedTypes, Zenon DEF AllNumbered, Numbered
<1>4. ASSUME NEW p \in Pools, NEW spec \in PoolSpecs, PoolCU(p, spec) PROVE AllNumbered'
  BY <1>1, <1>4, PoolCUEffect, Zenon
<1>5. ASSUME NEW p \in Pools, PoolD(p) PROVE AllNumbered'
  BY <1>1, <1>5, Zenon DEF PoolD
<1>6. ASSUME NEW i \in Ifaces, NEW n \in Hosts, Move(i, n) PROVE AllNumbered'
  BY <1>1, <1>6, Zenon DEF Move
<1>7. CASE BootRender
  BY <1>1, <1>7, Zenon DEF BootRender
<1>8. CASE RenderEnd
  BY <1>1, <1>8, Zenon DEF RenderEnd
<1>9. ASSUME NEW e \in Entities, EntityD(e) PROVE AllNumbered'
  <2>1. PICK fs, ss : fs = entities' /\ ss = saved'
    BY Zenon
  <2>2. fs[e] = None /\ ss[e] = None /\ \A d \in Entities \ {e} : fs[d] = entities[d] /\ ss[d] = saved[d]
    BY <1>9, <2>1, EntityDEffect, Zenon
  <2>3. Numbered(fs) /\ Numbered(ss)
    BY <2>2, NumberedUpdate, Zenon DEF AllNumbered
  <2> QED BY <2>1, <2>3, Zenon DEF AllNumbered, Numbered
<1>10. ASSUME NEW e \in Entities, NEW spec \in SpecsOf(e), EntityCU(e, spec) PROVE AllNumbered'
  <2>1. PICK fs, ss : fs = entities' /\ ss = saved'
    BY Zenon
  <2>2. /\ fs[e] = [spec |-> spec, status |-> NilStatus] /\ ss[e] = fs[e]
        /\ \A d \in Entities \ {e} : fs[d] = entities[d] /\ ss[d] = saved[d]
    BY <1>10, <2>1, EntityCUEffect, ZenonT(30)
  <2>3. NumberedRecord(e, fs[e])
    <3>1. \A i \in IfacesIn(e) : fs[e].status.ifs[i] = None
      BY <2>2, OwnerFacts DEF NilStatus, NoStatuses
    <3> QED BY <3>1, Zenon DEF NumberedRecord
  <2>4. Numbered(fs) /\ Numbered(ss)
    BY <2>2, <2>3, NumberedUpdate, Zenon DEF AllNumbered
  <2> QED BY <2>1, <2>4, Zenon DEF AllNumbered, Numbered
<1>11. ASSUME NEW e \in Entities, RenderStart(e) PROVE AllNumbered'
  <2>1. PICK fs : fs = entities'
    BY Zenon
  <2>2. fs[e].status.ifs = NoStatuses /\ saved' = saved /\ \A d \in Entities \ {e} : fs[d] = entities[d]
    BY <1>11, <2>1, RenderStartEffect, Zenon
  <2>3. NumberedRecord(e, fs[e])
    <3>1. \A i \in IfacesIn(e) : fs[e].status.ifs[i] = None
      BY <2>2, OwnerFacts, Zenon DEF NoStatuses
    <3> QED BY <3>1, Zenon DEF NumberedRecord
  <2>4. Numbered(fs)
    BY <2>2, <2>3, NumberedUpdate, Zenon DEF AllNumbered
  <2> QED BY <2>1, <2>2, <2>4, Zenon DEF AllNumbered, Numbered
<1>12. CASE RenderComplete
  <2>1. PICK e, fs, ss : e = cur /\ fs = entities' /\ ss = saved'
    BY Zenon
  <2>2. /\ e \in Entities /\ entities[e] # None /\ ss[e] = fs[e]
        /\ fs[e].spec = entities[e].spec /\ fs[e].status.ifs = entities[e].status.ifs
        /\ \A d \in Entities \ {e} : fs[d] = entities[d] /\ ss[d] = saved[d]
    BY <1>12, <2>1, RenderCompleteEffect, Zenon
  <2>3. NumberedRecord(e, fs[e])
    BY <2>2, Zenon DEF AllNumbered, Numbered, NumberedRecord
  <2>4. Numbered(fs) /\ Numbered(ss)
    BY <2>2, <2>3, NumberedUpdate DEF AllNumbered
  <2> QED BY <2>1, <2>4, Zenon DEF AllNumbered, Numbered
<1> QED BY <1>2, <1>3, <1>4, <1>5, <1>6, <1>7, <1>8, <1>9, <1>10, <1>11, <1>12,
           NumberedStart, NumberedRenderInterface, Zenon DEF Next

\* A panic of InitInterfaceStatus on an IpamPoolNums map that etcd gave back as
\* nil cannot repeat at the next start: whatever the requests and crashes, no
\* status in etcd has an empty map for an interface whose spec names a pool,
\* because PersistInterfaceStatus follows only an allocation from every one.
THEOREM NoPanicLoopHolds == Spec => []NoPanicLoop
<1>1. Init => Typed /\ AllNumbered
  BY TypedInit, Zenon DEF Init, NoEntities, AllNumbered, Numbered
<1>2. Typed /\ AllNumbered /\ [Next]_vars => (Typed /\ AllNumbered)'
  BY TypedNext, NumberedNext, Zenon
<1>3. Typed /\ AllNumbered => NoPanicLoop
  <2> SUFFICES ASSUME Typed, AllNumbered, NEW i \in Ifaces, LoadedStates[i] # None, ~LoadedStates[i].made
               PROVE  saved[Owner(i)].spec[i].pools = <<>>
    BY Zenon DEF NoPanicLoop
  <2>1. PICK st \in IfaceStatuses \cup {None} : st = SavedStates[i]
    BY SavedStatesFacts, TypedFacts, Zenon
  <2>2. LoadedStates[i] = Reloaded(st)
    BY <2>1, SavedStatesFacts, TypedFacts, Zenon
  <2>3. st # None
    BY <2>2, ReloadedFacts, Zenon
  <2>4. Held(st) = {}
    <3>1. Reloaded(st) = [st EXCEPT !.made = Held(st) # {}]
      BY <2>3, Zenon DEF Reloaded
    <3>2. PICK b \in BOOLEAN : b = (Held(st) # {})
      BY Zenon
    <3>3. st \in IfaceStatuses
      BY <2>3, Zenon
    <3>4. Reloaded(st).made = b
      BY <3>1, <3>2, <3>3, Zenon DEF IfaceStatuses
    <3> QED BY <2>2, <3>2, <3>4, Zenon
  <2>5. saved[Owner(i)] # None /\ st = saved[Owner(i)].status.ifs[i]
    BY <2>1, <2>3, SavedStatesFacts, TypedFacts, Zenon
  <2> QED BY <2>3, <2>4, <2>5, OwnerFacts, Zenon DEF AllNumbered, Numbered, NumberedRecord
<1> QED BY <1>1, <1>2, <1>3, PTL DEF Spec

-----------------------------------------------------------------------------
(* That no address is held twice.                                          *)

\* Pools and nodes only come, services are changed or, once they are up,
\* deleted, and no pod moves.
SteadyRequests == Requests \subseteq {"setPool", "set", "delete"}

\* No range ends at the largest number, where the first loop of
\* AllocateIPAddress would leave the range.
BoundedRanges == \A spec \in PoolSpecs : NewIPAMPoolAllocator(spec).end # MaxU32

\* The allocator that interface i has its number of pool p from.
Name(i, p) == AllocatorName(p, NodeOf(i), Owner(i))

\* No two statuses of m hold the same number of one allocator.
Distinct(m) ==
  \A i, j \in Ifaces, p \in Pools :
    i # j /\ m[i] # None /\ m[j] # None /\ pools[p] # None /\ Name(i, p) = Name(j, p)
    /\ m[i].nums[p] # None => m[i].nums[p] # m[j].nums[p]

\* A number that the allocator made for the pool at a start takes back.
Restorable(i, p, x) ==
  /\ pools[p] # None /\ ~pools[p].v6 /\ Name(i, p) \in Wanted(pools, Configured(saved))
  /\ InRange(NewIPAMPoolAllocator(pools[p]), x)
Stored(i, st) == st.node = NodeOf(i) /\ \A p \in Held(st) : Restorable(i, p, st.nums[p])
StoredOK == \A i \in Ifaces : SavedStates[i] # None => Stored(i, SavedStates[i])

\* The statuses of an entity are of its own interfaces.
Own(es) == \A e \in Entities : es[e] # None =>
             \A i \in Ifaces : es[e].status.ifs[i] # None => i \in IfacesIn(e)

SameKnown == \A e \in Entities : saved[e] = None <=> entities[e] = None

Cached == \A e \in Entities : entities[e] # None => \A i \in IfacesIn(e) :
            entities[e].status.ifs[i] # None => entities[e].status.ifs[i] = ifStates[i]

\* RAM has the numbers etcd has, but for an entity whose rendering has failed
\* and is not complete.
CoveredBy(st, x) == x # None /\ \A p \in Held(st) : x.nums[p] = st.nums[p]
Covers ==
  \A i \in Ifaces : SavedStates[i] # None /\ ~(Owner(i) = cur /\ entities[cur].status.oper = "Down") =>
    CoveredBy(SavedStates[i], ifStates[i])

\* The numbers held are marked.
MarkedIn(al, i, st) ==
  \A p \in Held(st) : al[Name(i, p)] \in Allocators /\ st.nums[p] \in al[Name(i, p)].allocated
Marked == \A i \in Ifaces : ifStates[i] # None => Stored(i, ifStates[i]) /\ MarkedIn(allocators, i, ifStates[i])

\* An allocator has the range of its pool, and is one a start would make.
MadeFor(n, a) ==
  /\ n \in Wanted(pools, Configured(saved)) /\ ~pools[n[2]].v6 /\ Sound(a)
  /\ a.start = NewIPAMPoolAllocator(pools[n[2]]).start /\ a.end = NewIPAMPoolAllocator(pools[n[2]]).end
Made == \A n \in AllocatorNames : allocators[n] \in Allocators => MadeFor(n, allocators[n])

InRAM == SameKnown /\ Cached /\ Covers /\ Marked /\ Made /\ Distinct(ifStates)
Unique == Own(entities) /\ Own(saved) /\ StoredOK /\ Distinct(SavedStates) /\ (Up => InRAM)

LEMMA NameOf ==
  ASSUME Typed, NEW i \in Ifaces, NEW p \in Pools, pools[p] # None
  PROVE  /\ Name(i, p) \in AllocatorNames /\ Name(i, p)[1] = pools[p].scope /\ Name(i, p)[2] = p
         /\ pools[p] \in PoolSpecs /\ pools[p].scope \in Scopes
         /\ Name(i, p)[1] = ScopeService => Name(i, p)[3] = Owner(i)
         /\ Name(i, p)[1] = ScopeNode => Name(i, p)[3] = NodeOf(i)
<1>1. NodeOf(i) \in Nodes /\ Owner(i) \in Entities
  BY NodeOfType, OwnerFacts, TypedFacts, Zenon
<1>2. /\ Name(i, p) \in AllocatorNames /\ Name(i, p)[1] = pools[p].scope /\ Name(i, p)[2] = p
      /\ pools[p] \in PoolSpecs /\ pools[p].scope \in Scopes
  BY <1>1, NameFacts, TypedFacts, Zenon DEF Name
<1>3. Name(i, p) = <<pools[p].scope, p, CASE pools[p].scope = ScopeSystem  -> None
                                          [] pools[p].scope = ScopeNode    -> NodeOf(i)
                                          [] pools[p].scope = ScopeService -> Owner(i)>>
  BY Zenon DEF Name, AllocatorName
<1>4. ASSUME pools[p].scope = ScopeService PROVE Name(i, p)[3] = Owner(i)
  BY <1>3, <1>4 DEF ScopeSystem, ScopeNode, ScopeService
<1>5. ASSUME pools[p].scope = ScopeNode PROVE Name(i, p)[3] = NodeOf(i)
  BY <1>3, <1>5 DEF ScopeSystem, ScopeNode, ScopeService
<1> HIDE DEF Name
<1> QED BY <1>2, <1>4, <1>5, Zenon

LEMMA NameFrame ==
  ASSUME NEW i, NEW p, UNCHANGED host, pools'[p] = pools[p]
  PROVE  Name(i, p)' = Name(i, p)
BY Zenon DEF Name, AllocatorName, NodeOf

\* Pools that are known stay as they are, and so do hosts; entities only come.
Grew ==
  /\ UNCHANGED host /\ \A p \in Pools : pools[p] # None => pools'[p] = pools[p]
  /\ \A e \in Entities : saved[e] # None => saved'[e] # None

LEMMA RestorableFrame ==
  ASSUME Typed, Grew, NEW i \in Ifaces, NEW p \in Pools, NEW x, Restorable(i, p, x)
  PROVE  Restorable(i, p, x)' /\ Name(i, p)' = Name(i, p)
<1>1. pools[p] # None /\ pools'[p] = pools[p]
  BY Zenon DEF Restorable, Grew
<1>6. Name(i, p)' = Name(i, p)
  BY <1>1, NameFrame, Zenon DEF Grew
<1>2. Name(i, p)' = Name(i, p) /\ Name(i, p)[2] = p
  BY <1>1, <1>6, NameOf, ZenonT(30)
<1>3. Configured(saved) \subseteq Configured(saved')
  BY Zenon DEF Grew, Configured
<1>4. PICK n : n = Name(i, p)
  BY Zenon
<1>5. n \in Wanted(pools', Configured(saved'))
  BY <1>1, <1>2, <1>3, <1>4, WantedFrame, Zenon DEF Restorable
<1> QED BY <1>1, <1>2, <1>4, <1>5, Zenon DEF Restorable

LEMMA StoredFrame ==
  ASSUME Typed, Grew, NEW i \in Ifaces, NEW st, Stored(i, st)
  PROVE  Stored(i, st)' /\ \A p \in Held(st) : Name(i, p)' = Name(i, p) /\ pools[p] # None
<1>1. NodeOf(i)' = NodeOf(i)
  BY Zenon DEF Grew, NodeOf
<1>2. \A p \in Held(st) : p \in Pools
  BY Zenon DEF Held
<1>3. \A p \in Held(st) : Restorable(i, p, st.nums[p])' /\ Name(i, p)' = Name(i, p)
  BY <1>2, RestorableFrame, Zenon DEF Stored
<1> QED BY <1>1, <1>3, Zenon DEF Stored, Restorable

\* A map m1 that has no other numbers than m.
LEMMA DistinctFrame ==
  ASSUME Typed, Grew, NEW m, NEW m1, Distinct(m),
         \A i \in Ifaces : m1[i] # None => /\ m[i] # None /\ Stored(i, m[i])
                                           /\ \A p \in Pools : m1[i].nums[p] # None => m1[i].nums[p] = m[i].nums[p]
  PROVE  Distinct(m1)'
<1> SUFFICES ASSUME NEW i \in Ifaces, NEW j \in Ifaces, NEW p \in Pools, i # j, m1[i] # None, m1[j] # None,
                    pools'[p] # None, Name(i, p)' = Name(j, p)', m1[i].nums[p] # None
             PROVE  m1[i].nums[p] # m1[j].nums[p]
  BY DEF Distinct
<1>1. CASE m1[j].nums[p] = None
  BY <1>1, Zenon
<1>2. CASE m1[j].nums[p] # None
  <2>1. /\ m1[i].nums[p] = m[i].nums[p] /\ m1[j].nums[p] = m[j].nums[p] /\ m[i] # None /\ m[j] # None
        /\ p \in Held(m[i]) /\ p \in Held(m[j])
    BY <1>2, Zenon DEF Held
  <2>2. Name(i, p)' = Name(i, p) /\ pools[p] # None
    BY <2>1, StoredFrame, Zenon
  <2>3. Name(j, p)' = Name(j, p)
    BY <2>1, StoredFrame, Zenon
  <2>4. Name(i, p) = Name(j, p)
    BY <2>2, <2>3, Zenon
  <2>5. m[i].nums[p] # m[j].nums[p]
    BY <2>1, <2>2, <2>4, Zenon DEF Distinct, Held
  <2> QED BY <2>1, <2>5, Zenon
<1> QED BY <1>1, <1>2, Zenon

LEMMA SavedFrame ==
  ASSUME Typed, Unique, Grew, \A i \in Ifaces : SavedStates'[i] = None \/ SavedStates'[i] = SavedStates[i]
  PROVE  StoredOK' /\ Distinct(SavedStates)'
<1>1. PICK m, m1 : m = SavedStates /\ m1 = SavedStates'
  BY Zenon
<1>2. \A i \in Ifaces : m1[i] # None => m1[i] = m[i]
  BY <1>1, Zenon
<1>3. \A i \in Ifaces : m[i] # None => Stored(i, m[i])
  BY <1>1, Zenon DEF Unique, StoredOK
<1>4. Distinct(m)
  BY <1>1, Zenon DEF Unique, Distinct
<1>5. Distinct(m1)'
  BY <1>2, <1>3, <1>4, DistinctFrame, Zenon
<1>6. \A i \in Ifaces : m1[i] # None => Stored(i, m1[i])'
  BY <1>2, <1>3, StoredFrame, Zenon
<1>7. StoredOK'
  BY <1>1, <1>6, Zenon DEF StoredOK
<1>8. Distinct(SavedStates)'
  BY <1>1, <1>5, Zenon DEF Distinct
<1> QED BY <1>7, <1>8, Zenon

LEMMA MarkedFrame ==
  ASSUME Typed, Grew, NEW i \in Ifaces, NEW st, NEW al1, Stored(i, st), MarkedIn(allocators, i, st),
         \A n \in AllocatorNames : allocators[n] \in Allocators =>
            al1[n] \in Allocators /\ allocators[n].allocated \subseteq al1[n].allocated
  PROVE  Stored(i, st)' /\ MarkedIn(al1, i, st)'
<1>1. Stored(i, st)' /\ \A p \in Held(st) : Name(i, p)' = Name(i, p) /\ pools[p] # None
  BY StoredFrame, Zenon
<1>2. ASSUME NEW p \in Held(st)
      PROVE  al1[Name(i, p)'] \in Allocators /\ st.nums[p] \in al1[Name(i, p)'].allocated
  <2>1. p \in Pools
    BY Zenon DEF Held
  <2>2. Name(i, p) \in AllocatorNames
    BY <1>1, <2>1, NameOf, Zenon
  <2>3. allocators[Name(i, p)] \in Allocators /\ st.nums[p] \in allocators[Name(i, p)].allocated
    BY Zenon DEF MarkedIn
  <2>4. /\ al1[Name(i, p)] \in Allocators
        /\ allocators[Name(i, p)].allocated \subseteq al1[Name(i, p)].allocated
    BY <2>2, <2>3, Zenon
  <2>5. Name(i, p)' = Name(i, p)
    BY <1>1, Zenon
  <2> QED BY <2>3, <2>4, <2>5, Zenon
<1>3. MarkedIn(al1, i, st)'
  BY <1>2, Zenon DEF MarkedIn
<1> QED BY <1>1, <1>3, Zenon

LEMMA MadeFrame ==
  ASSUME Typed, Grew, NEW n \in AllocatorNames, NEW a, NEW b, MadeFor(n, a),
         b.start = a.start, b.end = a.end, Sound(b)
  PROVE  MadeFor(n, b)'
<1>1. n[2] \in Pools /\ pools[n[2]] # None /\ n \in Wanted(pools, Configured(saved))
  BY WantedFacts, Zenon DEF MadeFor
<1>2. pools'[n[2]] = pools[n[2]]
  BY <1>1, Zenon DEF Grew
<1>3. Configured(saved) \subseteq Configured(saved')
  BY Zenon DEF Grew, Configured
<1>4. n \in Wanted(pools', Configured(saved'))
  BY <1>1, <1>2, <1>3, WantedFrame, Zenon
<1> QED BY <1>2, <1>4, Zenon DEF MadeFor

\* A step that only adds allocators, and leaves the numbers held.
LEMMA CreateFrame ==
  ASSUME Typed, Unique, Up, Grew, UNCHANGED ifStates, allocators' \in AllocatorMaps,
         \A n \in AllocatorNames : allocators'[n] = allocators[n] \/ allocators[n] = None,
         \A n \in AllocatorNames, a \in Allocators :
            allocators[n] = None /\ allocators'[n] = a => MadeFor(n, a)'
  PROVE  Marked' /\ Made' /\ Distinct(ifStates)'
<1>1. PICK m, al, al1 : m = ifStates /\ al = allocators /\ al1 = allocators'
  BY Zenon
<1>2. None \notin Allocators
  BY RecordsAssumption, Zenon
<1>3. InRAM
  BY Zenon DEF Unique
<1>4. \A n \in AllocatorNames : allocators[n] \in Allocators => al1[n] = allocators[n]
  BY <1>1, <1>2, Zenon
<1>5. \A i \in Ifaces : m[i] # None => Stored(i, m[i]) /\ MarkedIn(allocators, i, m[i])
  BY <1>1, <1>3, Zenon DEF InRAM, Marked
<1>6. \A i \in Ifaces : m[i] # None => Stored(i, m[i])' /\ MarkedIn(al1, i, m[i])'
  BY <1>4, <1>5, MarkedFrame, Zenon
<1>7. Marked'
  BY <1>1, <1>6, Zenon DEF Marked, MarkedIn
<1>8. Distinct(m)'
  <2>1. Distinct(m)
    BY <1>1, <1>3, Zenon DEF InRAM, Distinct
  <2> QED BY <1>5, <2>1, DistinctFrame, Zenon
<1>9. Distinct(ifStates)'
  BY <1>1, <1>8, Zenon DEF Distinct
<1>10. ASSUME NEW n \in AllocatorNames, al1[n] \in Allocators PROVE MadeFor(n, al1[n])'
  <2>1. CASE allocators[n] = None
    BY <1>1, <1>10, <2>1, Zenon
  <2>2. CASE allocators[n] # None
    <3>1. al1[n] = al[n] /\ al[n] = allocators[n]
      BY <1>1, <2>2, Zenon
    <3>2. MadeFor(n, al[n])
      BY <1>3, <1>10, <3>1, Zenon DEF InRAM, Made
    <3>3. Sound(al[n])
      BY <3>2, Zenon DEF MadeFor
    <3> QED BY <3>1, <3>2, <3>3, MadeFrame, Zenon
  <2> QED BY <2>1, <2>2, Zenon
<1>11. Made'
  BY <1>1, <1>10, Zenon DEF Made, MadeFor
<1> QED BY <1>7, <1>9, <1>11, Zenon

LEMMA NewMade ==
  ASSUME BoundedRanges, NEW n, NEW ps, NEW spec \in PoolSpecs, NewAllocator(spec) \in Allocators
  PROVE  /\ ~spec.v6 /\ Sound(NewAllocator(spec))
         /\ NewAllocator(spec) = NewIPAMPoolAllocator(spec)
<1>1. ~spec.v6
  BY NewAllocatorFacts, RecordsAssumption, Zenon
<1>2. NewAllocator(spec) = NewIPAMPoolAllocator(spec)
  BY <1>1, NewAllocatorFacts, Zenon
<1>3. Sound(NewIPAMPoolAllocator(spec))
  BY NewFacts, Zenon DEF BoundedRanges, Sound
<1> QED BY <1>1, <1>2, <1>3, Zenon

LEMMA UniquePoolCU ==
  ASSUME SteadyRequests, BoundedRanges, Typed, Typed', Unique,
         NEW p \in Pools, NEW spec \in PoolSpecs, PoolCU(p, spec)
  PROVE  Unique'
<1>1. /\ RequestMade /\ pools' = [pools EXCEPT ![p] = spec]
      /\ allocators' = EntityCreate(pools', {n \in Wanted(pools', Configured(entities)) : n[1] = spec.scope})
      /\ pools' \in [Pools -> PoolSpecs \cup {None}]
      /\ UNCHANGED <<ifStates, entities, saved, host>>
      /\ (IF pools[p] = None THEN "setPool" ELSE "changePool") \in Requests
  BY PoolCUEffect, Zenon
<1>2. pools[p] = None
  BY <1>1, Zenon DEF SteadyRequests
<1>3. Grew
  BY <1>1, <1>2, TypedVars, Zenon DEF Grew
<1>4. pc \in {"boot", "idle"} /\ cur = None /\ cur' = None
  BY <1>1, RequestTypes, TypedVars, Zenon DEF RequestMade
<1>5. Up /\ InRAM
  BY <1>4, Zenon DEF Up, Unique
<1>6. SavedStates' = SavedStates
  BY <1>1, Zenon DEF SavedStates
<1>7. StoredOK' /\ Distinct(SavedStates)'
  BY <1>3, <1>6, SavedFrame, Zenon
<1>8. Configured(entities) = Configured(saved')
  BY <1>1, <1>5, ZenonT(30) DEF InRAM, SameKnown, Configured
<1>9. PICK names : /\ names = {n \in Wanted(pools', Configured(entities)) : n[1] = spec.scope}
                   /\ allocators' = EntityCreate(pools', names)
  BY <1>1, Zenon
<1>10. PICK ps : ps = pools' /\ ps \in [Pools -> PoolSpecs \cup {None}]
  BY <1>1, Zenon
<1>11. \A n \in AllocatorNames :
          \/ allocators'[n] = allocators[n]
          \/ /\ allocators[n] = None /\ n \in names /\ ps[n[2]] \in PoolSpecs
             /\ allocators'[n] = NewAllocator(ps[n[2]])
  BY <1>9, <1>10, EntityCreateFacts, TypedVars
<1>12. ASSUME NEW n \in AllocatorNames, NEW a \in Allocators, allocators[n] = None, allocators'[n] = a
       PROVE  MadeFor(n, a)'
  <2>2. n \in names /\ ps[n[2]] \in PoolSpecs /\ a = NewAllocator(ps[n[2]]) /\ a \in Allocators
    BY <1>11, <1>12, RecordsAssumption, Zenon
  <2>3. n \in Wanted(pools', Configured(saved'))
    BY <1>8, <1>9, <2>2, Zenon
  <2>4. /\ ~ps[n[2]].v6 /\ Sound(a) /\ a = NewIPAMPoolAllocator(ps[n[2]])
    BY <2>2, NewMade, Zenon
  <2> QED BY <1>10, <2>3, <2>4, Zenon DEF MadeFor
<1>13. Marked' /\ Made' /\ Distinct(ifStates)'
  BY <1>1, <1>3, <1>5, <1>11, <1>12, TypedVars, TypedFacts, CreateFrame, ZenonT(30) DEF Typed, TypeOK, AllocatorMaps
<1>14. SameKnown' /\ Cached' /\ Covers'
  BY <1>1, <1>4, <1>5, <1>6, ZenonT(30) DEF InRAM, SameKnown, Cached, Covers
<1>15. Own(entities)' /\ Own(saved)'
  BY <1>1, Zenon DEF Unique, Own
<1> QED BY <1>7, <1>13, <1>14, <1>15, Zenon DEF Unique, InRAM

LEMMA UniqueEntityCU ==
  ASSUME BoundedRanges, Typed, Typed', Unique,
         NEW e \in Entities, NEW spec \in SpecsOf(e), EntityCU(e, spec)
  PROVE  Unique'
<1>1. /\ RequestMade /\ entities'[e] = [spec |-> spec, status |-> NilStatus] /\ saved'[e] = entities'[e]
      /\ entities'[e] # None
      /\ \A d \in Entities \ {e} : entities'[d] = entities[d] /\ saved'[d] = saved[d]
      /\ UNCHANGED <<pools, ifStates, host>>
  BY EntityCUEffect, Zenon
<1>2. PICK names : /\ names = {n \in AllocatorNames : n[1] = ScopeOf(e) /\ n[3] = e}
                   /\ allocators' = EntityCreate(pools, names)
  BY EntityCUEffect, ZenonT(30)
<1>3. Grew
  BY <1>1, Zenon DEF Grew
<1>4. pc \in {"boot", "idle"} /\ cur = None /\ cur' = None
  BY <1>1, RequestTypes, TypedVars, Zenon DEF RequestMade
<1>5. Up /\ InRAM
  BY <1>4, Zenon DEF Up, Unique
<1>6. \A i \in Ifaces : entities'[e].status.ifs[i] = None /\ saved'[e].status.ifs[i] = None
  BY <1>1 DEF NilStatus, NoStatuses
<1>7. \A i \in Ifaces : SavedStates'[i] = None \/ SavedStates'[i] = SavedStates[i]
  BY <1>1, <1>6, OwnerFacts, Zenon DEF SavedStates
<1>8. StoredOK' /\ Distinct(SavedStates)'
  BY <1>3, <1>7, SavedFrame, Zenon
<1>9. \A n \in AllocatorNames :
          \/ allocators'[n] = allocators[n]
          \/ /\ allocators[n] = None /\ n \in names /\ n \in Wanted(pools, Entities)
             /\ pools[n[2]] \in PoolSpecs /\ allocators'[n] = NewAllocator(pools[n[2]])
  BY <1>2, EntityCreateFacts, TypedVars
<1>10. ASSUME NEW n \in AllocatorNames, NEW a \in Allocators, allocators[n] = None, allocators'[n] = a
       PROVE  MadeFor(n, a)'
  <2>1. /\ n \in names /\ n \in Wanted(pools, Entities) /\ pools[n[2]] \in PoolSpecs
        /\ a = NewAllocator(pools[n[2]])
    BY <1>9, <1>10, RecordsAssumption, Zenon
  <2>2. ~pools[n[2]].v6 /\ Sound(a) /\ a = NewIPAMPoolAllocator(pools[n[2]])
    BY <2>1, NewMade, Zenon
  <2>3. n[1] = ScopeOf(e) /\ n[3] = e /\ e \in Configured(saved')
    BY <1>1, <1>2, <2>1, Zenon DEF Configured
  <2>4. n \in Wanted(pools', Configured(saved'))
    <3>1. pools[n[2]] # None /\ pools[n[2]].scope = n[1]
      BY <2>1, WantedFacts, Zenon
    <3>2. CASE e \in Nodes
      BY <1>1, <2>3, <3>1, <3>2, Zenon DEF Wanted, ScopeOf, ScopeSystem, ScopeNode, ScopeService
    <3>3. CASE e \notin Nodes
      <4>1. e \in Services /\ n[1] = ScopeService
        BY <2>3, <3>3, Zenon DEF Entities, ScopeOf
      <4> QED BY <1>1, <2>3, <3>1, <4>1, ZenonT(30) DEF Wanted, ScopeSystem, ScopeNode, ScopeService
    <3> QED BY <3>2, <3>3, Zenon
  <2> QED BY <1>1, <2>2, <2>4, Zenon DEF MadeFor
<1>11. allocators' \in AllocatorMaps
  BY Zenon DEF Typed, TypeOK, AllocatorMaps
<1>12. Marked' /\ Made' /\ Distinct(ifStates)'
  BY <1>1, <1>3, <1>5, <1>9, <1>10, <1>11, CreateFrame, Zenon
<1>13. SameKnown' /\ Cached'
  BY <1>1, <1>5, <1>6, OwnerFacts DEF InRAM, SameKnown, Cached
<1>14. Covers'
  <2>1. \A i \in Ifaces : SavedStates[i] # None => CoveredBy(SavedStates[i], ifStates[i])
    BY <1>4, <1>5, OwnerFacts, NothingAssumption, Zenon DEF InRAM, Covers
  <2> QED BY <1>1, <1>7, <2>1 DEF Covers, CoveredBy
<1>15. Own(entities)' /\ Own(saved)'
  <2>1. PICK fs, ss : fs = entities' /\ ss = saved'
    BY Zenon
  <2>2. Own(fs) /\ Own(ss)
    BY <1>1, <1>6, <2>1, Zenon DEF Unique, Own
  <2> QED BY <2>1, <2>2, Zenon DEF Own
<1> QED BY <1>8, <1>12, <1>13, <1>14, <1>15, Zenon DEF Unique, InRAM

LEMMA UniqueEntityD ==
  ASSUME SteadyRequests, Typed, Typed', Renders, Unique, NEW e \in Entities, EntityD(e)
  PROVE  Unique'
<1>1. /\ RequestMade /\ pc = "idle" /\ entities[e] # None
      /\ entities'[e] = None /\ saved'[e] = None
      /\ \A d \in Entities \ {e} : entities'[d] = entities[d] /\ saved'[d] = saved[d]
      /\ ifStates' = [i \in Ifaces |-> IF entities[e].status.ifs[i] # None THEN None ELSE ifStates[i]]
      /\ allocators' = EntityDelete(pools, e, ScopeOf(e))
      /\ UNCHANGED <<pools, host>>
  BY EntityDEffect, Zenon
<1>2. e \notin Nodes /\ entities[e].status.oper # "Down"
  BY EntityDEffect, Zenon DEF SteadyRequests
<1>3. e \in Services /\ ScopeOf(e) = ScopeService
  BY <1>2, Zenon DEF Entities, ScopeOf
<1>4. Up /\ InRAM /\ cur = None /\ cur' = None
  BY <1>1, TypedVars, RequestTypes, Zenon DEF Up, Unique
<1>5. \A i \in IfacesIn(e) : entities[e].status.ifs[i] = ifStates[i]
  <2>1. Settled(e)
    BY <1>1, ZenonT(30) DEF Renders, Configured
  <2> QED BY <1>2, <2>1, Zenon DEF Settled
<1>6. \A i \in Ifaces : ifStates'[i] = IF Owner(i) = e THEN None ELSE ifStates[i]
  <2> SUFFICES ASSUME NEW i \in Ifaces PROVE ifStates'[i] = IF Owner(i) = e THEN None ELSE ifStates[i]
    BY Zenon
  <2>1. CASE i \in IfacesIn(e)
    BY <1>1, <1>5, <2>1, OwnerFacts, Zenon
  <2>2. CASE i \notin IfacesIn(e)
    BY <1>1, <2>2, OwnerFacts, Zenon DEF Unique, Own
  <2> QED BY <2>1, <2>2, Zenon
<1>7. \A i \in Ifaces : SavedStates'[i] = IF Owner(i) = e THEN None ELSE SavedStates[i]
  BY <1>1, OwnerFacts, ZenonT(30) DEF SavedStates
<1>8. ASSUME NEW n \in Wanted(pools, Configured(saved)), ~(n[1] = ScopeService /\ n[3] = e)
      PROVE  n \in Wanted(pools', Configured(saved'))
  <2>1. \A d \in Configured(saved) : d # e => d \in Configured(saved')
    BY <1>1, ZenonT(30) DEF Configured
  <2>2. n \in AllocatorNames /\ pools[n[2]] # None /\ pools[n[2]].scope = n[1] /\ n[1] \in Scopes
    BY WantedFacts, Zenon DEF AllocatorNames
  <2>3. CASE n[1] = ScopeSystem
    BY <1>1, <1>8, <2>2, <2>3, Zenon DEF Wanted, ScopeSystem, ScopeNode, ScopeService
  <2>4. CASE n[1] = ScopeNode
    BY <1>1, <1>2, <1>8, <2>1, <2>2, <2>4, Zenon DEF Wanted, ScopeSystem, ScopeNode, ScopeService
  <2>5. CASE n[1] = ScopeService
    BY <1>1, <1>8, <2>1, <2>2, <2>5, ZenonT(30) DEF Wanted, ScopeSystem, ScopeNode, ScopeService
  <2> QED BY <2>2, <2>3, <2>4, <2>5, Zenon DEF Scopes
<1>9. ASSUME NEW i \in Ifaces, Owner(i) # e, NEW st, Stored(i, st)
      PROVE  /\ Stored(i, st)'
             /\ \A p \in Held(st) : /\ p \in Pools /\ Name(i, p)' = Name(i, p) /\ Name(i, p) \in AllocatorNames
                                    /\ ~(Name(i, p)[1] = ScopeService /\ Name(i, p)[3] = e)
  <2>1. NodeOf(i)' = NodeOf(i)
    BY <1>1, Zenon DEF NodeOf
  <2>2. ASSUME NEW p \in Held(st)
        PROVE  /\ p \in Pools /\ Name(i, p)' = Name(i, p) /\ Name(i, p) \in AllocatorNames
               /\ ~(Name(i, p)[1] = ScopeService /\ Name(i, p)[3] = e)
               /\ Restorable(i, p, st.nums[p])'
    <3>1. p \in Pools /\ Restorable(i, p, st.nums[p])
      BY <1>9, Zenon DEF Held, Stored
    <3>2. Name(i, p)' = Name(i, p)
      BY <1>1, NameFrame, Zenon
    <3>3. Name(i, p) \in AllocatorNames /\ ~(Name(i, p)[1] = ScopeService /\ Name(i, p)[3] = e)
      BY <1>9, <3>1, NameOf, ZenonT(30) DEF Restorable
    <3>4. Name(i, p) \in Wanted(pools', Configured(saved'))
      BY <1>8, <3>1, <3>3, Zenon DEF Restorable
    <3>5. Restorable(i, p, st.nums[p])'
      BY <1>1, <3>1, <3>2, <3>4, ZenonT(30) DEF Restorable
    <3> QED BY <3>1, <3>2, <3>3, <3>5, Zenon
  <2> QED BY <1>9, <2>1, <2>2, Zenon DEF Stored
<1>10. ASSUME NEW m, NEW m1, Distinct(m), \A i \in Ifaces : m1[i] # None => m1[i] = m[i]
       PROVE  Distinct(m1)'
  <2>1. \A i \in Ifaces, p \in Pools : Name(i, p)' = Name(i, p)
    BY <1>1, NameFrame, Zenon
  <2> SUFFICES ASSUME NEW i \in Ifaces, NEW j \in Ifaces, NEW p \in Pools, i # j, m1[i] # None, m1[j] # None,
                      pools'[p] # None, Name(i, p)' = Name(j, p)', m1[i].nums[p] # None
               PROVE  m1[i].nums[p] # m1[j].nums[p]
    BY Zenon DEF Distinct
  <2>2. Name(i, p) = Name(j, p) /\ pools[p] # None
    BY <1>1, <2>1, Zenon
  <2> QED BY <1>10, <2>2 DEF Distinct
<1>11. StoredOK' /\ Distinct(SavedStates)'
  <2>1. PICK m, m1 : m = SavedStates /\ m1 = SavedStates'
    BY Zenon
  <2>2. \A i \in Ifaces : m1[i] # None => m1[i] = m[i] /\ Owner(i) # e
    BY <1>7, <2>1, Zenon
  <2>3. \A i \in Ifaces : m[i] # None => Stored(i, m[i])
    BY <2>1, Zenon DEF Unique, StoredOK
  <2>4. \A i \in Ifaces : m1[i] # None => Stored(i, m1[i])'
    BY <1>9, <2>2, <2>3, Zenon
  <2>5. Distinct(m)
    BY <2>1, ZenonT(30) DEF Unique, Distinct
  <2>6. Distinct(m1)'
    BY <1>10, <2>2, <2>5, Zenon
  <2>7. StoredOK'
    BY <2>1, <2>4, Zenon DEF StoredOK
  <2>8. Distinct(SavedStates)'
    BY <2>1, <2>6, Zenon DEF Distinct
  <2> QED BY <2>7, <2>8, Zenon
<1>12. PICK al1 : al1 = allocators'
  BY Zenon
<1>13. ASSUME NEW n \in AllocatorNames
       PROVE  \/ al1[n] = allocators[n] /\ ~(n[1] = ScopeService /\ n[3] = e)
              \/ al1[n] \notin Allocators /\ n[1] = ScopeService /\ n[3] = e
              \/ al1[n] = allocators[n] /\ n \notin Wanted(pools, Configured(saved))
  <2>1. al1[n] = IF /\ n[1] = ScopeService /\ pools[n[2]] # None /\ pools[n[2]].scope = ScopeService
                    /\ allocators[n] # Nil /\ n[3] = e
                 THEN None ELSE allocators[n]
    BY <1>1, <1>3, <1>12, Zenon DEF EntityDelete, ScopeService, ScopeSystem
  <2>2. n \in Wanted(pools, Configured(saved)) => pools[n[2]] # None /\ pools[n[2]].scope = n[1]
    BY WantedFacts, Zenon
  <2> QED BY <2>1, <2>2, RecordsAssumption, Zenon
<1>14. Marked' /\ Distinct(ifStates)'
  <2>1. PICK m, m1 : m = ifStates /\ m1 = ifStates'
    BY Zenon
  <2>2. \A i \in Ifaces : m1[i] # None => m1[i] = m[i] /\ Owner(i) # e
    BY <1>6, <2>1, Zenon
  <2>3. \A i \in Ifaces : m[i] # None => Stored(i, m[i]) /\ MarkedIn(allocators, i, m[i])
    BY <1>4, <2>1, Zenon DEF InRAM, Marked
  <2>4. Distinct(m)
    BY <1>4, <2>1, Zenon DEF InRAM, Distinct
  <2>5. Distinct(m1)'
    BY <1>10, <2>2, <2>4, Zenon
  <2>6. ASSUME NEW i \in Ifaces, m1[i] # None
        PROVE  Stored(i, m1[i])' /\ MarkedIn(al1, i, m1[i])'
    <3>1. PICK st : st = m1[i]
      BY Zenon
    <3>2. Owner(i) # e /\ Stored(i, st) /\ MarkedIn(allocators, i, st)
      BY <2>2, <2>3, <2>6, <3>1, Zenon
    <3>3. /\ Stored(i, st)'
          /\ \A p \in Held(st) : /\ p \in Pools /\ Name(i, p)' = Name(i, p) /\ Name(i, p) \in AllocatorNames
                                 /\ ~(Name(i, p)[1] = ScopeService /\ Name(i, p)[3] = e)
      BY <1>9, <3>2, Zenon
    <3>4. ASSUME NEW p \in Held(st)
          PROVE  al1[Name(i, p)'] \in Allocators /\ st.nums[p] \in al1[Name(i, p)'].allocated
      <4>1. Name(i, p)' = Name(i, p)
        BY <3>3, Zenon
      <4>2. al1[Name(i, p)] = allocators[Name(i, p)]
        BY <1>13, <3>3, ZenonT(30)
      <4> QED BY <3>2, <4>1, <4>2, ZenonT(30) DEF MarkedIn
    <3>5. MarkedIn(al1, i, st)'
      BY <3>4, Zenon DEF MarkedIn
    <3> QED BY <3>1, <3>3, <3>5, Zenon
  <2>7. Marked'
    BY <1>12, <2>1, <2>6, Zenon DEF Marked, MarkedIn
  <2> QED BY <2>1, <2>5, <2>7, Zenon DEF Distinct
<1>15. Made'
  <2>1. PICK al : al = allocators
    BY Zenon
  <2>2. ASSUME NEW n \in AllocatorNames, al1[n] \in Allocators PROVE MadeFor(n, al1[n])'
    <3>1. al1[n] = al[n]
      BY <1>13, <2>1, <2>2, Zenon
    <3>2. MadeFor(n, al[n])
      BY <1>4, <2>1, <2>2, <3>1, Zenon DEF InRAM, Made
    <3>3. n \in Wanted(pools, Configured(saved))
      BY <3>2, Zenon DEF MadeFor
    <3>4. ~(n[1] = ScopeService /\ n[3] = e)
      BY <1>13, <2>2, <3>3, Zenon
    <3>5. n \in Wanted(pools', Configured(saved'))
      BY <1>8, <3>3, <3>4, Zenon
    <3>6. MadeFor(n, al[n])'
      BY <1>1, <3>2, <3>5, ZenonT(30) DEF MadeFor
    <3> QED BY <3>1, <3>6, Zenon
  <2> QED BY <1>12, <2>2, ZenonT(30) DEF Made, MadeFor
<1>16. SameKnown' /\ Cached'
  <2>1. SameKnown'
    BY <1>1, <1>4, Zenon DEF InRAM, SameKnown
  <2>2. ASSUME NEW d \in Entities, entities'[d] # None, NEW i \in IfacesIn(d), entities'[d].status.ifs[i] # None
        PROVE  entities'[d].status.ifs[i] = ifStates'[i]
    <3>1. d # e /\ entities'[d] = entities[d]
      BY <1>1, <2>2, Zenon
    <3>2. i \in Ifaces /\ Owner(i) = d
      BY OwnerFacts, Zenon
    <3>3. entities[d].status.ifs[i] = ifStates[i]
      BY <1>4, <2>2, <3>1, Zenon DEF InRAM, Cached
    <3> QED BY <1>6, <3>1, <3>2, <3>3, Zenon
  <2> QED BY <2>1, <2>2, Zenon DEF Cached
<1>17. Covers'
  <2>1. \A i \in Ifaces : SavedStates[i] # None => CoveredBy(SavedStates[i], ifStates[i])
    BY <1>4, OwnerFacts, NothingAssumption, ZenonT(30) DEF InRAM, Covers
  <2> QED BY <1>6, <1>7, <2>1 DEF Covers, CoveredBy
<1>18. Own(entities)' /\ Own(saved)'
  <2>1. PICK fs, ss : fs = entities' /\ ss = saved'
    BY Zenon
  <2>2. Own(fs) /\ Own(ss)
    BY <1>1, <2>1, Zenon DEF Unique, Own
  <2> QED BY <2>1, <2>2, Zenon DEF Own
<1> QED BY <1>11, <1>14, <1>15, <1>16, <1>17, <1>18, Zenon DEF Unique, InRAM

LEMMA UniqueInit == Init => Unique
<1> SUFFICES ASSUME Init PROVE Unique
  BY Zenon
<1>1. /\ \A e \in Entities : entities[e] = None /\ saved[e] = None
      /\ ~Up
  BY Zenon DEF Init, NoEntities, Up
<1>2. \A i \in Ifaces : SavedStates[i] = None
  BY <1>1, OwnerFacts, Zenon DEF SavedStates
<1>3. PICK m, fs, ss : m = SavedStates /\ fs = entities /\ ss = saved
  BY Zenon
<1>4. Distinct(m) /\ Own(fs) /\ Own(ss)
  BY <1>1, <1>2, <1>3, Zenon DEF Distinct, Own
<1>5. StoredOK
  BY <1>2, Zenon DEF StoredOK
<1> QED BY <1>1, <1>3, <1>4, <1>5, Zenon DEF Unique

LEMMA UniqueStored ==
  ASSUME Typed, Unique, UNCHANGED <<pools, saved, host>>
  PROVE  Own(saved)' /\ StoredOK' /\ Distinct(SavedStates)'
<1>1. Grew
  BY Zenon DEF Grew
<1>2. SavedStates' = SavedStates
  BY Zenon DEF SavedStates
<1>3. Own(saved)'
  BY Zenon DEF Unique, Own
<1> QED BY <1>1, <1>2, <1>3, SavedFrame, Zenon

\* Steps that leave all but the place in the work, and steps that lose the RAM.
LEMMA UniqueStill ==
  ASSUME Typed, Unique, UNCHANGED <<pools, allocators, ifStates, entities, saved, host, cur>>, Up' => Up
  PROVE  Unique'
<1>1. Own(entities)' /\ Own(saved)' /\ StoredOK' /\ Distinct(SavedStates)'
  BY UniqueStored, Zenon DEF Unique, Own
<1>2. ASSUME InRAM PROVE SameKnown' /\ Cached' /\ Covers'
  BY <1>2, Zenon DEF InRAM, SameKnown, Cached, Covers, SavedStates
<1>3. ASSUME InRAM PROVE Distinct(ifStates)'
  BY <1>3 DEF InRAM, Distinct, Name, AllocatorName, NodeOf
<1>4. ASSUME InRAM PROVE Marked'
  BY <1>4, ZenonT(30) DEF InRAM, Marked, MarkedIn, Stored, Restorable, Name, AllocatorName, NodeOf
<1>5. ASSUME InRAM PROVE Made'
  BY <1>5, Zenon DEF InRAM, Made, MadeFor
<1> QED BY <1>1, <1>2, <1>3, <1>4, <1>5, Zenon DEF Unique, InRAM

LEMMA UniqueCrash ==
  ASSUME Typed, Unique, Crash
  PROVE  Unique'
<1>1. UNCHANGED <<pools, saved, host>> /\ ~Up' /\ \A e \in Entities : entities'[e] = None
  BY ClearedTypes, Zenon DEF Crash, Up
<1>2. Own(saved)' /\ StoredOK' /\ Distinct(SavedStates)'
  BY <1>1, UniqueStored, Zenon
<1>3. Own(entities)'
  BY <1>1, Zenon DEF Own
<1> QED BY <1>1, <1>2, <1>3, Zenon DEF Unique

\* A number etcd holds is taken back: the loop over IpamPoolNums of a start
\* sets all of them.
LEMMA AllSettable ==
  ASSUME Typed, Unique, BoundedRanges, NEW i \in Ifaces, LoadedStates[i] # None
  PROVE  /\ Settable(Fresh, LoadedStates[i], LoadedStates[i].node, Owner(i)) = Held(LoadedStates[i])
         /\ LoadedStates[i].node = NodeOf(i) /\ Stored(i, LoadedStates[i])
         /\ \A p \in Held(LoadedStates[i]) : Fresh[Name(i, p)] \in Allocators
<1>1. PICK st : st = LoadedStates[i]
  BY Zenon
<1>2. /\ SavedStates[i] \in IfaceStatuses /\ st = Reloaded(SavedStates[i]) /\ SavedStates[i] # None
      /\ st \in IfaceStatuses
  <2>1. /\ SavedStates[i] \in IfaceStatuses \cup {None} /\ LoadedStates[i] = Reloaded(SavedStates[i])
        /\ LoadedStates[i] \in IfaceStatuses \cup {None}
    BY SavedStatesFacts, TypedVars, Zenon
  <2>2. SavedStates[i] # None
    BY <2>1, Zenon DEF Reloaded
  <2> QED BY <1>1, <2>1, <2>2, Zenon
<1>3. Held(st) = Held(SavedStates[i]) /\ st.nums = SavedStates[i].nums /\ st.node = SavedStates[i].node
  BY <1>2, ReloadedFacts, Zenon
<1>4. Stored(i, SavedStates[i])
  BY <1>2, Zenon DEF Unique, StoredOK
<1>5. Stored(i, st)
  BY <1>3, <1>4, Zenon DEF Stored
<1>6. ASSUME NEW p \in Held(st)
      PROVE  /\ Fresh[Name(i, p)] \in Allocators
             /\ p \in Settable(Fresh, st, NodeOf(i), Owner(i))
  <2>1. p \in Pools /\ Restorable(i, p, st.nums[p])
    BY <1>5, Zenon DEF Stored, Held
  <2>2. /\ pools[p] # None /\ ~pools[p].v6 /\ Name(i, p) \in Wanted(pools, Configured(saved))
        /\ InRange(NewIPAMPoolAllocator(pools[p]), st.nums[p])
    BY <2>1, Zenon DEF Restorable
  <2>3. Name(i, p) \in AllocatorNames /\ Name(i, p)[2] = p /\ pools[p] \in PoolSpecs
    BY <2>1, <2>2, NameOf, Zenon
  <2>4. Fresh[Name(i, p)] = NewAllocator(pools[p])
    BY <2>2, <2>3, Zenon DEF Fresh
  <2>5. NewAllocator(pools[p]) = NewIPAMPoolAllocator(pools[p])
    BY <2>2, Zenon DEF NewAllocator
  <2>6. Fresh[Name(i, p)] \in Allocators
    BY <2>3, <2>4, <2>5, NewFacts, Zenon
  <2>7. AllocatorName(p, NodeOf(i), Owner(i)) = Name(i, p)
    BY Zenon DEF Name
  <2>8. Usable(Fresh, p, NodeOf(i), Owner(i)) /\ Fresh[Name(i, p)] # Nil
    BY <2>2, <2>6, <2>7, RecordsAssumption, Zenon DEF Usable
  <2> QED BY <2>2, <2>4, <2>5, <2>6, <2>7, <2>8, Zenon DEF Settable, NilHeld
<1>7. Settable(Fresh, st, NodeOf(i), Owner(i)) = Held(st)
  BY <1>6, Zenon DEF Settable
<1>8. st.node = NodeOf(i)
  BY <1>5, Zenon DEF Stored
<1> QED BY <1>1, <1>5, <1>6, <1>7, <1>8, Zenon

LEMMA UniqueStart ==
  ASSUME BoundedRanges, Typed, Typed', Unique, Start
  PROVE  Unique'
<1>1. PICK choice :
        /\ DOMAIN choice = {i \in Ifaces : LoadedStates[i] # None}
        /\ \A i \in DOMAIN choice :
             choice[i] \in SetChoices(Fresh, LoadedStates[i], LoadedStates[i].node, Owner(i))
        /\ Started(choice)
  BY StartEffect, Zenon
<1>2. /\ ifStates' = LoadedStates /\ UNCHANGED <<pools, saved, host>> /\ cur' = cur
      /\ \A e \in Entities : saved[e] = None <=> entities'[e] = None
      /\ \A e \in Entities : saved[e] # None =>
           \A i \in Ifaces : entities'[e].status.ifs[i] = Reloaded(saved[e].status.ifs[i])
  BY <1>1, Zenon DEF Started, work
<1>3. \A i \in DOMAIN choice : choice[i] = Held(LoadedStates[i])
  BY <1>1, AllSettable, Zenon DEF SetChoices
<1>4. Own(saved)' /\ StoredOK' /\ Distinct(SavedStates)'
  BY <1>2, UniqueStored, Zenon
<1>6. Own(entities)'
  <2>1. PICK fs : fs = entities'
    BY Zenon
  <2>2. ASSUME NEW e \in Entities, fs[e] # None, NEW i \in Ifaces, fs[e].status.ifs[i] # None
        PROVE  i \in IfacesIn(e)
    <3>1. saved[e] # None /\ fs[e].status.ifs[i] = Reloaded(saved[e].status.ifs[i])
      BY <1>2, <2>1, <2>2, Zenon
    <3>2. saved[e].status.ifs[i] # None
      BY <2>2, <3>1, Zenon DEF Reloaded
    <3> QED BY <3>1, <3>2, Zenon DEF Unique, Own
  <2> QED BY <2>1, <2>2, Zenon DEF Own
<1>7. SameKnown'
  BY <1>2, Zenon DEF SameKnown
<1>8. \A i \in Ifaces : /\ LoadedStates[i] = Reloaded(SavedStates[i])
                        /\ SavedStates[i] \in IfaceStatuses \cup {None}
  BY SavedStatesFacts, TypedVars, Zenon
<1>9. Cached'
  <2> SUFFICES ASSUME NEW e \in Entities, saved[e] # None, NEW i \in IfacesIn(e)
               PROVE  entities'[e].status.ifs[i] = ifStates'[i]
    BY <1>2, Zenon DEF Cached
  <2>1. i \in Ifaces /\ Owner(i) = e
    BY OwnerFacts, Zenon
  <2>2. SavedStates[i] = saved[e].status.ifs[i]
    BY <2>1, Zenon DEF SavedStates
  <2> QED BY <1>2, <1>8, <2>1, <2>2, Zenon
<1>10. Covers'
  <2>1. SavedStates' = SavedStates
    BY <1>2, Zenon DEF SavedStates
  <2>2. \A i \in Ifaces : SavedStates[i] # None => CoveredBy(SavedStates[i], LoadedStates[i])
    BY <1>8, ReloadedFacts, ZenonT(30) DEF CoveredBy
  <2> QED BY <1>2, <2>1, <2>2, Zenon DEF Covers
<1>11. PICK al1 : al1 = allocators'
  BY Zenon
<1>12. \A n \in AllocatorNames :
         al1[n] = IF Fresh[n] \in {None, Nil} THEN Fresh[n]
                  ELSE [Fresh[n] EXCEPT !.allocated = LoadedNums(n, choice)]
  BY <1>1, <1>11, Zenon DEF Started
<1>13. \A n \in AllocatorNames : Fresh[n] \in Allocators \cup {None, Nil}
  BY FreshFacts, TypedFacts, Zenon DEF AllocatorMaps
<1>14. \A n \in AllocatorNames : Fresh[n] \in Allocators =>
         /\ al1[n] \notin {None, Nil} /\ al1[n].allocated = LoadedNums(n, choice)
         /\ al1[n].start = Fresh[n].start /\ al1[n].end = Fresh[n].end /\ al1[n].next = Fresh[n].next
  <2> SUFFICES ASSUME NEW n \in AllocatorNames, Fresh[n] \in Allocators
               PROVE  /\ al1[n] \notin {None, Nil} /\ al1[n].allocated = LoadedNums(n, choice)
                      /\ al1[n].start = Fresh[n].start /\ al1[n].end = Fresh[n].end /\ al1[n].next = Fresh[n].next
    BY Zenon
  <2>1. PICK a \in Allocators : a = Fresh[n]
    BY Zenon
  <2>2. PICK L : L = LoadedNums(n, choice)
    BY Zenon
  <2>3. L \in SUBSET U32
    <3>1. \A j \in DOMAIN choice : /\ j \in Ifaces /\ LoadedStates[j] # None
                                   /\ choice[j] \subseteq Held(LoadedStates[j])
      BY <1>1, <1>3, Zenon
    <3> QED BY <2>2, <3>1, LoadedNumsType, TypedVars, Zenon
  <2>4. al1[n] = [a EXCEPT !.allocated = L]
    BY <1>12, <2>1, <2>2, RecordsAssumption, Zenon
  <2>5. /\ al1[n] \in Allocators /\ al1[n].allocated = L /\ al1[n].start = a.start /\ al1[n].end = a.end
        /\ al1[n].next = a.next
    BY <2>3, <2>4, Zenon DEF Allocators
  <2> QED BY <2>1, <2>2, <2>5, RecordsAssumption, Zenon
<1>15. \A n \in AllocatorNames : al1[n] \in Allocators <=> Fresh[n] \in Allocators
  <2>1. \A n \in AllocatorNames : al1[n] \in Allocators \cup {None, Nil}
    BY <1>11, TypedVars, Zenon DEF AllocatorMaps, Typed, TypeOK
  <2> QED BY <1>12, <1>13, <1>14, <2>1, RecordsAssumption, ZenonT(30)
<1>16. Made'
  <2>1. ASSUME NEW n \in AllocatorNames, al1[n] \in Allocators PROVE MadeFor(n, al1[n])'
    <3>1. Fresh[n] \in Allocators /\ Fresh[n] # None
      BY <1>15, <2>1, RecordsAssumption, Zenon
    <3>2. /\ n \in Wanted(pools, Configured(saved)) /\ pools[n[2]] \in PoolSpecs
          /\ Fresh[n] = NewAllocator(pools[n[2]])
      BY <3>1, FreshFacts, TypedFacts, Zenon
    <3>3. /\ ~pools[n[2]].v6 /\ Sound(Fresh[n]) /\ Fresh[n] = NewIPAMPoolAllocator(pools[n[2]])
      BY <3>1, <3>2, NewMade, Zenon
    <3>4. Sound(al1[n])
      BY <1>14, <3>1, <3>3, Zenon DEF Sound
    <3> QED BY <1>2, <1>14, <3>1, <3>2, <3>3, <3>4, Zenon DEF MadeFor
  <2> QED BY <1>11, <2>1, Zenon DEF Made, MadeFor
<1>17. PICK m : m = LoadedStates
  BY Zenon
<1>18. Marked'
  <2>1. ASSUME NEW i \in Ifaces, m[i] # None PROVE Stored(i, m[i])' /\ MarkedIn(al1, i, m[i])'
    <3>1. /\ m[i].node = NodeOf(i) /\ Stored(i, m[i]) /\ \A p \in Held(m[i]) : Fresh[Name(i, p)] \in Allocators
      BY <1>17, <2>1, AllSettable, Zenon
    <3>2. Stored(i, m[i])'
      BY <1>2, <3>1, ZenonT(30) DEF Stored, Restorable, Name, AllocatorName, NodeOf
    <3>3. ASSUME NEW p \in Held(m[i])
          PROVE  al1[Name(i, p)] \in Allocators /\ m[i].nums[p] \in al1[Name(i, p)].allocated
      <4>1. p \in Pools /\ pools[p] # None
        BY <3>1, Zenon DEF Stored, Restorable, Held
      <4>2. Name(i, p) \in AllocatorNames /\ Name(i, p)[2] = p
        BY <4>1, NameOf, Zenon
      <4>3. i \in DOMAIN choice /\ p \in choice[i]
        BY <1>1, <1>3, <1>17, <2>1, Zenon
      <4>4. AllocatorName(p, m[i].node, Owner(i)) = Name(i, p)
        BY <3>1, Zenon DEF Name
      <4>5. m[i].nums[p] \in LoadedNums(Name(i, p), choice)
        BY <1>17, <4>2, <4>3, <4>4, Zenon DEF LoadedNums
      <4> QED BY <1>14, <1>15, <3>1, <4>2, <4>5, Zenon
    <3>4. \A p \in Held(m[i]) : Name(i, p)' = Name(i, p)
      BY <1>2, NameFrame, Zenon
    <3>5. MarkedIn(al1, i, m[i])'
      BY <3>3, <3>4, Zenon DEF MarkedIn
    <3> QED BY <3>2, <3>5, Zenon
  <2> QED BY <1>2, <1>11, <1>17, <2>1, Zenon DEF Marked, MarkedIn
<1>19. Distinct(ifStates)'
  <2>1. PICK s : s = SavedStates
    BY Zenon
  <2>2. Distinct(s)
    BY <2>1, Zenon DEF Unique, Distinct
  <2>3. \A i \in Ifaces : m[i] # None => s[i] # None /\ m[i].nums = s[i].nums
    BY <1>8, <1>17, <2>1, ReloadedFacts, Zenon
  <2>4. Distinct(m)
    BY <2>2, <2>3 DEF Distinct
  <2>5. Distinct(m)'
    BY <1>2, <2>4 DEF Distinct, Name, AllocatorName, NodeOf
  <2> QED BY <1>2, <1>17, <2>5, Zenon DEF Distinct
<1> QED BY <1>4, <1>6, <1>7, <1>9, <1>10, <1>16, <1>18, <1>19, Zenon DEF Unique, InRAM
=============================================================================

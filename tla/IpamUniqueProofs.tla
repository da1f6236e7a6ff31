--------------------------- MODULE IpamUniqueProofs ---------------------------
(***************************************************************************)
(* What holds for every set of pools, nodes and services as long as the    *)
(* requests are steady: no address is held twice, every address is one of  *)
(* its pool's network, and what is down is down for a reason.              *)
(***************************************************************************)
EXTENDS IpamStoreProofs

-----------------------------------------------------------------------------
(* No address is held twice: rendering.                                    *)

LEMMA UniqueRenderStart ==
  ASSUME Typed, Typed', Unique, NEW e \in Entities, RenderStart(e)
  PROVE  Unique'
<1>1. /\ pc = "render" /\ cur = None /\ cur' = e /\ entities[e] # None /\ entities'[e] # None
      /\ entities'[e].status.ifs = NoStatuses
      /\ \A d \in Entities \ {e} : entities'[d] = entities[d]
      /\ UNCHANGED <<pools, allocators, ifStates, saved, host, pc>>
  BY RenderStartEffect, Zenon
<1>2. InRAM
  BY <1>1, Zenon DEF Unique, Up
<1>3. Own(saved)' /\ StoredOK' /\ Distinct(SavedStates)'
  BY <1>1, UniqueStored, Zenon
<1>4. Own(entities)'
  <2>1. PICK fs : fs = entities'
    BY Zenon
  <2>2. Own(fs)
    BY <1>1, <2>1 DEF Unique, Own, NoStatuses
  <2> QED BY <2>1, <2>2, Zenon DEF Own
<1>5. SameKnown' /\ Cached'
  BY <1>1, <1>2, OwnerFacts DEF InRAM, SameKnown, Cached, NoStatuses
<1>6. Covers'
  <2>1. \A i \in Ifaces : SavedStates[i] # None => CoveredBy(SavedStates[i], ifStates[i])
    BY <1>1, <1>2, OwnerFacts, NothingAssumption, Zenon DEF InRAM, Covers
  <2>2. SavedStates' = SavedStates
    BY <1>1, Zenon DEF SavedStates
  <2> QED BY <1>1, <2>1, <2>2, Zenon DEF Covers
<1>7. Marked' /\ Made' /\ Distinct(ifStates)'
  <2>1. Grew /\ Up
    BY <1>1, Zenon DEF Grew, Up
  <2>2. \A n \in AllocatorNames, a \in Allocators : ~(allocators[n] = None /\ allocators'[n] = a)
    BY <1>1, RecordsAssumption, Zenon
  <2>3. allocators' \in AllocatorMaps
    BY <1>1, TypedVars, Zenon
  <2> QED BY <1>1, <2>1, <2>2, <2>3, CreateFrame, Zenon
<1> QED BY <1>3, <1>4, <1>5, <1>6, <1>7, Zenon DEF Unique, InRAM

\* renderComplete, after a panic too, puts the entity's statuses into etcd.
LEMMA UniqueSave ==
  ASSUME Typed, Unique, InRAM, cur \in Entities, entities[cur] # None, UNCHANGED <<pools, host>>,
         saved'[cur] # None, saved'[cur].status.ifs = entities[cur].status.ifs,
         \A d \in Entities \ {cur} : saved'[d] = saved[d]
  PROVE  Own(saved)' /\ StoredOK' /\ Distinct(SavedStates)' /\ Grew
<1>1. Grew
  BY Zenon DEF Grew
<1>2. Own(saved)'
  <2>1. PICK ss : ss = saved'
    BY Zenon
  <2>2. Own(ss)
    BY <2>1, Zenon DEF Unique, Own
  <2> QED BY <2>1, <2>2, Zenon DEF Own
<1>3. PICK m, m1, s : m = ifStates /\ m1 = SavedStates' /\ s = SavedStates
  BY Zenon
<1>4. \A i \in Ifaces : m[i] # None => Stored(i, m[i])
  BY <1>3, Zenon DEF InRAM, Marked
<1>5. ASSUME NEW i \in Ifaces, m1[i] # None
      PROVE  /\ m[i] # None /\ Stored(i, m1[i])
             /\ \A p \in Pools : m1[i].nums[p] # None => m1[i].nums[p] = m[i].nums[p]
  <2>1. Owner(i) \in Entities /\ i \in IfacesIn(Owner(i))
    BY OwnerFacts, Zenon
  <2>2. CASE Owner(i) = cur
    <3>1. m1[i] = entities[cur].status.ifs[i]
      BY <1>3, <2>2, Zenon DEF SavedStates
    <3>2. m1[i] = m[i]
      BY <1>3, <1>5, <2>1, <2>2, <3>1, Zenon DEF InRAM, Cached
    <3> QED BY <1>4, <1>5, <3>2, Zenon
  <2>3. CASE Owner(i) # cur
    <3>1. m1[i] = s[i]
      BY <1>3, <2>1, <2>3, Zenon DEF SavedStates
    <3>2. CoveredBy(s[i], m[i])
      BY <1>3, <1>5, <2>3, <3>1, Zenon DEF InRAM, Covers
    <3>3. Stored(i, s[i])
      BY <1>3, <1>5, <3>1, Zenon DEF Unique, StoredOK
    <3> QED BY <3>1, <3>2, <3>3, Zenon DEF CoveredBy, Held
  <2> QED BY <2>2, <2>3, Zenon
<1>6. Distinct(m)
  BY <1>3, Zenon DEF InRAM, Distinct
<1>7. Distinct(m1)'
  BY <1>1, <1>4, <1>5, <1>6, DistinctFrame, Zenon
<1>8. \A i \in Ifaces : m1[i] # None => Stored(i, m1[i])'
  BY <1>1, <1>5, StoredFrame, Zenon
<1>9. StoredOK'
  BY <1>3, <1>8, Zenon DEF StoredOK
<1>10. Distinct(SavedStates)'
  BY <1>3, <1>7, Zenon DEF Distinct
<1> QED BY <1>1, <1>2, <1>9, <1>10, Zenon

LEMMA UniqueRenderComplete ==
  ASSUME Typed, Typed', Unique, RenderComplete
  PROVE  Unique'
<1>1. /\ cur \in Entities /\ entities[cur] # None /\ pc = "render" /\ cur' = None
      /\ saved'[cur] = entities'[cur] /\ entities'[cur] # None
      /\ entities'[cur].status.ifs = entities[cur].status.ifs
      /\ \A d \in Entities \ {cur} : entities'[d] = entities[d] /\ saved'[d] = saved[d]
      /\ UNCHANGED <<pools, allocators, ifStates, host, pc>>
  BY RenderCompleteEffect, Zenon
<1>2. InRAM /\ Up
  BY <1>1, Zenon DEF Unique, Up
<1>3. Own(saved)' /\ StoredOK' /\ Distinct(SavedStates)' /\ Grew
  BY <1>1, <1>2, UniqueSave, Zenon
<1>4. Own(entities)'
  <2>1. PICK fs : fs = entities'
    BY Zenon
  <2>2. Own(fs)
    BY <1>1, <2>1, Zenon DEF Unique, Own
  <2> QED BY <2>1, <2>2, Zenon DEF Own
<1>5. SameKnown' /\ Cached'
  BY <1>1, <1>2 DEF InRAM, SameKnown, Cached
<1>6. Covers'
  <2>1. ASSUME NEW i \in Ifaces, SavedStates'[i] # None PROVE CoveredBy(SavedStates'[i], ifStates[i])
    <3>1. Owner(i) \in Entities /\ i \in IfacesIn(Owner(i))
      BY OwnerFacts, Zenon
    <3>2. CASE Owner(i) = cur
      <4>1. SavedStates'[i] = entities[cur].status.ifs[i]
        BY <1>1, <3>2, Zenon DEF SavedStates
      <4>2. SavedStates'[i] = ifStates[i]
        BY <1>1, <1>2, <2>1, <3>1, <3>2, <4>1, Zenon DEF InRAM, Cached
      <4> QED BY <2>1, <4>2, Zenon DEF CoveredBy
    <3>3. CASE Owner(i) # cur
      <4>1. SavedStates'[i] = SavedStates[i]
        BY <1>1, <3>1, <3>3, Zenon DEF SavedStates
      <4> QED BY <1>2, <2>1, <3>3, <4>1, Zenon DEF InRAM, Covers
    <3> QED BY <3>2, <3>3, Zenon
  <2> QED BY <1>1, <2>1, Zenon DEF Covers
<1>7. Marked' /\ Made' /\ Distinct(ifStates)'
  <2>1. \A n \in AllocatorNames, a \in Allocators : ~(allocators[n] = None /\ allocators'[n] = a)
    BY <1>1, RecordsAssumption, Zenon
  <2>2. allocators' \in AllocatorMaps
    BY <1>1, TypedVars, Zenon
  <2> QED BY <1>1, <1>2, <1>3, <2>1, <2>2, CreateFrame, Zenon
<1> QED BY <1>3, <1>4, <1>5, <1>6, <1>7, Zenon DEF Unique, InRAM

\* Rendering only marks numbers: what the other interfaces hold stays theirs.
LEMMA GrownFrame ==
  ASSUME Typed, Unique, InRAM, UNCHANGED <<pools, saved, host>>, NEW al1 \in AllocatorMaps,
         \A n \in AllocatorNames : Grown(allocators[n], al1[n])
  PROVE  /\ Grew
         /\ \A i \in Ifaces : ifStates[i] # None => \A st : st = ifStates[i] => Stored(i, st)' /\ MarkedIn(al1, i, st)'
         /\ \A n \in AllocatorNames : al1[n] \in Allocators => MadeFor(n, al1[n])'
<1>1. Grew
  BY Zenon DEF Grew
<1>2. PICK al : al = allocators
  BY Zenon
<1>3. \A n \in AllocatorNames : al[n] \in Allocators <=> al1[n] \in Allocators
  BY <1>2, TypedVars, RecordsAssumption, Zenon DEF Grown, AllocatorMaps
<1>4. \A n \in AllocatorNames : al[n] \in Allocators =>
         /\ al1[n] \in Allocators /\ al[n].allocated \subseteq al1[n].allocated
         /\ al1[n].start = al[n].start /\ al1[n].end = al[n].end /\ (Sound(al[n]) => Sound(al1[n]))
  BY <1>2, <1>3, RecordsAssumption, Zenon DEF Grown
<1>5. ASSUME NEW i \in Ifaces, ifStates[i] # None, NEW st, st = ifStates[i]
      PROVE  Stored(i, st)' /\ MarkedIn(al1, i, st)'
  <2>1. Stored(i, st) /\ MarkedIn(allocators, i, st)
    BY <1>5, Zenon DEF InRAM, Marked
  <2> QED BY <1>1, <1>2, <1>4, <2>1, MarkedFrame, Zenon
<1>6. ASSUME NEW n \in AllocatorNames, al1[n] \in Allocators PROVE MadeFor(n, al1[n])'
  <2>1. MadeFor(n, al[n])
    BY <1>2, <1>3, <1>6, Zenon DEF InRAM, Made
  <2>2. Sound(al1[n]) /\ al1[n].start = al[n].start /\ al1[n].end = al[n].end
    BY <1>3, <1>4, <1>6, <2>1, Zenon DEF MadeFor
  <2> QED BY <1>1, <2>1, <2>2, MadeFrame, Zenon
<1> QED BY <1>1, <1>5, <1>6, Zenon

\* The status an interface gets: the numbers it had and numbers that were free.
LEMMA NewStatus ==
  ASSUME Typed, Unique, InRAM, UNCHANGED <<pools, saved, host>>, NEW i \in Ifaces,
         NEW r \in Results, NEW q \in Results, RenderedInterface(i, r, q)
  PROVE  /\ \A n \in AllocatorNames : Grown(allocators[n], q.al[n])
         /\ Stored(i, q.st)' /\ MarkedIn(q.al, i, q.st)'
         /\ ifStates[i] # None => \A p \in Held(ifStates[i]) : q.st.nums[p] = ifStates[i].nums[p]
         /\ \A p \in Held(q.st) :
              \/ ifStates[i] # None /\ ifStates[i].nums[p] = q.st.nums[p]
              \/ q.st.nums[p] \notin allocators[Name(i, p)].allocated
<1>1. /\ r.st.nums = Begin(i, NodeOf(i)).nums /\ r.st.node = Begin(i, NodeOf(i)).node
      /\ \A n \in AllocatorNames : Grown(allocators[n], r.al[n])
      /\ Extends(r, q, NodeOf(i), Owner(i))
  BY ZenonT(30) DEF RenderedInterface
<1>2. /\ q.st.node = r.st.node
      /\ \A n \in AllocatorNames : Grown(r.al[n], q.al[n])
      /\ \A p \in Pools : r.st.nums[p] # None => q.st.nums[p] = r.st.nums[p]
      /\ \A p \in Pools : r.st.nums[p] = None /\ q.st.nums[p] # None =>
           Taken(r.al, q.al, p, q.st.nums[p], NodeOf(i), Owner(i))
  BY <1>1, Zenon DEF Extends
<1>3. \A n \in AllocatorNames : Grown(allocators[n], q.al[n])
  BY <1>1, <1>2, GrownOn, ZenonT(30)
<1>4. q.al \in AllocatorMaps /\ r.al \in AllocatorMaps
  BY ResultFacts, Zenon
<1>5. Grew
  BY Zenon DEF Grew
<1>6. \A p \in Pools : Name(i, p)' = Name(i, p)
  BY NameFrame, Zenon
<1>7. \A p \in Pools : r.st.nums[p] # None => ifStates[i] # None /\ r.st.nums[p] = ifStates[i].nums[p]
  BY <1>1, Zenon DEF Begin, IfaceStatus, NoNums
<1>8. q.st.node = NodeOf(i)'
  <2>1. NodeOf(i)' = NodeOf(i)
    BY Zenon DEF NodeOf
  <2>2. Begin(i, NodeOf(i)).node = NodeOf(i)
    BY Zenon DEF InRAM, Marked, Stored, Begin, IfaceStatus
  <2> QED BY <1>1, <1>2, <2>1, <2>2, Zenon
<1>9. ASSUME NEW p \in Held(q.st), r.st.nums[p] = None
      PROVE  /\ Restorable(i, p, q.st.nums[p])
             /\ q.al[Name(i, p)] \in Allocators /\ q.st.nums[p] \in q.al[Name(i, p)].allocated
             /\ q.st.nums[p] \notin allocators[Name(i, p)].allocated
  <2>1. PICK n, x : n = Name(i, p) /\ x = q.st.nums[p]
    BY Zenon
  <2>2. p \in Pools /\ Taken(r.al, q.al, p, x, NodeOf(i), Owner(i))
    BY <1>2, <1>9, <2>1, Zenon DEF Held
  <2>3. /\ pools[p] # None /\ r.al[n] \notin {None, Nil} /\ x \in q.al[n].allocated \ r.al[n].allocated
        /\ Sound(r.al[n]) => InRange(r.al[n], x)
    BY <2>1, <2>2, ZenonT(30) DEF Taken, Name
  <2>4. n \in AllocatorNames /\ n[2] = p
    BY <2>1, <2>2, <2>3, NameOf, Zenon
  <2>5. Grown(allocators[n], r.al[n]) /\ Grown(r.al[n], q.al[n])
    BY <1>1, <1>2, <2>4, Zenon
  <2>6. allocators[n] \notin {None, Nil} /\ q.al[n] \notin {None, Nil}
    BY <2>3, <2>5, ZenonT(30) DEF Grown
  <2>7. allocators[n] \in Allocators /\ q.al[n] \in Allocators
    BY <1>4, <2>4, <2>6, TypedVars, ZenonT(30) DEF AllocatorMaps
  <2>8. MadeFor(n, allocators[n])
    BY <2>4, <2>7, ZenonT(30) DEF InRAM, Made
  <2>9. /\ allocators[n].allocated \subseteq r.al[n].allocated /\ Sound(r.al[n])
        /\ r.al[n].start = allocators[n].start /\ r.al[n].end = allocators[n].end
    BY <2>5, <2>6, <2>8, Zenon DEF Grown, MadeFor
  <2>10. InRange(NewIPAMPoolAllocator(pools[p]), x)
    BY <2>3, <2>4, <2>8, <2>9, Zenon DEF MadeFor, InRange
  <2>11. Restorable(i, p, x)
    BY <2>1, <2>3, <2>4, <2>8, <2>10, ZenonT(30) DEF Restorable, MadeFor
  <2> QED BY <2>1, <2>3, <2>7, <2>9, <2>11, ZenonT(30)
<1>10. ASSUME NEW p \in Held(q.st), r.st.nums[p] # None
       PROVE  /\ Restorable(i, p, q.st.nums[p])' /\ ifStates[i] # None /\ q.st.nums[p] = ifStates[i].nums[p]
              /\ q.al[Name(i, p)] \in Allocators /\ q.st.nums[p] \in q.al[Name(i, p)].allocated
  <2>1. p \in Pools /\ ifStates[i] # None /\ q.st.nums[p] = ifStates[i].nums[p]
    BY <1>2, <1>7, <1>10, Zenon DEF Held
  <2>2. PICK st : st = ifStates[i]
    BY Zenon
  <2>3. Stored(i, st)' /\ MarkedIn(q.al, i, st)' /\ p \in Held(st)
    BY <1>3, <1>4, <1>10, <2>1, <2>2, GrownFrame, Zenon DEF Held
  <2>4. Restorable(i, p, st.nums[p])'
    BY <2>3, Zenon DEF Stored
  <2>5. q.al[Name(i, p)'] \in Allocators /\ st.nums[p] \in q.al[Name(i, p)'].allocated
    BY <2>3, Zenon DEF MarkedIn
  <2>6. Name(i, p)' = Name(i, p)
    BY <1>6, <2>1, Zenon
  <2> QED BY <2>1, <2>2, <2>4, <2>5, <2>6, Zenon
<1>11. ASSUME NEW p \in Held(q.st)
       PROVE  /\ Restorable(i, p, q.st.nums[p])'
              /\ q.al[Name(i, p)'] \in Allocators /\ q.st.nums[p] \in q.al[Name(i, p)'].allocated
  <2>1. p \in Pools
    BY Zenon DEF Held
  <2>2. Name(i, p)' = Name(i, p)
    BY <1>6, <2>1, Zenon
  <2>3. PICK x : x = q.st.nums[p]
    BY Zenon
  <2>4. CASE r.st.nums[p] = None
    BY <1>5, <1>9, <2>1, <2>2, <2>3, <2>4, RestorableFrame, Zenon
  <2>5. CASE r.st.nums[p] # None
    BY <1>10, <2>2, <2>5, Zenon
  <2> QED BY <2>4, <2>5, Zenon
<1>12. Stored(i, q.st)' /\ MarkedIn(q.al, i, q.st)'
  BY <1>8, <1>11, Zenon DEF Stored, MarkedIn
<1>13. ifStates[i] # None => \A p \in Held(ifStates[i]) : q.st.nums[p] = ifStates[i].nums[p]
  BY <1>1, <1>2, Zenon DEF Begin, Held
<1> QED BY <1>3, <1>9, <1>10, <1>12, <1>13, ZenonT(30)

LEMMA DistinctNew ==
  ASSUME Typed, Unique, InRAM, UNCHANGED <<pools, saved, host>>, NEW i \in Ifaces, NEW st, NEW m1,
         \A p \in Held(st) : \/ ifStates[i] # None /\ ifStates[i].nums[p] = st.nums[p]
                             \/ st.nums[p] \notin allocators[Name(i, p)].allocated,
         m1[i] = st, \A j \in Ifaces \ {i} : m1[j] = ifStates[j]
  PROVE  Distinct(m1)'
<1>1. \A j \in Ifaces, p \in Pools : Name(j, p)' = Name(j, p)
  BY NameFrame, Zenon
<1>2. ASSUME NEW j \in Ifaces, i # j, NEW p \in Pools, ifStates[j] # None, pools[p] # None,
             Name(i, p) = Name(j, p), st.nums[p] # None
      PROVE  st.nums[p] # ifStates[j].nums[p]
  <2>1. p \in Held(st)
    BY <1>2, Zenon DEF Held
  <2>2. CASE ifStates[i] # None /\ ifStates[i].nums[p] = st.nums[p]
    BY <1>2, <2>2 DEF InRAM, Distinct
  <2>3. CASE st.nums[p] \notin allocators[Name(i, p)].allocated
    <3>1. ASSUME st.nums[p] = ifStates[j].nums[p] PROVE FALSE
      <4>1. p \in Held(ifStates[j])
        BY <1>2, <3>1, Zenon DEF Held
      <4>2. MarkedIn(allocators, j, ifStates[j])
        BY <1>2, Zenon DEF InRAM, Marked
      <4>3. ifStates[j].nums[p] \in allocators[Name(j, p)].allocated
        BY <4>1, <4>2, Zenon DEF MarkedIn
      <4> QED BY <1>2, <2>3, <3>1, <4>3, Zenon
    <3> QED BY <3>1, Zenon
  <2> QED BY <2>1, <2>2, <2>3, Zenon
<1>3. ASSUME NEW j \in Ifaces, NEW k \in Ifaces, NEW p \in Pools, j # k, m1[j] # None, m1[k] # None,
             pools'[p] # None, Name(j, p)' = Name(k, p)', m1[j].nums[p] # None
      PROVE  m1[j].nums[p] # m1[k].nums[p]
  <2>1. Name(j, p) = Name(k, p) /\ pools[p] # None
    BY <1>1, <1>3, Zenon
  <2>2. CASE j = i
    BY <1>2, <1>3, <2>1, <2>2, Zenon
  <2>3. CASE k = i
    <3>1. CASE st.nums[p] = None
      BY <1>3, <2>3, <3>1, Zenon
    <3>2. CASE st.nums[p] # None
      BY <1>2, <1>3, <2>1, <2>3, <3>2, Zenon
    <3> QED BY <3>1, <3>2, Zenon
  <2>4. CASE j # i /\ k # i
    BY <1>3, <2>1, <2>4 DEF InRAM, Distinct
  <2> QED BY <2>2, <2>3, <2>4, Zenon
<1> QED BY <1>3, Zenon DEF Distinct

LEMMA UniquePersisted ==
  ASSUME Typed, Typed', Unique, cur \in Entities, entities[cur] # None, pc = "render", NEW i \in IfacesIn(cur),
         NEW r \in Results, NEW q \in Results, RenderedInterface(i, r, q), Persisted(i, r, q)
  PROVE  Unique'
<1>1. /\ UNCHANGED <<pools, host, saved, pc, cur>>
      /\ allocators' = q.al /\ ifStates' = [ifStates EXCEPT ![i] = q.st]
      /\ entities'[cur] # None /\ entities'[cur].status.oper = entities[cur].status.oper
      /\ entities'[cur].status.ifs = [entities[cur].status.ifs EXCEPT ![i] = q.st]
      /\ \A d \in Entities \ {cur} : entities'[d] = entities[d]
  BY Zenon DEF Persisted
<1>2. InRAM /\ i \in Ifaces /\ Owner(i) = cur
  BY OwnerFacts, Zenon DEF Unique, Up
<1>3. ifStates'[i] = q.st /\ \A j \in Ifaces \ {i} : ifStates'[j] = ifStates[j]
  BY <1>1, <1>2, TypedVars, ZenonT(30)
<1>4. /\ entities'[cur].status.ifs[i] = q.st
      /\ \A j \in Ifaces \ {i} : entities'[cur].status.ifs[j] = entities[cur].status.ifs[j]
  <2>1. entities[cur].status.ifs \in [Ifaces -> IfaceStatuses \cup {None}]
    BY TypedFacts, EntityRecordFacts, ZenonT(30)
  <2> QED BY <1>1, <1>2, <2>1, ZenonT(30)
<1>5. /\ \A n \in AllocatorNames : Grown(allocators[n], q.al[n])
      /\ Stored(i, q.st)' /\ MarkedIn(q.al, i, q.st)'
      /\ ifStates[i] # None => \A p \in Held(ifStates[i]) : q.st.nums[p] = ifStates[i].nums[p]
      /\ \A p \in Held(q.st) :
           \/ ifStates[i] # None /\ ifStates[i].nums[p] = q.st.nums[p]
           \/ q.st.nums[p] \notin allocators[Name(i, p)].allocated
  BY <1>1, <1>2, NewStatus, Zenon
<1>6. q.al \in AllocatorMaps /\ q.st # None
  BY ResultFacts, RecordsAssumption, Zenon
<1>7. Own(saved)' /\ StoredOK' /\ Distinct(SavedStates)'
  BY <1>1, UniqueStored, ZenonT(30)
<1>8. Own(entities)'
  <2>1. PICK fs : fs = entities'
    BY Zenon
  <2>2. Own(fs)
    BY <1>1, <1>2, <1>4, <2>1, ZenonT(30) DEF Unique, Own
  <2> QED BY <2>1, <2>2, Zenon DEF Own
<1>9. SameKnown'
  BY <1>1, <1>2, Zenon DEF InRAM, SameKnown
<1>10. Cached'
  <2>1. ASSUME NEW d \in Entities, entities'[d] # None, NEW j \in IfacesIn(d), entities'[d].status.ifs[j] # None
        PROVE  entities'[d].status.ifs[j] = ifStates'[j]
    <3>1. j \in Ifaces /\ Owner(j) = d
      BY OwnerFacts, Zenon
    <3>2. CASE j = i
      BY <1>2, <1>3, <1>4, <3>1, <3>2, Zenon
    <3>3. CASE j # i
      <4>1. entities[d] # None /\ entities'[d].status.ifs[j] = entities[d].status.ifs[j] /\ ifStates'[j] = ifStates[j]
        BY <1>1, <1>3, <1>4, <2>1, <3>1, <3>3, ZenonT(30)
      <4> QED BY <1>2, <2>1, <4>1, Zenon DEF InRAM, Cached
    <3> QED BY <3>2, <3>3, Zenon
  <2> QED BY <2>1, Zenon DEF Cached
<1>11. Covers'
  <2>1. SavedStates' = SavedStates
    BY <1>1, Zenon DEF SavedStates
  <2>2. ASSUME NEW j \in Ifaces, SavedStates[j] # None,
               ~(Owner(j) = cur /\ entities[cur].status.oper = "Down")
        PROVE  CoveredBy(SavedStates[j], ifStates'[j])
    <3>1. CoveredBy(SavedStates[j], ifStates[j])
      BY <1>2, <2>2, Zenon DEF InRAM, Covers
    <3>2. CASE j # i
      BY <1>3, <3>1, <3>2, Zenon
    <3>3. CASE j = i
      <4>1. ASSUME NEW p \in Held(SavedStates[i]) PROVE q.st.nums[p] = SavedStates[i].nums[p]
        <5>1. ifStates[i] # None /\ ifStates[i].nums[p] = SavedStates[i].nums[p] /\ p \in Held(ifStates[i])
          BY <3>1, <3>3, <4>1, ZenonT(30) DEF CoveredBy, Held
        <5> QED BY <1>5, <5>1, ZenonT(30)
      <4> QED BY <1>3, <1>6, <3>3, <4>1, Zenon DEF CoveredBy
    <3> QED BY <3>2, <3>3, Zenon
  <2> QED BY <1>1, <2>1, <2>2, Zenon DEF Covers
<1>12. PICK al1, m, m1 : al1 = q.al /\ m = ifStates /\ m1 = ifStates'
  BY Zenon
<1>13. /\ \A j \in Ifaces : m[j] # None => Stored(j, m[j])' /\ MarkedIn(al1, j, m[j])'
       /\ \A n \in AllocatorNames : al1[n] \in Allocators => MadeFor(n, al1[n])'
  BY <1>1, <1>2, <1>5, <1>6, <1>12, GrownFrame, ZenonT(30)
<1>14. Made'
  BY <1>1, <1>12, <1>13, ZenonT(30) DEF Made, MadeFor
<1>15. Marked'
  <2>1. \A j \in Ifaces : m1[j] # None => Stored(j, m1[j])' /\ MarkedIn(al1, j, m1[j])'
    BY <1>3, <1>5, <1>12, <1>13, ZenonT(30)
  <2> QED BY <1>1, <1>12, <2>1, ZenonT(30) DEF Marked, MarkedIn
<1>16. Distinct(ifStates)'
  <2>1. Distinct(m1)'
    <3>1. PICK st : st = q.st
      BY Zenon
    <3>2. \A p \in Held(st) : \/ ifStates[i] # None /\ ifStates[i].nums[p] = st.nums[p]
                              \/ st.nums[p] \notin allocators[Name(i, p)].allocated
      BY <1>5, <3>1, ZenonT(30)
    <3>3. m1[i] = st /\ \A j \in Ifaces \ {i} : m1[j] = ifStates[j]
      BY <1>3, <1>12, <3>1, Zenon
    <3>4. UNCHANGED <<pools, saved, host>>
      BY <1>1, ZenonT(30)
    <3> QED BY <1>2, <3>2, <3>3, <3>4, DistinctNew, ZenonT(30)
  <2> QED BY <1>12, <2>1, Zenon DEF Distinct
<1> QED BY <1>7, <1>8, <1>9, <1>10, <1>11, <1>14, <1>15, <1>16, Zenon DEF Unique, InRAM

LEMMA UniqueFailed ==
  ASSUME Typed, Typed', Unique, cur \in Entities, entities[cur] # None, pc = "render", NEW i \in IfacesIn(cur),
         NEW r \in Results, NEW q \in Results, RenderedInterface(i, r, q), Failed(i, r, q)
  PROVE  Unique'
<1>1. /\ UNCHANGED <<pools, host, saved, pc, cur>>
      /\ allocators' = q.al /\ ifStates' = [ifStates EXCEPT ![i] = None]
      /\ entities'[cur] # None /\ entities'[cur].status.oper = "Down"
      /\ entities'[cur].status.ifs = [entities[cur].status.ifs EXCEPT ![i] = None]
      /\ \A d \in Entities \ {cur} : entities'[d] = entities[d]
  BY ZenonT(30) DEF Failed
<1>2. InRAM /\ i \in Ifaces /\ Owner(i) = cur
  BY OwnerFacts, Zenon DEF Unique, Up
<1>3. ifStates'[i] = None /\ \A j \in Ifaces \ {i} : ifStates'[j] = ifStates[j]
  BY <1>1, <1>2, TypedVars, Zenon
<1>4. /\ entities'[cur].status.ifs[i] = None
      /\ \A j \in Ifaces \ {i} : entities'[cur].status.ifs[j] = entities[cur].status.ifs[j]
  <2>1. entities[cur].status.ifs \in [Ifaces -> IfaceStatuses \cup {None}]
    BY TypedFacts, EntityRecordFacts, ZenonT(30)
  <2> QED BY <1>1, <1>2, <2>1, ZenonT(30)
<1>5. \A n \in AllocatorNames : Grown(allocators[n], q.al[n])
  BY <1>1, <1>2, NewStatus, ZenonT(30)
<1>6. q.al \in AllocatorMaps
  BY ResultFacts, Zenon
<1>7. Own(saved)' /\ StoredOK' /\ Distinct(SavedStates)'
  BY <1>1, UniqueStored, ZenonT(30)
<1>8. Own(entities)'
  <2>1. PICK fs : fs = entities'
    BY Zenon
  <2>2. Own(fs)
    BY <1>1, <1>2, <1>4, <2>1, ZenonT(30) DEF Unique, Own
  <2> QED BY <2>1, <2>2, Zenon DEF Own
<1>9. SameKnown'
  BY <1>1, <1>2, Zenon DEF InRAM, SameKnown
<1>10. Cached'
  <2>1. ASSUME NEW d \in Entities, entities'[d] # None, NEW j \in IfacesIn(d), entities'[d].status.ifs[j] # None
        PROVE  entities'[d].status.ifs[j] = ifStates'[j]
    <3>1. j \in Ifaces /\ Owner(j) = d
      BY OwnerFacts, Zenon
    <3>2. j # i
      BY <1>2, <1>4, <2>1, <3>1, Zenon
    <3>3. entities[d] # None /\ entities'[d].status.ifs[j] = entities[d].status.ifs[j] /\ ifStates'[j] = ifStates[j]
      BY <1>1, <1>3, <1>4, <2>1, <3>1, <3>2, ZenonT(30)
    <3> QED BY <1>2, <2>1, <3>3, Zenon DEF InRAM, Cached
  <2> QED BY <2>1, Zenon DEF Cached
<1>11. Covers'
  <2>1. SavedStates' = SavedStates
    BY <1>1, ZenonT(30) DEF SavedStates
  <2>2. ASSUME NEW j \in Ifaces, SavedStates[j] # None, Owner(j) # cur
        PROVE  CoveredBy(SavedStates[j], ifStates'[j])
    BY <1>2, <1>3, <2>2, ZenonT(30) DEF InRAM, Covers
  <2> QED BY <1>1, <2>1, <2>2, ZenonT(30) DEF Covers
<1>12. PICK al1, m, m1 : al1 = q.al /\ m = ifStates /\ m1 = ifStates'
  BY Zenon
<1>13. /\ \A j \in Ifaces : m[j] # None => Stored(j, m[j])' /\ MarkedIn(al1, j, m[j])'
       /\ \A n \in AllocatorNames : al1[n] \in Allocators => MadeFor(n, al1[n])'
       /\ Grew
  BY <1>1, <1>2, <1>5, <1>6, <1>12, GrownFrame, ZenonT(30)
<1>14. Made'
  BY <1>1, <1>12, <1>13, ZenonT(30) DEF Made, MadeFor
<1>15. Marked'
  <2>1. \A j \in Ifaces : m1[j] # None => Stored(j, m1[j])' /\ MarkedIn(al1, j, m1[j])'
    BY <1>3, <1>12, <1>13, ZenonT(30)
  <2> QED BY <1>1, <1>12, <2>1, ZenonT(30) DEF Marked, MarkedIn
<1>16. Distinct(ifStates)'
  <2>1. Distinct(m) /\ \A j \in Ifaces : m[j] # None => Stored(j, m[j])
    BY <1>2, <1>12, ZenonT(30) DEF InRAM, Distinct, Marked
  <2>2. \A j \in Ifaces : m1[j] # None => m1[j] = m[j]
    BY <1>3, <1>12, ZenonT(30)
  <2>3. Distinct(m1)'
    BY <1>13, <2>1, <2>2, DistinctFrame, ZenonT(30)
  <2> QED BY <1>12, <2>3, Zenon DEF Distinct
<1> QED BY <1>7, <1>8, <1>9, <1>10, <1>11, <1>14, <1>15, <1>16, Zenon DEF Unique, InRAM

LEMMA UniqueRenderInterface ==
  ASSUME Typed, Typed', Unique, RenderInterface
  PROVE  Unique'
<1>1. PICK i : i = Head(rest)
  BY Zenon
<1>2. /\ pc = "render" /\ cur \in Entities /\ entities[cur] # None /\ i \in Ifaces /\ i \in IfacesIn(cur)
  BY <1>1, RenderInterfaceEffect, Zenon
<1>3. PICK r \in Results, q \in Results : RenderedInterface(i, r, q)
  BY <1>1, RenderInterfaceEffect, Zenon
<1>4. CASE Panicked(r, q)
  <2>1. /\ UNCHANGED <<pools, host>> /\ pc' = "panic" /\ saved'[cur] # None
        /\ saved'[cur].status.ifs = entities[cur].status.ifs
        /\ \A d \in Entities \ {cur} : saved'[d] = saved[d]
        /\ \A d \in Entities : entities'[d] = None
    BY <1>4, ClearedTypes, Zenon DEF Panicked
  <2>2. InRAM
    BY <1>2, Zenon DEF Unique, Up
  <2>3. Own(saved)' /\ StoredOK' /\ Distinct(SavedStates)'
    BY <1>2, <2>1, <2>2, UniqueSave, Zenon
  <2>4. Own(entities)' /\ ~Up'
    BY <2>1, Zenon DEF Own, Up
  <2> QED BY <2>3, <2>4, Zenon DEF Unique
<1>5. CASE Persisted(i, r, q)
  BY <1>2, <1>3, <1>5, UniquePersisted, Zenon
<1>6. CASE Failed(i, r, q)
  BY <1>2, <1>3, <1>6, UniqueFailed, Zenon
<1> QED BY <1>2, <1>3, <1>4, <1>5, <1>6, RenderedEffect, Zenon

LEMMA UniqueNext ==
  ASSUME SteadyRequests, BoundedRanges, Typed, Typed', Renders, Unique, [Next]_vars
  PROVE  Unique'
<1>1. CASE UNCHANGED vars
  BY <1>1, UniqueStill, Zenon DEF vars, work, Up
<1>2. CASE Start
  BY <1>2, UniqueStart, Zenon
<1>3. CASE BootRender
  <2>1. UNCHANGED <<pools, allocators, ifStates, entities, saved, host, cur>> /\ Up
    BY <1>3, Zenon DEF BootRender, Up
  <2> QED BY <2>1, UniqueStill, Zenon
<1>4. CASE Crash
  BY <1>4, UniqueCrash, Zenon
<1>5. ASSUME NEW p \in Pools, PoolD(p) PROVE Unique'
  BY <1>5, Zenon DEF PoolD, Request, SteadyRequests
<1>6. ASSUME NEW p \in Pools, NEW spec \in PoolSpecs, PoolCU(p, spec) PROVE Unique'
  BY <1>6, UniquePoolCU, Zenon
<1>7. ASSUME NEW e \in Entities, EntityD(e) PROVE Unique'
  BY <1>7, UniqueEntityD, Zenon
<1>8. ASSUME NEW e \in Entities, RenderStart(e) PROVE Unique'
  BY <1>8, UniqueRenderStart, Zenon
<1>9. ASSUME NEW e \in Entities, NEW spec \in SpecsOf(e), EntityCU(e, spec) PROVE Unique'
  BY <1>9, UniqueEntityCU, Zenon
<1>10. ASSUME NEW i \in Ifaces, NEW n \in Hosts, Move(i, n) PROVE Unique'
  BY <1>10, Zenon DEF Move, Request, SteadyRequests
<1>11. CASE RenderInterface
  BY <1>11, UniqueRenderInterface, Zenon
<1>12. CASE RenderComplete
  BY <1>12, UniqueRenderComplete, Zenon
<1>13. CASE RenderEnd
  <2>1. UNCHANGED <<pools, allocators, ifStates, entities, saved, host, cur>> /\ Up
    BY <1>13, Zenon DEF RenderEnd, work, Up
  <2> QED BY <2>1, UniqueStill, Zenon
<1> QED BY <1>1, <1>2, <1>3, <1>4, <1>5, <1>6, <1>7, <1>8, <1>9, <1>10, <1>11, <1>12, <1>13, Zenon DEF Next

\* "AllocateIPAddress allocates a free ip address": whatever pools, nodes and
\* services there are, while pools and nodes only come, services are set and
\* deleted once up, and no pod moves, two interfaces never hold the same number
\* of one allocator, through failed renderings, exhaustion, panics, crashes and
\* the marking at a restart (AllocateIPAddress, SetAddress,
\* UpdateRamCacheAllocatorsForInterfaceStatus).
THEOREM AddressesUniqueHolds ==
  ASSUME SteadyRequests, BoundedRanges
  PROVE  Spec => []AddressesUnique
<1>1. Init => Typed /\ Renders /\ Unique
  <2>1. Init => Renders
    BY Zenon DEF Init, Renders, NoWork
  <2> QED BY <2>1, TypedInit, UniqueInit, Zenon
<1>2. Typed /\ Renders /\ Unique /\ [Next]_vars => (Typed /\ Renders /\ Unique)'
  BY TypedNext, RendersNext, UniqueNext, Zenon
<1>3. Unique => AddressesUnique
  BY Zenon DEF Unique, InRAM, Distinct, Name, AddressesUnique
<1> QED BY <1>1, <1>2, <1>3, PTL DEF Spec

-----------------------------------------------------------------------------
(* Addresses lie in their network.                                         *)

LEMMA RangeInNetwork ==
  ASSUME BoundedRanges, NEW spec \in PoolSpecs, NEW id \in U32,
         InRange(NewIPAMPoolAllocator(spec), id), spec.end < 2^spec.hostBits - 1
  PROVE  id < 2^spec.hostBits - 1
<1>1. PICK size \in Nat \ {0} : size = 2^spec.hostBits
  BY PoolSpecsAssumption, PowersType, Zenon
<1>2. PICK last : last = NewIPAMPoolAllocator(spec).end /\ last # MaxU32 /\ id <= last
  BY Zenon DEF BoundedRanges, InRange
<1>3. spec.end \in Nat /\ id \in Nat
  BY PoolSpecsAssumption, U32Facts, Zenon
<1>4. CASE spec.end # 0
  <2>1. last = spec.end
    BY <1>2, <1>4, Zenon DEF NewIPAMPoolAllocator
  <2>2. last < size - 1
    BY <1>1, <2>1
  <2>3. last \in Nat
    BY <1>3, <2>1, Zenon
  <2> QED BY <1>1, <1>2, <1>3, <2>2, <2>3
<1>5. CASE spec.end = 0
  <2>1. PICK M \in Nat \ {0} : M = 2^W /\ MaxU32 = M - 1
    BY U32Facts, Zenon DEF MaxU32
  <2>2. last = (size - 2) % M
    BY <1>1, <1>2, <1>5, <2>1, Zenon DEF NewIPAMPoolAllocator, Wrap
  <2>3. size # 1
    BY <1>2, <2>1, <2>2
  <2>4. last \in Nat /\ last <= size - 2
    BY <2>1, <2>2, <2>3
  <2> QED BY <1>1, <1>2, <1>3, <2>4
<1> QED BY <1>4, <1>5, Zenon

\* Every status in RAM, while the process comes up and fails to as well.
AllStored == \A i \in Ifaces : ifStates[i] # None => Stored(i, ifStates[i])

LEMMA StepOutcome ==
  ASSUME Typed, [Next]_vars
  PROVE  UNCHANGED vars \/ Start \/ (ClearRAM /\ ~Up') \/ (Up /\ Up')
<1>1. CASE BootRender \/ RenderEnd
  BY <1>1, Zenon DEF BootRender, RenderEnd, Up
<1>2. CASE Crash
  BY <1>2, Zenon DEF Crash, Up
<1>3. RequestMade => Up /\ Up'
  BY Zenon DEF RequestMade, Up
<1>4. ASSUME NEW p \in Pools, PoolD(p) PROVE Up /\ Up'
  BY <1>4, Zenon DEF PoolD, RenderIfRunning, Up
<1>5. ASSUME NEW p \in Pools, NEW spec \in PoolSpecs, PoolCU(p, spec) PROVE Up /\ Up'
  BY <1>3, <1>5, PoolCUEffect, Zenon
<1>6. ASSUME NEW e \in Entities, EntityD(e) PROVE Up /\ Up'
  BY <1>3, <1>6, EntityDEffect, Zenon
<1>7. ASSUME NEW e \in Entities, RenderStart(e) PROVE Up /\ Up'
  BY <1>7, Zenon DEF RenderStart, Up
<1>8. ASSUME NEW e \in Entities, NEW spec \in SpecsOf(e), EntityCU(e, spec) PROVE Up /\ Up'
  BY <1>3, <1>8, EntityCUEffect, Zenon
<1>9. ASSUME NEW i \in Ifaces, NEW n \in Hosts, Move(i, n) PROVE Up /\ Up'
  BY <1>9, Zenon DEF Move, RenderIfRunning, Up
<1>10. CASE RenderInterface
  <2>1. PICK i \in Ifaces, r \in Results, q \in Results :
          pc = "render" /\ cur \in Entities /\ entities[cur] # None /\ RenderedInterface(i, r, q)
    BY <1>10, RenderInterfaceEffect, Zenon
  <2>2. Panicked(r, q) \/ Persisted(i, r, q) \/ Failed(i, r, q)
    BY <2>1, RenderedEffect, Zenon
  <2> QED BY <2>1, <2>2, Zenon DEF Panicked, Persisted, Failed, Up
<1>11. CASE RenderComplete
  BY <1>11, RenderCompleteEffect, Zenon DEF Up
<1> QED BY <1>1, <1>2, <1>4, <1>5, <1>6, <1>7, <1>8, <1>9, <1>10, <1>11, Zenon DEF Next

LEMMA AllStoredNext ==
  ASSUME BoundedRanges, Typed, Unique, Unique', AllStored, [Next]_vars
  PROVE  AllStored'
<1>1. CASE UNCHANGED vars
  <2>1. Grew /\ ifStates' = ifStates
    BY <1>1, Zenon DEF vars, Grew
  <2>2. ASSUME NEW i \in Ifaces, NEW st, st = ifStates[i], st # None PROVE Stored(i, st)'
    BY <2>1, <2>2, StoredFrame, Zenon DEF AllStored
  <2> QED BY <2>1, <2>2, Zenon DEF AllStored
<1>2. CASE Start
  <2>1. Grew /\ ifStates' = LoadedStates
    BY <1>2, StartEffect, Zenon DEF Started, Grew
  <2>2. ASSUME NEW i \in Ifaces, NEW st, st = LoadedStates[i], st # None PROVE Stored(i, st)'
    BY <2>1, <2>2, AllSettable, StoredFrame, Zenon
  <2> QED BY <2>1, <2>2, Zenon DEF AllStored
<1>3. CASE ClearRAM
  BY <1>3, Zenon DEF ClearRAM, NoStatuses, AllStored
<1>4. CASE Up'
  BY <1>4, Zenon DEF Unique, InRAM, Marked, AllStored
<1> QED BY <1>1, <1>2, <1>3, <1>4, StepOutcome, Zenon

LEMMA HostNumber ==
  ASSUME BoundedRanges, NEW spec \in PoolSpecs, NEW id \in U32,
         InRange(NewIPAMPoolAllocator(spec), id), spec.end < 2^spec.hostBits - 1
  PROVE  LET size == 2^spec.hostBits
             addr == BitOr(spec.net, id)
         IN  addr \div size = spec.net \div size /\ addr % size \notin {0, size - 1}
<1>1. spec.net \in U32 /\ spec.hostBits \in 0..W /\ spec.start \in U32 /\ id \in Nat
  BY PoolSpecsAssumption, U32Facts, Zenon
<1>2. spec.net % 2^spec.hostBits = 0 /\ id < 2^spec.hostBits /\ id # 2^spec.hostBits - 1
  <2>1. PICK size \in Nat \ {0} : size = 2^spec.hostBits
    BY PoolSpecsAssumption, PowersType, Zenon
  <2>2. id < size - 1
    BY <2>1, RangeInNetwork, Zenon
  <2>3. id < size /\ id # size - 1
    BY <1>1, <2>1, <2>2
  <2> QED BY <2>1, <2>3, PoolSpecsAssumption, Zenon
<1>3. /\ BitOr(spec.net, id) \div 2^spec.hostBits = spec.net \div 2^spec.hostBits
      /\ BitOr(spec.net, id) % 2^spec.hostBits = id
  BY <1>1, <1>2, InNetwork, Zenon
<1>4. id # 0
  <2>1. PICK first \in Nat : first = NewIPAMPoolAllocator(spec).start /\ first # 0
    <3>1. NewIPAMPoolAllocator(spec).start = IF spec.start = 0 THEN 1 ELSE spec.start
      BY Zenon DEF NewIPAMPoolAllocator
    <3>2. spec.start \in Nat
      BY <1>1, U32Facts, Zenon
    <3>3. 1 # 0 /\ 1 \in Nat
      OBVIOUS
    <3> QED BY <3>1, <3>2, <3>3, Zenon
  <2>2. first <= id
    BY <2>1, Zenon DEF InRange
  <2> QED BY <1>1, <2>1, <2>2
<1> QED BY <1>2, <1>3, <1>4, Zenon

\* "AllocateIPAddress allocates a free ip address from the pool": whatever pools,
\* nodes and services there are, while requests are steady and no range ends at
\* the largest number, the number an interface holds lies in its pool's range,
\* configured or not, and its address is a host address of the pool's network
\* whenever that range ends before the broadcast address, the bitwise or of
\* formatIPAddress included (AllocateIPAddress, SetAddress).
THEOREM HostAddressesHolds ==
  ASSUME SteadyRequests, BoundedRanges
  PROVE  Spec => []HostAddresses
<1>1. Init => Typed /\ Renders /\ Unique /\ AllStored
  <2>1. Init => Renders /\ AllStored
    BY Zenon DEF Init, Renders, NoWork, AllStored, NoStatuses
  <2> QED BY <2>1, TypedInit, UniqueInit, Zenon
<1>2. Typed /\ Renders /\ Unique /\ AllStored /\ [Next]_vars => (Typed /\ Renders /\ Unique /\ AllStored)'
  <2> SUFFICES ASSUME Typed, Renders, Unique, AllStored, [Next]_vars
               PROVE  (Typed /\ Renders /\ Unique /\ AllStored)'
    BY Zenon
  <2>1. Typed' /\ Renders'
    BY TypedNext, RendersNext, Zenon
  <2>2. Unique'
    BY <2>1, UniqueNext, Zenon
  <2> QED BY <2>1, <2>2, AllStoredNext, Zenon
<1>3. Typed /\ AllStored => HostAddresses
  <2> SUFFICES ASSUME Typed, AllStored, NEW i \in Ifaces, NEW p \in Pools,
                      ifStates[i] # None, pools[p] # None, ifStates[i].nums[p] # None
               PROVE  LET num  == ifStates[i].nums[p]
                          size == 2^pools[p].hostBits
                          addr == BitOr(pools[p].net, num)
                      IN  /\ InRange(NewIPAMPoolAllocator(pools[p]), num)
                          /\ pools[p].end < size - 1 =>
                               addr \div size = pools[p].net \div size /\ addr % size \notin {0, size - 1}
    BY Zenon DEF HostAddresses
  <2>1. ifStates[i] \in IfaceStatuses /\ pools[p] \in PoolSpecs
    BY TypedFacts, Zenon DEF PoolsOK
  <2>2. ifStates[i].nums[p] \in U32
    BY <2>1, Zenon DEF IfaceStatuses, Ids
  <2>3. InRange(NewIPAMPoolAllocator(pools[p]), ifStates[i].nums[p])
    BY Zenon DEF AllStored, Stored, Held, Restorable
  <2> QED BY <2>1, <2>2, <2>3, HostNumber, Zenon
<1> QED BY <1>1, <1>2, <1>3, PTL DEF Spec

-----------------------------------------------------------------------------
(* What is down is down for a reason.                                      *)

\* The numbers of a status in RAM are marked: SetAddress takes all of them and
\* changes nothing.
LEMMA SetNothing ==
  ASSUME Typed, InRAM, NEW i \in Ifaces, NEW st, st = Begin(i, NodeOf(i))
  PROVE  /\ Settable(allocators, st, NodeOf(i), Owner(i)) = Held(st)
         /\ SetAll(allocators, st, Held(st), NodeOf(i), Owner(i)) = allocators
<1>1. ASSUME NEW p \in Held(st)
      PROVE  /\ p \in Pools /\ pools[p] # None /\ Name(i, p) \in AllocatorNames /\ Name(i, p)[2] = p
             /\ allocators[Name(i, p)] \in Allocators
             /\ st.nums[p] \in allocators[Name(i, p)].allocated
             /\ p \in Settable(allocators, st, NodeOf(i), Owner(i))
  <2>1. p \in Pools /\ st = ifStates[i] /\ ifStates[i] # None
    BY <1>1, Zenon DEF Held, Begin, IfaceStatus, NoNums
  <2>2. Stored(i, st) /\ MarkedIn(allocators, i, st)
    BY <2>1, Zenon DEF InRAM, Marked
  <2>3. Restorable(i, p, st.nums[p])
    BY <1>1, <2>2, Zenon DEF Stored
  <2>4. pools[p] # None /\ InRange(NewIPAMPoolAllocator(pools[p]), st.nums[p])
    BY <2>3, Zenon DEF Restorable
  <2>5. Name(i, p) \in AllocatorNames /\ Name(i, p)[2] = p
    BY <2>1, <2>4, NameOf, Zenon
  <2>6. PICK a \in Allocators : a = allocators[Name(i, p)] /\ st.nums[p] \in a.allocated
    BY <1>1, <2>2, Zenon DEF MarkedIn
  <2>7. MadeFor(Name(i, p), a)
    BY <2>5, <2>6, Zenon DEF InRAM, Made
  <2>8. InRange(a, st.nums[p])
    BY <2>4, <2>5, <2>7, Zenon DEF MadeFor, InRange
  <2>9. a # None /\ a # Nil
    BY RecordsAssumption, Zenon
  <2>10. AllocatorName(p, NodeOf(i), Owner(i)) = Name(i, p)
    BY Zenon DEF Name
  <2>11. Usable(allocators, p, NodeOf(i), Owner(i)) /\ p \notin NilHeld(allocators, st, NodeOf(i), Owner(i))
    BY <2>4, <2>6, <2>9, <2>10, Zenon DEF Usable, NilHeld
  <2>12. p \in Settable(allocators, st, NodeOf(i), Owner(i))
    BY <1>1, <2>6, <2>8, <2>10, <2>11, Zenon DEF Settable
  <2> QED BY <2>1, <2>4, <2>5, <2>6, <2>12, Zenon
<1>2. Settable(allocators, st, NodeOf(i), Owner(i)) = Held(st)
  BY <1>1, Zenon DEF Settable
<1>3. PICK al : al = SetAll(allocators, st, Held(st), NodeOf(i), Owner(i))
  BY Zenon
<1>4. ASSUME NEW n \in AllocatorNames PROVE al[n] = allocators[n]
  <2>1. CASE \E p \in Held(st) : AllocatorName(p, NodeOf(i), Owner(i)) = n
    <3>1. PICK p \in Held(st) : Name(i, p) = n
      BY <2>1, Zenon DEF Name
    <3>7. PICK x : x = st.nums[n[2]]
      BY Zenon
    <3>2. PICK a \in Allocators : a = allocators[n] /\ x \in a.allocated
      BY <1>1, <3>1, <3>7, Zenon
    <3>3. al[n] = SetAddress(a, x)
      BY <1>3, <2>1, <3>2, <3>7, Zenon DEF SetAll
    <3>4. a.allocated \cup {x} = a.allocated
      BY <3>2, Zenon
    <3>5. [a EXCEPT !.allocated = a.allocated] = a
      BY Zenon DEF Allocators
    <3>6. SetAddress(a, x) = a
      BY <3>4, <3>5, Zenon DEF SetAddress
    <3> QED BY <3>2, <3>3, <3>6, Zenon
  <2>2. CASE ~\E p \in Held(st) : AllocatorName(p, NodeOf(i), Owner(i)) = n
    BY <1>3, <2>2, Zenon DEF SetAll
  <2> QED BY <2>1, <2>2, Zenon
<1>5. allocators = [n \in AllocatorNames |-> allocators[n]]
  BY TypedVars, Zenon DEF AllocatorMaps
<1>6. al = [n \in AllocatorNames |-> al[n]]
  BY <1>3, Zenon DEF SetAll
<1> QED BY <1>2, <1>3, <1>4, <1>5, <1>6, Zenon

LEMMA RenderInterfaceCause ==
  ASSUME Typed, Unique, RenderInterface, NEW i, i = Head(rest)
  PROVE  \/ pc' = "panic"
         \/ /\ \A n \in AllocatorNames : Kept(allocators[n], allocators'[n])
            /\ \/ ifStates'[i] # None
               \/ \E m \in 1..Len(entities[cur].spec[i].pools) :
                    Blocked(allocators', entities[cur].spec[i].pools[m], NodeOf(i), cur)
<1>1. /\ pc = "render" /\ cur \in Entities /\ entities[cur] # None
      /\ i \in IfacesIn(cur) /\ i \in Ifaces /\ Owner(i) = cur
  BY RenderInterfaceEffect, Zenon
<1>2. InRAM
  BY <1>1, Zenon DEF Unique, Up
<1>3. NodeOf(i) \in Nodes
  BY <1>1, TypedFacts, NodeOfType, Zenon
<1>4. PICK spec \in IfaceSpecs : spec = entities[Owner(i)].spec[i]
  BY <1>1, TypedFacts, EntityRecordFacts, SpecFacts, Zenon
<1>5. spec.pools \in Seq(Pools)
  BY IfaceSpecsAssumption, Zenon
<1>6. PICK st : st = Begin(i, NodeOf(i))
  BY Zenon
<1>7. PICK ps \in SetChoices(allocators, Begin(i, NodeOf(i)), NodeOf(i), Owner(i)),
           end \in SetEnds(allocators, Begin(i, NodeOf(i)), NodeOf(i), Owner(i)) :
        Handled(i, GatherAddresses(i, ps, end, NodeOf(i), Owner(i)))
  BY RenderInterfaceCall, Zenon
<1>8. PICK q : q = GatherAddresses(i, ps, end, NodeOf(i), Owner(i))
  BY Zenon
<1>9. Settable(allocators, st, NodeOf(i), Owner(i)) = Held(st)
      /\ SetAll(allocators, st, Held(st), NodeOf(i), Owner(i)) = allocators
  BY <1>1, <1>2, <1>6, SetNothing, Zenon
<1>10. ps = Held(st) /\ end = "ok"
  BY <1>6, <1>7, <1>9, Zenon DEF SetChoices, SetEnds
<1>11. PICK r \in Results : StartedFrom(r, i, ps, end, NodeOf(i), Owner(i))
  <2>1. /\ PoolsOK /\ allocators \in AllocatorMaps /\ Owner(i) \in Entities
        /\ ifStates \in [Ifaces -> IfaceStatuses \cup {None}]
    BY <1>1, TypedFacts, Zenon
  <2> QED BY <1>1, <1>3, <1>4, <1>6, <1>7, <2>1, InitFacts, Zenon
<1>12. /\ r.al = SetAll(allocators, st, ps, NodeOf(i), Owner(i)) /\ r.end = end
       /\ q = AllocateAll(r, spec.pools, NodeOf(i), Owner(i)) /\ q \in Results
  BY <1>4, <1>6, <1>8, <1>11, Zenon DEF StartedFrom, Extends
<1>13. r.al = allocators /\ r.end = "ok"
  BY <1>9, <1>10, <1>12, Zenon
<1>14. /\ \A n \in AllocatorNames : Kept(r.al[n], q.al[n])
       /\ q.end = "error" => \E m \in 1..Len(spec.pools) : Blocked(q.al, spec.pools[m], NodeOf(i), Owner(i))
  BY <1>1, <1>3, <1>5, <1>12, <1>13, AllocateAllCause, TypedFacts, Zenon
<1>15. CASE pc' = "panic"
  BY <1>15, Zenon
<1>16. CASE q.end = "ok" /\ allocators' = q.al /\ ifStates' = [ifStates EXCEPT ![i] = q.st]
  <2>1. ifStates'[i] = q.st
    BY <1>1, <1>16, TypedVars, Zenon
  <2>2. q.st # None
    BY <1>12, ResultFacts, RecordsAssumption, Zenon
  <2> QED BY <1>13, <1>14, <1>16, <2>1, <2>2, Zenon
<1>17. CASE q.end = "error" /\ allocators' = q.al
  <2>1. \E m \in 1..Len(spec.pools) : Blocked(allocators', spec.pools[m], NodeOf(i), cur)
    BY <1>1, <1>14, <1>17, Zenon
  <2>2. \A n \in AllocatorNames : Kept(allocators[n], allocators'[n])
    BY <1>13, <1>14, <1>17, Zenon
  <2> QED BY <1>1, <1>4, <2>1, <2>2, Zenon
<1> QED BY <1>7, <1>8, <1>15, <1>16, <1>17, Zenon DEF Handled

LEMMA AllMadeNext ==
  ASSUME SteadyRequests, Typed, Unique, AllMade, [Next]_vars
  PROVE  AllMade'
<1>1. ASSUME Up, UNCHANGED <<pools, allocators>>, Configured(entities') = Configured(entities) PROVE AllMade'
  BY <1>1, SameWanted, Zenon
<1>2. CASE ~Up'
  BY <1>2, Zenon DEF AllMade
<1>3. CASE Start
  <2>1. pools' = pools /\ Configured(entities') = Configured(saved)
    <3>1. pools' = pools /\ \A e \in Entities : saved[e] = None <=> entities'[e] = None
      BY <1>3, StartEffect, Zenon DEF Started
    <3> QED BY <3>1, Zenon DEF Configured
  <2> QED BY <1>3, <2>1, StartedAllocators, Zenon DEF AllMade
<1>4. CASE Up /\ (UNCHANGED vars \/ BootRender \/ RenderEnd)
  <2>1. UNCHANGED <<pools, allocators, entities>>
    BY <1>4, Zenon DEF vars, BootRender, RenderEnd
  <2> QED BY <1>1, <1>4, <2>1, Zenon DEF Configured
<1>5. ASSUME NEW p \in Pools, PoolD(p) PROVE AllMade'
  BY <1>5, Zenon DEF PoolD, Request, SteadyRequests
<1>6. ASSUME NEW p \in Pools, NEW spec \in PoolSpecs, PoolCU(p, spec) PROVE AllMade'
  BY <1>6, AllMadePoolCU, Zenon
<1>7. ASSUME NEW e \in Entities, EntityD(e) PROVE AllMade'
  BY <1>7, AllMadeEntityD, Zenon
<1>8. ASSUME NEW e \in Entities, RenderStart(e) PROVE AllMade'
  <2>1. UNCHANGED <<pools, allocators>> /\ Up
    BY <1>8, RenderStartEffect, Zenon DEF Up
  <2>2. \A d \in Entities : entities'[d] = None <=> entities[d] = None
    BY <1>8, RenderStartEffect, Zenon
  <2> QED BY <1>1, <2>1, <2>2, Zenon DEF Configured
<1>9. ASSUME NEW e \in Entities, NEW spec \in SpecsOf(e), EntityCU(e, spec) PROVE AllMade'
  BY <1>9, AllMadeEntityCU, Zenon
<1>10. ASSUME NEW i \in Ifaces, NEW n \in Hosts, Move(i, n) PROVE AllMade'
  BY <1>10, Zenon DEF Move, Request, SteadyRequests
<1>11. CASE RenderInterface /\ Up'
  <2>1. PICK i \in Ifaces, r \in Results, q \in Results :
          pc = "render" /\ cur \in Entities /\ entities[cur] # None /\ RenderedInterface(i, r, q)
    BY <1>11, RenderInterfaceEffect, Zenon
  <2>2. Panicked(r, q) \/ Persisted(i, r, q) \/ Failed(i, r, q)
    BY <2>1, RenderedEffect, Zenon
  <2>3. UNCHANGED <<pools, saved, host>> /\ allocators' = q.al /\ entities'[cur] # None
        /\ \A d \in Entities \ {cur} : entities'[d] = entities[d]
    BY <1>11, <2>2, Zenon DEF Panicked, Persisted, Failed, Up
  <2>4. InRAM /\ Up
    BY <2>1, Zenon DEF Unique, Up
  <2>5. \A n \in AllocatorNames : Grown(allocators[n], q.al[n])
    BY <2>1, <2>3, <2>4, NewStatus, Zenon
  <2>6. \A n \in AllocatorNames : allocators[n] # None => allocators'[n] # None
    BY <2>3, <2>5, NothingAssumption, Zenon DEF Grown
  <2>7. Configured(entities') = Configured(entities)
    BY <2>1, <2>3, Zenon DEF Configured
  <2> QED BY <2>3, <2>4, <2>6, <2>7, SameWanted, Zenon
<1>12. CASE RenderComplete
  <2>1. UNCHANGED <<pools, allocators>> /\ Up
    BY <1>12, RenderCompleteEffect, Zenon DEF Up
  <2>2. \A d \in Entities : entities'[d] = None <=> entities[d] = None
    BY <1>12, RenderCompleteEffect, Zenon
  <2> QED BY <1>1, <2>1, <2>2, Zenon DEF Configured
<1>13. Crash => ~Up'
  BY Zenon DEF Crash, Up
<1>14. ~Up => UNCHANGED vars \/ Start \/ ~Up'
  BY StepOutcome, Zenon
<1>15. UNCHANGED vars => (Up' <=> Up)
  BY Zenon DEF vars, Up
<1> QED BY <1>2, <1>3, <1>4, <1>5, <1>6, <1>7, <1>8, <1>9, <1>10, <1>11, <1>12, <1>13, <1>14, <1>15, Zenon DEF Next

LEMMA CausesRenderInterface ==
  ASSUME Typed, Unique, AllMade, AllMade', Causes, RenderInterface
  PROVE  Causes'
<1>1. PICK i \in Ifaces : i = Head(rest)
  BY RenderInterfaceEffect, Zenon
<1>2. PICK e : e = cur
  BY Zenon
<1>3. pc = "render" /\ e \in Entities /\ entities[e] # None /\ i \in IfacesIn(e)
  BY <1>1, <1>2, RenderInterfaceEffect, Zenon
<1>4. PICK r \in Results, q \in Results : RenderedInterface(i, r, q)
  BY <1>1, RenderInterfaceEffect, Zenon
<1>5. Panicked(r, q) \/ Persisted(i, r, q) \/ Failed(i, r, q)
  BY <1>2, <1>3, <1>4, RenderedEffect, Zenon
<1>6. CASE pc' = "panic"
  BY <1>6, Zenon DEF Causes
<1>7. CASE pc' # "panic"
  <2>1. /\ UNCHANGED <<pools, host, pc, todo, cur>>
        /\ entities'[e] # None /\ entities'[e].spec = entities[e].spec
        /\ \A d \in Entities \ {e} : entities'[d] = entities[d]
        /\ entities'[e].status.oper = entities[e].status.oper \/ ifStates' = [ifStates EXCEPT ![i] = None]
    BY <1>2, <1>5, <1>7, Zenon DEF Panicked, Persisted, Failed
  <2>2. /\ \A n \in AllocatorNames : Kept(allocators[n], allocators'[n])
        /\ \/ ifStates'[i] # None
           \/ \E m \in 1..Len(entities[e].spec[i].pools) :
                Blocked(allocators', entities[e].spec[i].pools[m], NodeOf(i), e)
    BY <1>1, <1>2, <1>7, RenderInterfaceCause, Zenon
  <2>3. \A d \in Entities : entities'[d] = None <=> entities[d] = None
    BY <1>3, <2>1, Zenon
  <2>4. ASSUME NEW d \in Entities, entities[d] # None, d \notin todo \/ d = cur,
               entities'[d].spec = entities[d].spec, entities[d].status.oper = "Down"
        PROVE  Cause(d)'
    BY <1>3, <2>1, <2>2, <2>3, <2>4, CausesFrame, Zenon
  <2>5. ASSUME NEW d \in Entities \ {e}, entities'[d] # None, d \notin todo' \/ d = cur',
               entities'[d].status.oper = "Down"
        PROVE  Cause(d)'
    <3>1. entities'[d] = entities[d]
      BY <2>1, Zenon
    <3> QED BY <2>1, <2>4, <2>5, <3>1, Zenon
  <2>6. CASE entities'[e].status.oper = entities[e].status.oper
    <3>1. entities'[e].status.oper = "Down" => Cause(e)'
      BY <1>2, <1>3, <2>1, <2>4, <2>6, Zenon
    <3> QED BY <2>5, <3>1, Zenon DEF Causes, Configured
  <2>7. CASE ifStates' = [ifStates EXCEPT ![i] = None]
    <3>1. ifStates'[i] = None
      BY <2>7, TypedVars, Zenon
    <3>2. PICK m \in 1..Len(entities[e].spec[i].pools) :
            Blocked(allocators', entities[e].spec[i].pools[m], NodeOf(i), e)
      BY <2>2, <3>1, Zenon
    <3>3. PICK w \in Seq(Pools) : w = entities[e].spec[i].pools
      <4>1. entities[e].spec[i] \in IfaceSpecs
        BY <1>3, TypedFacts, EntityRecordFacts, SpecFacts, Zenon
      <4> QED BY <4>1, IfaceSpecsAssumption, Zenon
    <3>4. \A k \in 1..Len(w) : w[k] \in Pools
      BY <3>3
    <3>5. PICK p \in Pools : p = entities[e].spec[i].pools[m]
      BY <3>2, <3>3, <3>4, Zenon
    <3>6. PICK node \in Nodes : node = NodeOf(i)
      BY TypedFacts, NodeOfType, Zenon
    <3>7. NodeOf(i)' = node /\ node \in Entities
      BY <2>1, <3>6, Zenon DEF NodeOf, Entities
    <3>8. Blocked(allocators', p, node, e)
      BY <3>2, <3>5, <3>6, Zenon
    <3>9. p = entities'[e].spec[i].pools[m] /\ m \in 1..Len(entities'[e].spec[i].pools)
      BY <2>1, <3>2, <3>5, Zenon
    <3>10. entities[node] = None => CauseAt(e, i)'
      BY <2>3, <3>7, Zenon DEF CauseAt
    <3>11. ASSUME pools[p] = None \/ (pools[p].scope = ScopeService /\ e \in Nodes) PROVE CauseAt(e, i)'
      BY <2>1, <3>9, <3>11, Zenon DEF CauseAt
    <3>12. ASSUME pools[p] # None, entities[node] # None, ~(pools[p].scope = ScopeService /\ e \in Nodes)
           PROVE  CauseAt(e, i)'
      <4>1. PICK n : n = AllocatorName(p, node, e)
        BY Zenon
      <4>2. n \in Wanted(pools, Configured(entities))
        BY <1>3, <3>12, <4>1, TypedFacts, NamedIsWanted, Zenon
      <4>3. pools' = pools /\ Configured(entities') = Configured(entities) /\ Up'
        BY <1>3, <2>1, <2>3, Zenon DEF Configured, Up
      <4>4. allocators'[n] # None
        BY <4>2, <4>3, Zenon DEF AllMade
      <4>5. Exhausted(allocators'[n])
        BY <3>8, <3>12, <4>1, <4>4, Zenon DEF Blocked
      <4>6. AllocatorName(p, NodeOf(i), e)' = n
        BY <2>1, <3>7, <4>1, Zenon DEF AllocatorName
      <4> QED BY <3>9, <4>4, <4>5, <4>6, Zenon DEF CauseAt
    <3>13. CauseAt(e, i)'
      BY <3>10, <3>11, <3>12, Zenon
    <3>14. Cause(e)'
      BY <1>3, <3>13, Zenon DEF Cause
    <3> QED BY <2>5, <3>14, Zenon DEF Causes, Configured
  <2> QED BY <2>1, <2>6, <2>7, Zenon
<1> QED BY <1>6, <1>7, Zenon

LEMMA CausesNext ==
  ASSUME SteadyRequests, Typed, Renders, Unique, AllMade, AllMade', Causes, [Next]_vars
  PROVE  Causes'
<1>1. None \notin Entities
  BY NothingAssumption, Zenon
<1>2. ASSUME todo' = Configured(entities'), cur' = None PROVE Causes'
  BY <1>1, <1>2, Zenon DEF Causes, Configured
<1>3. CASE pc' \notin {"idle", "render"}
  BY <1>3, Zenon DEF Causes
<1>4. CASE RequestMade
  <2>1. cur' = None
    BY <1>4, RequestTypes, Zenon
  <2> QED BY <1>2, <1>3, <1>4, <2>1, Zenon DEF RequestMade
<1>5. CASE BootRender
  <2>1. todo' = Configured(entities') /\ cur' = None
    <3>1. pc = "boot" /\ todo' = Configured(entities) /\ entities' = entities /\ cur' = cur
      BY <1>5, Zenon DEF BootRender
    <3>2. cur = None
      BY <3>1, TypedVars, Zenon
    <3> QED BY <3>1, <3>2, Zenon
  <2> QED BY <1>2, <2>1, Zenon
<1>6. CASE UNCHANGED vars \/ RenderEnd
  <2>1. UNCHANGED <<pools, allocators, entities, host, todo, cur>> /\ (pc' = pc \/ pc = "render")
    BY <1>6, Zenon DEF vars, work, RenderEnd
  <2>2. \A n \in AllocatorNames : Kept(allocators[n], allocators'[n])
    BY <2>1, KeptFacts, Zenon
  <2>3. ASSUME pc \in {"idle", "render"}, NEW e \in Entities, entities[e] # None, e \notin todo \/ e = cur,
               entities[e].status.oper = "Down"
        PROVE  Cause(e)'
    BY <2>1, <2>2, <2>3, CausesFrame, Zenon
  <2> QED BY <1>3, <2>1, <2>3, Zenon DEF Causes, Configured
<1>7. ASSUME NEW p \in Pools, PoolD(p) PROVE Causes'
  BY <1>7, Zenon DEF PoolD, Request, SteadyRequests
<1>8. ASSUME NEW p \in Pools, NEW spec \in PoolSpecs, PoolCU(p, spec) PROVE Causes'
  BY <1>4, <1>8, PoolCUEffect, Zenon
<1>9. ASSUME NEW e \in Entities, EntityD(e) PROVE Causes'
  BY <1>4, <1>9, EntityDEffect, Zenon
<1>10. ASSUME NEW e \in Entities, NEW spec \in SpecsOf(e), EntityCU(e, spec) PROVE Causes'
  BY <1>4, <1>10, EntityCUEffect, Zenon
<1>11. ASSUME NEW i \in Ifaces, NEW n \in Hosts, Move(i, n) PROVE Causes'
  BY <1>11, Zenon DEF Move, Request, SteadyRequests
<1>12. ASSUME NEW e \in Entities, RenderStart(e) PROVE Causes'
  BY <1>12, CausesRenderStart, Zenon
<1>13. CASE RenderInterface
  BY <1>13, CausesRenderInterface, Zenon
<1>14. CASE RenderComplete
  <2>1. PICK e : e = cur
    BY Zenon
  <2>2. /\ e \in Entities /\ entities[e] # None /\ pc = "render" /\ cur' = None
        /\ entities'[e] # None /\ entities'[e].spec = entities[e].spec
        /\ entities'[e].status.oper = Verdict(entities[e].status.oper)
        /\ \A d \in Entities \ {e} : entities'[d] = entities[d]
        /\ UNCHANGED <<pools, allocators, host, pc, todo>>
    BY <1>14, <2>1, RenderCompleteEffect, Zenon
  <2>3. \A n \in AllocatorNames : Kept(allocators[n], allocators'[n])
    BY <2>2, KeptFacts, Zenon
  <2>4. \A d \in Entities : entities'[d] = None <=> entities[d] = None
    BY <2>2, Zenon
  <2>5. entities'[e].status.oper = "Down" => entities[e].status.oper = "Down"
    <3>1. entities[e].status.oper \in {NoError, "Down"}
      BY <1>1, <2>1, <2>2, Zenon DEF Renders, Underway
    <3> QED BY <2>2, <3>1, OperFacts, Zenon
  <2>6. ASSUME NEW d \in Entities, entities'[d] # None, d \notin todo', entities'[d].status.oper = "Down"
        PROVE  Cause(d)'
    <3>1. /\ entities[d] # None /\ (d \notin todo \/ d = cur) /\ pc \in {"idle", "render"}
          /\ entities'[d].spec = entities[d].spec /\ entities[d].status.oper = "Down"
      BY <2>2, <2>4, <2>5, <2>6, Zenon
    <3> QED BY <2>2, <2>3, <2>4, <3>1, CausesFrame, Zenon
  <2> QED BY <1>1, <2>2, <2>6, Zenon DEF Causes, Configured
<1>15. CASE Start \/ Crash
  <2>1. pc' \notin {"idle", "render"}
    BY <1>15, StartEffect, Zenon DEF Started, Crash
  <2> QED BY <1>3, <2>1, Zenon
<1> QED BY <1>5, <1>6, <1>7, <1>8, <1>9, <1>10, <1>11, <1>12, <1>13, <1>14, <1>15, Zenon DEF Next

\* Whatever pools, nodes and services there are, while requests are steady a
\* node or service that the rendering has left "Down" shows why: its pod is on
\* no configured node, or a pool its interface asks for is missing, is not for
\* such an entity, or is used up.  An allocator EntityCreate forgot is no reason
\* (RenderNode, RenderService, AllocateAddress, EntityCreate).
THEOREM DownHasCauseHolds ==
  ASSUME SteadyRequests, BoundedRanges
  PROVE  Spec => []DownHasCause
<1> DEFINE Inv == Typed /\ Renders /\ Unique /\ AllMade /\ Causes
<1>1. Init => Inv
  <2>1. Init => Renders /\ AllMade /\ Causes
    BY Zenon DEF Init, Renders, NoWork, AllMade, Causes, Up
  <2> QED BY <2>1, TypedInit, UniqueInit, Zenon
<1>2. Inv /\ [Next]_vars => Inv'
  <2> SUFFICES ASSUME Typed, Renders, Unique, AllMade, Causes, [Next]_vars PROVE Inv'
    BY Zenon
  <2>1. Typed' /\ Renders'
    BY TypedNext, RendersNext, Zenon
  <2>2. Unique'
    BY <2>1, UniqueNext, Zenon
  <2>3. AllMade'
    BY AllMadeNext, Zenon
  <2>4. Causes'
    BY <2>3, CausesNext, Zenon
  <2> QED BY <2>1, <2>2, <2>3, <2>4, Zenon
<1>3. Inv => DownHasCause
  <2> SUFFICES ASSUME Typed, Causes, pc = "idle", NEW e \in Configured(entities),
                      entities[e].status.oper = "Down"
               PROVE  \E n \in 1..Len(IfacesOf[e]) : CauseAt(e, IfacesOf[e][n])
    BY Zenon DEF DownHasCause, CauseAt
  <2>1. Cause(e)
    BY TypedVars, Zenon DEF Causes
  <2>2. PICK i \in IfacesIn(e) : CauseAt(e, i)
    BY <2>1, Zenon DEF Cause
  <2> QED BY <2>2, Zenon DEF IfacesIn
<1> QED BY <1>1, <1>2, <1>3, PTL DEF Spec
=============================================================================

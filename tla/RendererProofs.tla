---------------------------- MODULE RendererProofs ----------------------------
(***************************************************************************)
(* Proofs about Renderer for every set of nodes, services, specs, keys and *)
(* values, every Renderings, and every bound: its typing, that             *)
(* ramCache.VppEntries mirrors the VPP-agent part of etcd, and that what   *)
(* the entities rendered is what the transaction delivers to etcd.         *)
(***************************************************************************)
EXTENDS Renderer, TLAPS

USE NoneAssumption, RenderingsAssumption, BoundsAssumption DEF Faults

LEMMA MergeType ==
  ASSUME NEW a \in Maps, NEW b \in Maps
  PROVE  Merge(a, b) \in Maps
BY Zenon DEF Merge, Maps

LEMMA EmptyType == Empty \in Maps
BY Zenon DEF Empty, Maps

\* What an etcd step leaves of the types.
LEMMA DeleteKeyType ==
  ASSUME TypeOK, NEW k \in Keys, DeleteKey(k)
  PROVE  etcd' \in Maps /\ faults' \in [Faults -> Nat]
BY DEF TypeOK, DeleteKey, Maps, Failed

LEMMA SaveEntityType ==
  ASSUME TypeOK, NEW e \in Entities, NEW r \in Records \cup {None}, SaveEntity(e, r)
  PROVE  config' \in [Entities -> Records \cup {None}] /\ faults' \in [Faults -> Nat]
BY DEF TypeOK, SaveEntity, Failed

LEMMA ClearRAMType ==
  ASSUME ClearRAM
  PROVE  /\ cache' \in [Entities -> Records \cup {None}] /\ vppEntries' \in Maps
         /\ beforeMap' \in Maps /\ afterMap' \in Maps /\ contrib' \in [Entities -> Maps]
         /\ enabled' \in BOOLEAN /\ pending' \in BOOLEAN
         /\ boot' \in {"enable", "resync", "render", "done"}
         /\ victim' \in Entities \cup {None}
         /\ toRender' = {} /\ toDelete' \in SUBSET Keys /\ toWrite' \in SUBSET Keys
BY EmptyType, Zenon DEF ClearRAM, NoEntities, NoContrib

LEMMA FailedType ==
  ASSUME TypeOK, NEW kind \in Faults, Failed(kind)
  PROVE  faults' \in [Faults -> Nat]
BY DEF TypeOK, Failed

LEMMA LoadType ==
  ASSUME TypeOK
  PROVE  LoadVppEntries \in Maps
BY Zenon DEF TypeOK, LoadVppEntries, Maps

LEMMA RecordTypes ==
  /\ \A s \in Specs, valid \in BOOLEAN : NewRecord(s, valid) \in Records
  /\ TypeOK => \A e \in Entities, m \in Maps, st \in Statuses :
       cache[e] # None => /\ RenderedRecord(e, st, Present(m)) \in Records
                          /\ RenderedRecord(e, st, {}) \in Records
BY Zenon DEF NewRecord, Records, Statuses, TypeOK, RenderedRecord, Present
-----------------------------------------------------------------------------
(* Types.                                                                  *)

\* RenderAll only visits entities that are in the cache, and a delete in
\* progress has a victim.
WorkOK ==
  /\ pc # "render" => toRender = {}
  /\ \A e \in toRender : cache[e] # None
  /\ pc = "del" => victim \in Entities

TypeInv == TypeOK /\ WorkOK

LEMMA TypeInit == Init => TypeInv
<1> SUFFICES ASSUME Init PROVE TypeInv
  BY Zenon
<1>1. NoEntities \in [Entities -> Records \cup {None}] /\ NoContrib \in [Entities -> Maps]
  BY EmptyType, Zenon DEF NoEntities, NoContrib
<1>2. faults \in [Faults -> Nat]
  BY Zenon DEF Init
<1>3. enabled \in BOOLEAN /\ pending \in BOOLEAN
  BY Zenon DEF Init
<1> QED BY <1>1, <1>2, <1>3, EmptyType, Zenon DEF Init, TypeInv, TypeOK, WorkOK

LEMMA TypeStartup == TypeInv /\ Startup => TypeInv'
<1> SUFFICES ASSUME TypeInv, Startup PROVE TypeInv'
  BY Zenon
<1> USE DEF TypeInv, WorkOK
<1>1. CASE Start
  BY <1>1, LoadType, Zenon DEF Start, TypeOK, store, txn, loop, work, count, Up
<1>2. CASE StartClean
  BY <1>2, LoadType DEF StartClean, TypeOK, txn, loop, count, Up, Present, NoEntities, Failed
<1>3. ASSUME NEW e \in Entities, NEW s \in Specs, NEW valid \in BOOLEAN, YamlCU(e, s, valid)
      PROVE  TypeInv'
  BY <1>3, RecordTypes DEF YamlCU, TypeOK, txn, loop, work
<1>4. CASE YamlExit
  BY <1>4, ClearRAMType, FailedType, Zenon DEF YamlExit, TypeOK, store, count
<1>5. CASE YamlInvalidService
  BY <1>5, ClearRAMType, FailedType DEF YamlInvalidService, Panic, TypeOK, store, count
<1> QED BY <1>1, <1>2, <1>3, <1>4, <1>5, Zenon DEF Startup

LEMMA TypeBoot == TypeInv /\ BootMessage => TypeInv'
BY Zenon DEF TypeInv, WorkOK, BootMessage, ReceiveEnableRenderer, ReceiveRender, ReceiveBootResync,
       Resync, RenderIfPending, TypeOK, store, txn, work, count

LEMMA TypeMessage == TypeInv /\ Message => TypeInv'
<1> SUFFICES ASSUME TypeInv, Message PROVE TypeInv'
  BY Zenon
<1> USE DEF TypeInv, WorkOK
<1>1. ASSUME NEW changed \in BOOLEAN, ReceiveResync(changed) PROVE TypeInv'
  BY <1>1 DEF ReceiveResync, Receive, Resync, RenderIfPending, TypeOK, store, txn, work
<1>2. ASSUME NEW e \in Entities, NEW s \in Specs, NEW valid \in BOOLEAN, ReceiveCU(e, s, valid)
      PROVE  TypeInv'
  <2>1. config' \in [Entities -> Records \cup {None}] /\ faults' \in [Faults -> Nat]
    BY <1>2, SaveEntityType, RecordTypes, Zenon DEF ReceiveCU, HandleCU
  <2>2. cache' \in [Entities -> Records \cup {None}] /\ toRender' = {} /\ pc' \in {"txn", "idle"}
    BY <1>2, RecordTypes, Zenon DEF ReceiveCU, Receive, HandleCU, RenderIfPending, TypeOK, work
  <2> QED
    BY <1>2, <2>1, <2>2 DEF ReceiveCU, Receive, TypeOK, txn, work
<1>3. ASSUME NEW e \in Entities, ReceiveD(e) PROVE TypeInv'
  BY <1>3 DEF ReceiveD, Receive, TypeOK, Records, store, txn, loop
<1>4. ASSUME NEW e \in Entities, ReceiveDMissing(e) PROVE TypeInv'
  BY <1>4 DEF ReceiveDMissing, Receive, RenderIfPending, TypeOK, store, txn, work
<1>5. ASSUME NEW e \in Entities, ReceiveDNilStatus(e) PROVE TypeInv'
  BY <1>5, ClearRAMType, FailedType DEF ReceiveDNilStatus, Receive, Panic, TypeOK, store
<1>6. CASE ReceiveInvalidService
  BY <1>6, ClearRAMType, FailedType DEF ReceiveInvalidService, Receive, Panic, TypeOK, store
<1> QED BY <1>1, <1>2, <1>3, <1>4, <1>5, <1>6, Zenon DEF Message

LEMMA TypeStop == TypeInv /\ (Stop \/ Crash) => TypeInv'
BY ClearRAMType, FailedType DEF TypeInv, WorkOK, Stop, Crash, TypeOK, store, count

LEMMA TypeLoop == TypeInv /\ LoopStep => TypeInv'
<1> SUFFICES ASSUME TypeInv, LoopStep PROVE TypeInv'
  BY Zenon
<1> USE DEF TypeInv, WorkOK
<1>1. CASE AfterInit
  BY <1>1, Zenon DEF AfterInit, TypeOK, store, txn, loop, work, count
<1>2. CASE InitRAMCache
  BY <1>2, EmptyType, Zenon DEF InitRAMCache, TypeOK, store, txn, loop, work, count, NoEntities
<1>3. CASE DeleteEntity
  <2>1. config' \in [Entities -> Records \cup {None}] /\ faults' \in [Faults -> Nat]
    BY <1>3, SaveEntityType, Zenon DEF DeleteEntity
  <2> QED BY <1>3, <2>1, Zenon DEF DeleteEntity, RenderIfPending, TypeOK, txn, count
<1>4. CASE RenderTxnConfigStart
  BY <1>4, EmptyType, Zenon DEF RenderTxnConfigStart, TypeOK, store, loop, count, NoContrib
<1>5. CASE RenderTxnConfigEnd
  <2>1. afterMap' \in Maps
    BY <1>5, Zenon DEF RenderTxnConfigEnd, TypeOK, Maps
  <2> QED BY <1>5, <2>1, Zenon DEF RenderTxnConfigEnd, TypeOK, store, loop, count, Present
<1>6. CASE EndCommit
  BY <1>6, MergeType, Zenon DEF EndCommit, EndTxn, TypeOK, store, txn, work, count
<1>7. ASSUME NEW k \in Keys, CleanVppAgentEntry(k) PROVE TypeInv'
  BY <1>7, DeleteKeyType, Zenon DEF CleanVppAgentEntry, TypeOK, txn, loop, count
<1>8. ASSUME NEW k \in Keys, DeleteRendered(k) PROVE TypeInv'
  <2>1. vppEntries' \in Maps
    BY <1>8, Zenon DEF DeleteRendered, TypeOK, Maps
  <2> QED BY <1>8, <2>1, DeleteKeyType, Zenon DEF DeleteRendered, TypeOK, txn, loop, count
<1>9. ASSUME NEW k \in Keys, EndDelete(k) PROVE TypeInv'
  <2>1. vppEntries' \in Maps /\ beforeMap' \in Maps
    BY <1>9, Zenon DEF EndDelete, TypeOK, Maps
  <2> QED BY <1>9, <2>1, DeleteKeyType, Zenon DEF EndDelete, TypeOK, loop, count
<1>10. ASSUME NEW k \in Keys, EndWrite(k) PROVE TypeInv'
  <2>1. etcd' \in Maps
    BY <1>10, Zenon DEF EndWrite, TypeOK, Maps
  <2> QED BY <1>10, <2>1, Zenon DEF EndWrite, TypeOK, txn, loop, count
<1>11. ASSUME NEW k \in Keys, EndWriteError(k) PROVE TypeInv'
  <2>1. etcd' \in Maps
    BY <1>11, Zenon DEF EndWriteError, TypeOK, Maps
  <2>2. faults' \in [Faults -> Nat]
    BY <1>11, FailedType, Zenon DEF EndWriteError
  <2>3. contrib' \in [Entities -> Maps]
    BY <1>11, EmptyType, Zenon DEF EndWriteError, NoContrib
  <2> QED BY <1>11, <2>1, <2>2, <2>3, Zenon DEF EndWriteError, EndTxn, TypeOK, count
<1>12. ASSUME NEW e \in Entities, RenderInvalid(e) PROVE TypeInv'
  BY <1>12, Zenon DEF RenderInvalid, Visit, TypeOK, loop, count
<1>13. ASSUME NEW e \in Entities, RenderFail(e) PROVE TypeInv'
  <2>1. RenderedRecord(e, "Down", {}) \in Records
    BY <1>13, EmptyType, RecordTypes, Zenon DEF RenderFail, Visit, Statuses
  <2>2. config' \in [Entities -> Records \cup {None}] /\ faults' \in [Faults -> Nat]
    BY <1>13, <2>1, SaveEntityType, Zenon DEF RenderFail
  <2> QED BY <1>13, <2>1, <2>2, Zenon DEF RenderFail, Visit, TypeOK, loop, count
<1>14. ASSUME NEW e \in Entities, RenderOk(e) PROVE TypeInv'
  <2>1. cache[e] # None /\ cache[e].spec \in Specs
    BY <1>14, Zenon DEF RenderOk, Visit, TypeOK, Records
  <2>2. PICK m \in Renderings[e][cache[e].spec] :
          /\ cache' = [cache EXCEPT ![e] = RenderedRecord(e, "Up", Present(m))]
          /\ SaveEntity(e, RenderedRecord(e, "Up", Present(m)))
          /\ afterMap' = Merge(afterMap, m)
          /\ contrib' = [contrib EXCEPT ![e] = m]
    BY <1>14, Zenon DEF RenderOk
  <2>3. m \in Maps
    BY <2>1, <2>2, Zenon
  <2>4. RenderedRecord(e, "Up", Present(m)) \in Records
    BY <2>1, <2>3, RecordTypes, Zenon DEF Statuses
  <2>5. config' \in [Entities -> Records \cup {None}] /\ faults' \in [Faults -> Nat]
    BY <2>2, <2>4, SaveEntityType, Zenon
  <2>6. afterMap' \in Maps
    BY <2>2, <2>3, MergeType, Zenon DEF TypeOK
  <2> QED BY <1>14, <2>2, <2>3, <2>4, <2>5, <2>6, Zenon DEF RenderOk, Visit, TypeOK, loop, count
<1> QED BY <1>1, <1>2, <1>3, <1>4, <1>5, <1>6, <1>7, <1>8, <1>9, <1>10, <1>11, <1>12,
           <1>13, <1>14, Zenon DEF LoopStep

LEMMA TypeStep == TypeInv /\ [Next]_vars => TypeInv'
<1>1. ASSUME TypeInv, UNCHANGED vars PROVE TypeInv'
  BY <1>1, Zenon DEF TypeInv, WorkOK, TypeOK, vars, store, txn, loop, work, count
<1> QED BY <1>1, TypeStartup, TypeBoot, TypeMessage, TypeStop, TypeLoop, Zenon DEF Next

\* Every state of the controller is well typed, and RenderAll never visits an
\* entity that has left the cache.
THEOREM TypeCorrect == Spec => [](TypeOK /\ WorkOK)
BY TypeInit, TypeStep, PTL DEF Spec, TypeInv
-----------------------------------------------------------------------------
(* The mirror.                                                             *)

\* While a transaction runs, the before map is VppEntries; in its last phase
\* only keys of the after map are written, none of them is deleted, and those
\* already written are in etcd.
TxnOK ==
  /\ pc \in {"render", "end"} => beforeMap = vppEntries
  /\ pc = "end" =>
       /\ \A k \in toWrite : afterMap[k] # None
       /\ \A k \in toDelete : afterMap[k] = None
       /\ \A k \in Keys : afterMap[k] # None => afterMap[k] # beforeMap[k]
       /\ \A k \in Keys : afterMap[k] # None /\ k \notin toWrite => etcd[k] = afterMap[k]

MirrorInv == TxnOK /\ NoPhantomEntry /\ MirrorExact

LEMMA MirrorInit == Init => MirrorInv
BY Zenon DEF Init, MirrorInv, TxnOK, NoPhantomEntry, MirrorExact, Up

\* A process that has just died or exited promises nothing about its RAM.
LEMMA MirrorDown == pc' \in {"down", "panic", "clean"} => MirrorInv'
BY Zenon DEF MirrorInv, TxnOK, NoPhantomEntry, MirrorExact, Up

LEMMA FaultsGrow ==
  ASSUME TypeOK, NEW kind \in Faults, Failed(kind)
  PROVE  faults'["put"] = 0 => faults["put"] = 0
BY DEF TypeOK, Failed

\* A step that leaves etcd, VppEntries and the transaction alone, outside the
\* transaction's last phase.
LEMMA MirrorFrame ==
  ASSUME MirrorInv, pc \notin {"down", "panic", "clean", "end"}, pc' # "end",
         pc' = "render" => pc = "render", UNCHANGED <<etcd, vppEntries, beforeMap>>,
         faults'["put"] = 0 => faults["put"] = 0
  PROVE  MirrorInv'
BY Zenon DEF MirrorInv, TxnOK, NoPhantomEntry, MirrorExact, Up

LEMMA SaveEntityFaults ==
  ASSUME TypeOK, NEW e, NEW r, SaveEntity(e, r)
  PROVE  faults'["put"] = 0 => faults["put"] = 0
BY FaultsGrow, Zenon DEF SaveEntity

LEMMA MirrorStartup == TypeInv /\ MirrorInv /\ Startup => MirrorInv'
<1> SUFFICES ASSUME TypeInv, MirrorInv, Startup PROVE MirrorInv'
  BY Zenon
<1>1. CASE Start
  BY <1>1, Zenon DEF Start, TypeInv, TypeOK, MirrorInv, TxnOK, NoPhantomEntry, MirrorExact, Up, store,
              LoadVppEntries
<1>2. CASE StartClean
  BY <1>2, MirrorDown, Zenon DEF StartClean
<1>3. ASSUME NEW e \in Entities, NEW s \in Specs, NEW valid \in BOOLEAN, YamlCU(e, s, valid)
      PROVE  MirrorInv'
  BY <1>3, MirrorFrame, Zenon DEF YamlCU, txn
<1>4. CASE YamlExit
  BY <1>4, MirrorDown, Zenon DEF YamlExit
<1>5. CASE YamlInvalidService
  BY <1>5, MirrorDown, Zenon DEF YamlInvalidService, Panic
<1> QED BY <1>1, <1>2, <1>3, <1>4, <1>5, Zenon DEF Startup

LEMMA MirrorBoot == TypeInv /\ MirrorInv /\ BootMessage => MirrorInv'
<1> SUFFICES ASSUME TypeInv, MirrorInv, BootMessage PROVE MirrorInv'
  BY Zenon
<1> QED BY MirrorFrame, Zenon DEF BootMessage, ReceiveEnableRenderer, ReceiveRender, ReceiveBootResync,
           Resync, RenderIfPending, store, txn

LEMMA MirrorMessage == TypeInv /\ MirrorInv /\ Message => MirrorInv'
<1> SUFFICES ASSUME TypeInv, MirrorInv, Message PROVE MirrorInv'
  BY Zenon
<1>1. ASSUME NEW changed \in BOOLEAN, ReceiveResync(changed) PROVE MirrorInv'
  BY <1>1, MirrorFrame, Zenon DEF ReceiveResync, Receive, Resync, RenderIfPending, store, txn
<1>2. ASSUME NEW e \in Entities, NEW s \in Specs, NEW valid \in BOOLEAN, ReceiveCU(e, s, valid)
      PROVE  MirrorInv'
  <2>1. faults'["put"] = 0 => faults["put"] = 0
    BY <1>2, SaveEntityFaults, Zenon DEF ReceiveCU, HandleCU, TypeInv
  <2> QED BY <1>2, <2>1, MirrorFrame, Zenon DEF ReceiveCU, Receive, RenderIfPending, txn
<1>3. ASSUME NEW e \in Entities, ReceiveD(e) PROVE MirrorInv'
  BY <1>3, MirrorFrame, Zenon DEF ReceiveD, Receive, store, txn
<1>4. ASSUME NEW e \in Entities, ReceiveDMissing(e) PROVE MirrorInv'
  BY <1>4, MirrorFrame, Zenon DEF ReceiveDMissing, Receive, RenderIfPending, store, txn
<1>5. ASSUME NEW e \in Entities, ReceiveDNilStatus(e) PROVE MirrorInv'
  BY <1>5, MirrorDown, Zenon DEF ReceiveDNilStatus, Panic
<1>6. CASE ReceiveInvalidService
  BY <1>6, MirrorDown, Zenon DEF ReceiveInvalidService, Panic
<1> QED BY <1>1, <1>2, <1>3, <1>4, <1>5, <1>6, Zenon DEF Message

LEMMA MirrorLoop == TypeInv /\ MirrorInv /\ LoopStep => MirrorInv'
<1> SUFFICES ASSUME TypeInv, MirrorInv, LoopStep PROVE MirrorInv'
  BY Zenon
<1> USE DEF TypeInv
<1>1. CASE AfterInit
  BY <1>1, MirrorFrame, Zenon DEF AfterInit, store, txn
<1>2. CASE InitRAMCache
  BY <1>2, Zenon DEF InitRAMCache, Empty, MirrorInv, TxnOK, NoPhantomEntry, MirrorExact
<1>3. CASE DeleteEntity
  <2>1. faults'["put"] = 0 => faults["put"] = 0
    BY <1>3, SaveEntityFaults, Zenon DEF DeleteEntity
  <2> QED BY <1>3, <2>1, MirrorFrame, Zenon DEF DeleteEntity, RenderIfPending, txn
<1>4. CASE RenderTxnConfigStart
  BY <1>4, Zenon DEF RenderTxnConfigStart, store, MirrorInv, TxnOK, NoPhantomEntry, MirrorExact, Up
<1>5. CASE RenderTxnConfigEnd
  BY <1>5, Zenon DEF RenderTxnConfigEnd, store, TypeOK, Present, MirrorInv, TxnOK, NoPhantomEntry,
              MirrorExact, Up
<1>6. CASE EndCommit
  BY <1>6, Zenon DEF EndCommit, EndTxn, store, txn, work, Merge, TypeOK, MirrorInv, TxnOK, NoPhantomEntry,
              MirrorExact, Up
<1>7. ASSUME NEW k \in Keys, CleanVppAgentEntry(k) PROVE MirrorInv'
  BY <1>7, MirrorDown, Zenon DEF CleanVppAgentEntry
<1>8. ASSUME NEW k \in Keys, DeleteRendered(k) PROVE MirrorInv'
  <2>1. faults'["put"] = 0 => faults["put"] = 0
    BY <1>8, FaultsGrow, Zenon DEF DeleteRendered, DeleteKey
  <2>2. \A x \in Keys : x # k => etcd'[x] = etcd[x] /\ vppEntries'[x] = vppEntries[x]
    BY <1>8, Zenon DEF DeleteRendered, DeleteKey, TypeOK, Maps
  <2>3. vppEntries'[k] = None
    BY <1>8, Zenon DEF DeleteRendered, TypeOK, Maps
  <2> QED BY <1>8, <2>1, <2>2, <2>3, Zenon
          DEF DeleteRendered, txn, MirrorInv, TxnOK, NoPhantomEntry, MirrorExact, Up
<1>9. ASSUME NEW k \in Keys, EndDelete(k) PROVE MirrorInv'
  <2>1. faults'["put"] = 0 => faults["put"] = 0
    BY <1>9, FaultsGrow, Zenon DEF EndDelete, DeleteKey
  <2>2. \A x \in Keys : x # k => etcd'[x] = etcd[x] /\ vppEntries'[x] = vppEntries[x]
    BY <1>9, Zenon DEF EndDelete, DeleteKey, TypeOK, Maps
  <2>3. vppEntries'[k] = None /\ beforeMap' = vppEntries' /\ afterMap[k] = None
    BY <1>9, Zenon DEF EndDelete, TypeOK, Maps, MirrorInv, TxnOK
  <2>4. /\ pc = "end" /\ pc' = "end" /\ afterMap' = afterMap /\ toWrite' = toWrite
        /\ toDelete' = toDelete \ {k}
    BY <1>9, Zenon DEF EndDelete
  <2>5. TxnOK'
    BY <2>2, <2>3, <2>4, Zenon DEF MirrorInv, TxnOK, TypeOK
  <2>6. NoPhantomEntry'
    BY <2>2, <2>3, <2>4, Zenon DEF MirrorInv, NoPhantomEntry, Up
  <2>7. MirrorExact'
    BY <2>1, <2>2, <2>3, <2>4, Zenon DEF MirrorInv, MirrorExact, Up
  <2> QED BY <2>5, <2>6, <2>7, Zenon DEF MirrorInv
<1>10. ASSUME NEW k \in Keys, EndWrite(k) PROVE MirrorInv'
  BY <1>10, Zenon DEF EndWrite, txn, TypeOK, Maps, MirrorInv, TxnOK, NoPhantomEntry, MirrorExact, Up
<1>11. ASSUME NEW k \in Keys, EndWriteError(k) PROVE MirrorInv'
  <2>1. faults'["put"] # 0
    BY <1>11 DEF EndWriteError, Failed, TypeOK
  <2>2. \A x \in Keys : etcd[x] # None => etcd'[x] # None
    BY <1>11, Zenon DEF EndWriteError, TypeOK, Maps, MirrorInv, TxnOK
  <2> QED BY <1>11, <2>1, <2>2, Zenon
          DEF EndWriteError, EndTxn, MirrorInv, TxnOK, NoPhantomEntry, MirrorExact, Up
<1>12. ASSUME NEW e \in Entities, RenderInvalid(e) PROVE MirrorInv'
  BY <1>12, MirrorFrame, Zenon DEF RenderInvalid, Visit
<1>13. ASSUME NEW e \in Entities, RenderFail(e) PROVE MirrorInv'
  <2>1. faults'["put"] = 0 => faults["put"] = 0
    BY <1>13, SaveEntityFaults, Zenon DEF RenderFail
  <2> QED BY <1>13, <2>1, MirrorFrame, Zenon DEF RenderFail, Visit
<1>14. ASSUME NEW e \in Entities, RenderOk(e) PROVE MirrorInv'
  <2>1. faults'["put"] = 0 => faults["put"] = 0
    BY <1>14, SaveEntityFaults, Zenon DEF RenderOk
  <2> QED BY <1>14, <2>1, MirrorFrame, Zenon DEF RenderOk, Visit
<1> QED BY <1>1, <1>2, <1>3, <1>4, <1>5, <1>6, <1>7, <1>8, <1>9, <1>10, <1>11, <1>12,
           <1>13, <1>14, Zenon DEF LoopStep

LEMMA MirrorStep == TypeInv /\ MirrorInv /\ [Next]_vars => MirrorInv'
<1>1. ASSUME MirrorInv, UNCHANGED vars PROVE MirrorInv'
  BY <1>1, Zenon DEF MirrorInv, TxnOK, NoPhantomEntry, MirrorExact, Up, vars, store, txn, loop, work
<1>2. ASSUME Stop \/ Crash PROVE MirrorInv'
  BY <1>2, MirrorDown, Zenon DEF Stop, Crash
<1> QED BY <1>1, <1>2, MirrorStartup, MirrorBoot, MirrorMessage, MirrorLoop, Zenon DEF Next

LEMMA MirrorAlways == Spec => []MirrorInv
BY TypeInit, TypeStep, MirrorInit, MirrorStep, PTL DEF Spec

\* For every configuration and every sequence of messages, etcd errors, crashes
\* and restarts, VppEntries never lists a key that etcd does not hold.
THEOREM NoPhantomEntryHolds == Spec => []NoPhantomEntry
BY MirrorAlways, PTL DEF MirrorInv

\* VppEntries holds etcd's values as long as no VPP write has failed.
THEOREM MirrorExactHolds == Spec => []MirrorExact
BY MirrorAlways, PTL DEF MirrorInv

-----------------------------------------------------------------------------
(* Delivery.                                                               *)

\* Phase by phase, who stands behind a key: nobody before the first
\* transaction; while rendering, the after map holds exactly the contributed
\* keys; in the last phase a contributed key is not deleted and one contributor
\* agrees with its final value; at rest one agrees with VppEntries.
NoneYet == pc \in {"down", "panic", "clean", "init"} => contrib = NoContrib

Rendering ==
  pc = "render" =>
    /\ \A e \in toRender : contrib[e] = Empty
    /\ \A k \in Keys : afterMap[k] # None => \E e \in Entities : contrib[e][k] = afterMap[k]
    /\ \A e \in Entities, k \in Keys : contrib[e][k] # None => afterMap[k] # None

Final(k) == IF afterMap[k] # None THEN afterMap[k] ELSE vppEntries[k]

Ending ==
  pc = "end" =>
    /\ \A e \in Entities, k \in Keys : contrib[e][k] # None =>
         k \notin toDelete /\ \E f \in Entities : contrib[f][k] # None /\ contrib[f][k] = Final(k)
    /\ \A k \in Keys : k \notin toDelete /\ Final(k) # None =>
         \E e \in Entities : contrib[e][k] = Final(k)

AtRest ==
  pc = "idle" /\ ~pending =>
    \A e \in Entities, k \in Keys : contrib[e][k] # None =>
      \E f \in Entities : contrib[f][k] # None /\ contrib[f][k] = vppEntries[k]

ContribInv == NoneYet /\ Rendering /\ Ending /\ AtRest

LEMMA ContribInit == Init => ContribInv
BY Zenon DEF Init, ContribInv, NoneYet, Rendering, Ending, AtRest

\* In each phase only the conjunct about that phase has to be shown.
LEMMA InRender == ASSUME pc' = "render", Rendering' PROVE ContribInv'
BY Zenon DEF ContribInv, NoneYet, Ending, AtRest

LEMMA InEnd == ASSUME pc' = "end", Ending' PROVE ContribInv'
BY Zenon DEF ContribInv, NoneYet, Rendering, AtRest

LEMMA InIdle == ASSUME pc' = "idle", AtRest' PROVE ContribInv'
BY Zenon DEF ContribInv, NoneYet, Rendering, Ending

LEMMA InBetween == ASSUME pc' \in {"del", "txn"} PROVE ContribInv'
BY Zenon DEF ContribInv, NoneYet, Rendering, Ending, AtRest

\* No transaction has been run since the process started.
LEMMA ContribNone ==
  ASSUME contrib' = NoContrib, pc' \notin {"render", "end"}
  PROVE  ContribInv'
BY Zenon DEF ContribInv, NoneYet, Rendering, Ending, AtRest, NoContrib, Empty

\* A step that leaves VppEntries and the transaction alone, at rest or on the
\* way to the next transaction.
LEMMA ContribFrame ==
  ASSUME ContribInv, pc \notin {"render", "end"}, pc' \in {"init", "idle", "del", "txn"},
         pc' = "init" => pc = "init",
         pc' = "idle" /\ ~pending' => pc = "init" \/ (pc = "idle" /\ ~pending),
         UNCHANGED <<vppEntries, contrib>>
  PROVE  ContribInv'
<1>1. CASE pc' = "idle"
  <2>1. pc = "init" => \A e \in Entities, k \in Keys : contrib[e][k] = None
    BY DEF ContribInv, NoneYet, NoContrib, Empty
  <2>2. AtRest'
    BY <1>1, <2>1, Zenon DEF ContribInv, AtRest
  <2> QED BY <1>1, <2>2, InIdle, Zenon
<1>2. CASE pc' = "init"
  <2>1. contrib' = NoContrib
    BY <1>2, Zenon DEF ContribInv, NoneYet
  <2> QED BY <1>2, <2>1, ContribNone, Zenon
<1>3. CASE pc' \in {"del", "txn"}
  BY <1>3, InBetween, Zenon
<1> QED BY <1>1, <1>2, <1>3, Zenon

LEMMA ContribStartup == TypeInv /\ ContribInv /\ Startup => ContribInv'
<1> SUFFICES ASSUME TypeInv, ContribInv, Startup PROVE ContribInv'
  BY Zenon
<1>1. CASE Start \/ StartClean
  BY <1>1, ContribNone, Zenon DEF Start, StartClean, Up, txn, ContribInv, NoneYet, TypeInv, TypeOK
<1>2. ASSUME NEW e \in Entities, NEW s \in Specs, NEW valid \in BOOLEAN, YamlCU(e, s, valid)
      PROVE  ContribInv'
  BY <1>2, ContribFrame, Zenon DEF YamlCU, txn
<1>3. CASE YamlExit \/ YamlInvalidService
  BY <1>3, ContribNone, Zenon DEF YamlExit, YamlInvalidService, Panic, ClearRAM
<1> QED BY <1>1, <1>2, <1>3, Zenon DEF Startup

LEMMA ContribBoot == TypeInv /\ ContribInv /\ BootMessage => ContribInv'
BY ContribFrame, Zenon DEF BootMessage, ReceiveEnableRenderer, ReceiveRender, ReceiveBootResync,
                    Resync, RenderIfPending, txn, TypeInv, TypeOK

LEMMA ContribMessage == TypeInv /\ ContribInv /\ Message => ContribInv'
<1> SUFFICES ASSUME TypeInv, ContribInv, Message PROVE ContribInv'
  BY Zenon
<1>1. ASSUME NEW changed \in BOOLEAN, ReceiveResync(changed) PROVE ContribInv'
  BY <1>1, ContribFrame, Zenon DEF ReceiveResync, Receive, Resync, RenderIfPending, txn, TypeInv, TypeOK
<1>2. ASSUME NEW e \in Entities, NEW s \in Specs, NEW valid \in BOOLEAN, ReceiveCU(e, s, valid)
      PROVE  ContribInv'
  BY <1>2, ContribFrame, Zenon DEF ReceiveCU, Receive, RenderIfPending, txn
<1>3. ASSUME NEW e \in Entities, ReceiveD(e) \/ ReceiveDMissing(e) PROVE ContribInv'
  BY <1>3, ContribFrame, Zenon DEF ReceiveD, ReceiveDMissing, Receive, RenderIfPending, txn
<1>4. ASSUME NEW e \in Entities, ReceiveDNilStatus(e) PROVE ContribInv'
  BY <1>4, ContribNone, Zenon DEF ReceiveDNilStatus, Panic, ClearRAM
<1>5. CASE ReceiveInvalidService
  BY <1>5, ContribNone, Zenon DEF ReceiveInvalidService, Panic, ClearRAM
<1> QED BY <1>1, <1>2, <1>3, <1>4, <1>5, Zenon DEF Message

\* One entity's map laid over the after map.
LEMMA ContribRenderOk ==
  ASSUME TypeInv, ContribInv, NEW e \in Entities, RenderOk(e)
  PROVE  ContribInv'
<1> USE DEF TypeInv, WorkOK
<1>1. cache[e] # None /\ cache[e].spec \in Specs /\ contrib[e] = Empty /\ pc = "render" /\ pc' = pc
  BY Zenon DEF RenderOk, Visit, TypeOK, Records, ContribInv, Rendering
<1>2. PICK m \in Renderings[e][cache[e].spec] :
        afterMap' = Merge(afterMap, m) /\ contrib' = [contrib EXCEPT ![e] = m]
  BY Zenon DEF RenderOk
<1>3. m \in Maps /\ toRender' = toRender \ {e}
  <2>1. m \in Maps
    BY <1>1, <1>2, Zenon
  <2> QED BY <2>1, Zenon DEF RenderOk, Visit
<1>4. contrib'[e] = m /\ \A f \in Entities : f # e => contrib'[f] = contrib[f]
  BY <1>2, Zenon DEF TypeOK
<1>5. \A k \in Keys : afterMap'[k] = IF m[k] # None THEN m[k] ELSE afterMap[k]
  BY <1>2, Zenon DEF Merge
<1>6. \A k \in Keys : contrib[e][k] = None
  BY <1>1, Zenon DEF Empty
<1>7. \A f \in toRender' : contrib'[f] = Empty
  BY <1>1, <1>3, <1>4, Zenon DEF ContribInv, Rendering, TypeOK
<1>8. ASSUME NEW k \in Keys, afterMap'[k] # None
      PROVE  \E f \in Entities : contrib'[f][k] = afterMap'[k]
  <2>1. CASE m[k] # None
    BY <2>1, <1>4, <1>5, Zenon
  <2>2. CASE m[k] = None
    <3>1. PICK f \in Entities : contrib[f][k] = afterMap[k]
      BY <1>1, <1>5, <1>8, <2>2, Zenon DEF ContribInv, Rendering
    <3> QED BY <3>1, <1>4, <1>5, <1>6, <1>8, <2>2, Zenon
  <2> QED BY <2>1, <2>2, Zenon
<1>9. ASSUME NEW f \in Entities, NEW k \in Keys, contrib'[f][k] # None
      PROVE  afterMap'[k] # None
  <2>1. contrib[f][k] # None => afterMap[k] # None
    BY <1>1, Zenon DEF ContribInv, Rendering
  <2> QED BY <1>4, <1>5, <1>9, <2>1, Zenon
<1>10. Rendering'
  BY <1>7, <1>8, <1>9, Zenon DEF Rendering
<1> QED BY <1>1, <1>10, InRender, Zenon

LEMMA ContribLoop == TypeInv /\ MirrorInv /\ ContribInv /\ LoopStep => ContribInv'
<1> SUFFICES ASSUME TypeInv, MirrorInv, ContribInv, LoopStep PROVE ContribInv'
  BY Zenon
<1> USE DEF TypeInv
<1>1. CASE AfterInit
  BY <1>1, ContribFrame, Zenon DEF AfterInit, txn
<1>2. CASE InitRAMCache
  BY <1>2, ContribNone, Zenon DEF InitRAMCache, txn, ContribInv, NoneYet
<1>3. CASE DeleteEntity
  BY <1>3, ContribFrame, Zenon DEF DeleteEntity, RenderIfPending, txn
<1>4. CASE RenderTxnConfigStart
  <2>1. pc' = "render" /\ contrib' = NoContrib /\ afterMap' = Empty
    BY <1>4, Zenon DEF RenderTxnConfigStart
  <2>2. /\ \A e \in Entities : contrib'[e] = Empty
        /\ \A e \in Entities, k \in Keys : contrib'[e][k] = None
        /\ \A k \in Keys : afterMap'[k] = None
    BY <2>1, Zenon DEF NoContrib, Empty
  <2>3. toRender' \subseteq Entities
    BY <1>4, Zenon DEF RenderTxnConfigStart
  <2>4. Rendering'
    BY <2>2, <2>3, Zenon DEF Rendering
  <2> QED BY <2>1, <2>4, InRender, Zenon
<1>5. CASE RenderTxnConfigEnd
  <2>1. /\ pc = "render" /\ pc' = "end" /\ contrib' = contrib /\ vppEntries' = vppEntries
        /\ beforeMap = vppEntries
        /\ toDelete' = {k \in Keys : vppEntries[k] # None /\ afterMap[k] = None}
        /\ \A k \in Keys : afterMap'[k] = IF afterMap[k] = vppEntries[k] THEN None ELSE afterMap[k]
    BY <1>5, Zenon DEF RenderTxnConfigEnd, Present, MirrorInv, TxnOK
  <2>2. ASSUME NEW k \in Keys, k \notin toDelete'
        PROVE  Final(k)' = afterMap[k]
    BY <2>1, <2>2, Zenon DEF Final
  <2>3. ASSUME NEW e \in Entities, NEW k \in Keys, contrib[e][k] # None
        PROVE  k \notin toDelete' /\ \E f \in Entities : contrib[f][k] # None /\ contrib[f][k] = Final(k)'
    BY <2>1, <2>2, <2>3, Zenon DEF ContribInv, Rendering
  <2>4. ASSUME NEW k \in Keys, k \notin toDelete', Final(k)' # None
        PROVE  \E e \in Entities : contrib[e][k] = Final(k)'
    BY <2>1, <2>2, <2>4, Zenon DEF ContribInv, Rendering
  <2>5. Ending'
    BY <2>1, <2>3, <2>4, Zenon DEF Ending
  <2> QED BY <2>1, <2>5, InEnd, Zenon
<1>6. CASE EndCommit
  <2>1. /\ pc = "end" /\ pc' = "idle" /\ contrib' = contrib
        /\ \A k \in Keys : vppEntries'[k] = Final(k)
    BY <1>6, Zenon DEF EndCommit, EndTxn, txn, Merge, Final
  <2>2. /\ \A k \in Keys : k \notin toDelete
        /\ \A e \in Entities, k \in Keys : contrib[e][k] # None =>
             \E f \in Entities : contrib[f][k] # None /\ contrib[f][k] = Final(k)
    BY <1>6, <2>1, Zenon DEF EndCommit, ContribInv, Ending
  <2>3. AtRest'
    BY <2>1, <2>2, Zenon DEF AtRest
  <2> QED BY <2>1, <2>3, InIdle, Zenon
<1>7. ASSUME NEW k \in Keys, CleanVppAgentEntry(k) PROVE ContribInv'
  BY <1>7, ContribNone, Zenon DEF CleanVppAgentEntry, txn, ContribInv, NoneYet
<1>8. ASSUME NEW k \in Keys, DeleteRendered(k) PROVE ContribInv'
  BY <1>8, InBetween, Zenon DEF DeleteRendered
<1>9. ASSUME NEW k \in Keys, EndDelete(k) PROVE ContribInv'
  <2>1. /\ pc = "end" /\ pc' = "end" /\ contrib' = contrib /\ k \in toDelete
        /\ toDelete' = toDelete \ {k}
        /\ \A x \in Keys : x # k => Final(x)' = Final(x)
        /\ Final(k)' = None
    BY <1>9, Zenon DEF EndDelete, Final, TypeOK, Maps, MirrorInv, TxnOK
  <2>2. ASSUME NEW e \in Entities, NEW x \in Keys, contrib[e][x] # None
        PROVE  x \notin toDelete' /\ \E f \in Entities : contrib[f][x] # None /\ contrib[f][x] = Final(x)'
    <3>1. x \notin toDelete /\ \E f \in Entities : contrib[f][x] # None /\ contrib[f][x] = Final(x)
      BY <2>1, <2>2, Zenon DEF ContribInv, Ending
    <3> QED BY <2>1, <3>1, Zenon
  <2>3. ASSUME NEW x \in Keys, x \notin toDelete', Final(x)' # None
        PROVE  \E e \in Entities : contrib[e][x] = Final(x)'
    <3>1. x # k /\ x \notin toDelete
      BY <2>1, <2>3, Zenon
    <3> QED BY <2>1, <2>3, <3>1, Zenon DEF ContribInv, Ending
  <2>4. Ending'
    BY <2>1, <2>2, <2>3, Zenon DEF Ending
  <2> QED BY <2>1, <2>4, InEnd, Zenon
<1>10. ASSUME NEW k \in Keys, EndWrite(k) PROVE ContribInv'
  <2>1. /\ pc = "end" /\ pc' = "end" /\ contrib' = contrib /\ toDelete' = toDelete
        /\ \A x \in Keys : Final(x)' = Final(x)
    BY <1>10, Zenon DEF EndWrite, txn, Final
  <2>2. Ending
    BY Zenon DEF ContribInv
  <2>3. Ending'
    BY <2>1, <2>2, Zenon DEF Ending
  <2> QED BY <2>1, <2>3, InEnd, Zenon
<1>11. ASSUME NEW k \in Keys, EndWriteError(k) PROVE ContribInv'
  BY <1>11, ContribNone, Zenon DEF EndWriteError, EndTxn
<1>12. ASSUME NEW e \in Entities, RenderInvalid(e) \/ RenderFail(e) PROVE ContribInv'
  <2>1. /\ pc = "render" /\ pc' = "render" /\ contrib' = contrib /\ afterMap' = afterMap
        /\ toRender' \subseteq toRender
    BY <1>12, Zenon DEF RenderInvalid, RenderFail, Visit
  <2>2. Rendering
    BY Zenon DEF ContribInv
  <2>3. Rendering'
    BY <2>1, <2>2, Zenon DEF Rendering
  <2> QED BY <2>1, <2>3, InRender, Zenon
<1>13. ASSUME NEW e \in Entities, RenderOk(e) PROVE ContribInv'
  BY <1>13, ContribRenderOk, Zenon
<1> QED BY <1>1, <1>2, <1>3, <1>4, <1>5, <1>6, <1>7, <1>8, <1>9, <1>10, <1>11, <1>12,
           <1>13, Zenon DEF LoopStep

LEMMA ContribStep == TypeInv /\ MirrorInv /\ ContribInv /\ [Next]_vars => ContribInv'
<1>1. ASSUME ContribInv, UNCHANGED vars PROVE ContribInv'
  <2>1. /\ UNCHANGED <<pc, contrib, afterMap, vppEntries, toRender, toDelete, pending>>
        /\ \A k \in Keys : Final(k)' = Final(k)
    BY <1>1, Zenon DEF vars, txn, loop, work, Final
  <2>2. Rendering'
    BY <1>1, <2>1, Zenon DEF ContribInv, Rendering
  <2>3. Ending'
    BY <1>1, <2>1, Zenon DEF ContribInv, Ending
  <2> QED BY <1>1, <2>1, <2>2, <2>3, Zenon DEF ContribInv, NoneYet, AtRest
<1>2. ASSUME Stop \/ Crash PROVE ContribInv'
  BY <1>2, ContribNone, Zenon DEF Stop, Crash, ClearRAM
<1> QED BY <1>1, <1>2, ContribStartup, ContribBoot, ContribMessage, ContribLoop, Zenon DEF Next

LEMMA ContribAlways == Spec => [](TypeInv /\ MirrorInv /\ ContribInv)
BY TypeInit, TypeStep, MirrorInit, MirrorStep, ContribInit, ContribStep, PTL DEF Spec

\* At rest every rendered key is in etcd with the value of one of its
\* renderers, unless a VPP write has failed.
THEOREM DeliveredHolds == Spec => []DeliveredUnlessWriteFailed
<1>1. ASSUME TypeInv, MirrorInv, ContribInv PROVE DeliveredUnlessWriteFailed
  BY <1>1, Zenon DEF MirrorInv, MirrorExact, ContribInv, AtRest, DeliveredUnlessWriteFailed, Delivered,
              Quiet, Up
<1> QED BY <1>1, ContribAlways, PTL

\* RenderTxnConfigEnd deletes no rendered key and touches no unchanged key.
THEOREM TouchesOnlyChangesHolds == Spec => TouchesOnlyChanges
<1> DEFINE Touch == pc = "end" => \A k \in Keys : etcd'[k] # etcd[k] =>
       /\ etcd'[k] = None => \A e \in Entities : contrib[e][k] = None
       /\ etcd'[k] # None => \E e \in Entities : contrib[e][k] \notin {None, beforeMap[k]}
<1>1. ASSUME TypeInv, MirrorInv, ContribInv, [Next]_vars PROVE Touch
  <2> SUFFICES ASSUME pc = "end", NEW k \in Keys, etcd'[k] # etcd[k]
               PROVE  /\ etcd'[k] = None => \A e \in Entities : contrib[e][k] = None
                      /\ etcd'[k] # None =>
                           \E e \in Entities : contrib[e][k] \notin {None, beforeMap[k]}
    BY Zenon
  <2>1. ~Startup
    BY Zenon DEF Startup, Start, StartClean, YamlCU, YamlExit, YamlInvalidService, Up
  <2>2. ~BootMessage /\ ~Stop
    BY Zenon DEF BootMessage, ReceiveEnableRenderer, ReceiveRender, ReceiveBootResync, Stop, Quiet
  <2>3. ~Message
    BY Zenon DEF Message, ReceiveResync, ReceiveCU, ReceiveD, ReceiveDMissing, ReceiveDNilStatus,
           ReceiveInvalidService, Receive
  <2>4. ~UNCHANGED vars /\ ~Crash
    BY Zenon DEF vars, store, Crash
  <2>5. LoopStep
    BY <1>1, <2>1, <2>2, <2>3, <2>4, Zenon DEF Next
  <2>6. PICK x \in Keys : EndDelete(x) \/ EndWrite(x) \/ EndWriteError(x)
    BY <2>5, Zenon
    DEF LoopStep, AfterInit, InitRAMCache, DeleteEntity, RenderTxnConfigStart,
        RenderTxnConfigEnd, EndCommit, CleanVppAgentEntry, DeleteRendered, RenderInvalid,
        RenderOk, RenderFail, Visit, store
  <2>7. x = k
    BY <1>1, <2>6, Zenon DEF EndDelete, EndWrite, EndWriteError, DeleteKey, TypeInv, TypeOK, Maps
  <2>8. CASE EndDelete(k)
    <3>1. etcd'[k] = None /\ k \in toDelete
      BY <1>1, <2>8, Zenon DEF EndDelete, DeleteKey, TypeInv, TypeOK, Maps
    <3> QED BY <1>1, <3>1, Zenon DEF ContribInv, Ending
  <2>9. CASE EndWrite(k) \/ EndWriteError(k)
    <3>1. etcd'[k] = afterMap[k] /\ k \in toWrite /\ toDelete = {}
      BY <1>1, <2>9, Zenon DEF EndWrite, EndWriteError, TypeInv, TypeOK, Maps
    <3>2. afterMap[k] # None /\ afterMap[k] # beforeMap[k]
      BY <1>1, <3>1, Zenon DEF MirrorInv, TxnOK
    <3>3. \E e \in Entities : contrib[e][k] = afterMap[k]
      BY <1>1, <3>1, <3>2, Zenon DEF ContribInv, Ending, Final
    <3> QED BY <3>1, <3>2, <3>3, Zenon
  <2> QED BY <2>6, <2>7, <2>8, <2>9, Zenon
<1> QED BY <1>1, ContribAlways, PTL DEF Spec, TouchesOnlyChanges

-----------------------------------------------------------------------------
(* Without faults no VPP key in etcd is ever lost from sight: at rest some *)
(* entity rendered it and its persisted Status lists it, so that the next  *)
(* start finds it again and -clean removes it.                             *)

\* The renderer is off until the first start-up message and on from then on,
\* and the loop never waits with a change it could render.
FlagsOK ==
  /\ pc \in {"down", "panic", "clean", "init"} => boot = "enable" /\ ~enabled
  /\ boot # "enable" => enabled
  /\ pc = "idle" /\ enabled => ~pending

\* Who knows of the keys in etcd, phase by phase: the persisted Statuses while
\* the process is not running, the list of keys to delete during -clean,
\* VppEntries once it is loaded, and in the last phase of a transaction those
\* to be deleted and those rendered.
KnownDown   == ~Up => Present(etcd) \subseteq Listed(config)
KnownClean  == pc = "clean" => Present(etcd) \subseteq toDelete
KnownUp     == Up /\ pc \notin {"clean", "end"} => Present(etcd) \subseteq Present(vppEntries)
KnownEnd    == pc = "end" => \A k \in Present(etcd) :
                 k \in toDelete \/ \E e \in Entities : contrib[e][k] # None
KnownQuiet  == Quiet => \A k \in Present(etcd) : \E e \in Entities : contrib[e][k] # None

\* What an entity put into the transaction is what its persisted Status lists.
ListedOK ==
  pc \in {"render", "end"} \/ Quiet =>
    \A e \in Entities, k \in Keys :
      contrib[e][k] # None => config[e] # None /\ k \in config[e].rendered

Known == KnownDown /\ KnownClean /\ KnownUp /\ KnownEnd /\ KnownQuiet

TrackedInv == FlagsOK /\ (NoFaults => Known /\ ListedOK)

LEMMA TrackedInit == Init => TrackedInv
BY Zenon DEF Init, TrackedInv, FlagsOK, Known, KnownDown, KnownClean, KnownUp, KnownEnd, KnownQuiet,
       ListedOK, Present, Empty, Up, Quiet

-----------------------------------------------------------------------------
(* Faults.                                                                 *)

LEMMA FailedIsFault ==
  ASSUME TypeOK, NEW kind \in Faults, Failed(kind)
  PROVE  ~NoFaults'
BY DEF TypeOK, Failed, NoFaults

\* An operation that may fail did not, if there is no fault after it.
LEMMA DeleteKeyDone ==
  ASSUME TypeOK, NEW k \in Keys, DeleteKey(k), NoFaults'
  PROVE  NoFaults /\ etcd' = [etcd EXCEPT ![k] = None]
BY FailedIsFault, Zenon DEF DeleteKey, NoFaults

LEMMA SaveEntityDone ==
  ASSUME TypeOK, NEW e, NEW r, SaveEntity(e, r), NoFaults'
  PROVE  NoFaults /\ config' = [config EXCEPT ![e] = r]
BY FailedIsFault, Zenon DEF SaveEntity, NoFaults

\* A process that dies leaves a fault behind, and flags as after a stop.
LEMMA TrackedDead ==
  ASSUME TypeOK, Failed("crash") \/ Failed("config"), ClearRAM, pc' \in {"down", "panic"}
  PROVE  TrackedInv'
<1>1. ~NoFaults'
  BY FailedIsFault, Zenon
<1> QED BY <1>1, Zenon DEF ClearRAM, TrackedInv, FlagsOK

-----------------------------------------------------------------------------
(* Steps that change neither etcd nor VppEntries.                          *)

\* Before a transaction starts.
LEMMA TrackedBefore ==
  ASSUME TrackedInv, pc \in {"init", "idle", "del"}, pc' \in {"init", "idle", "del", "txn"},
         UNCHANGED <<etcd, vppEntries>>, FlagsOK', NoFaults' => NoFaults, ~Quiet'
  PROVE  TrackedInv'
<1>1. ASSUME NoFaults' PROVE Known' /\ ListedOK'
  <2>1. Present(etcd) \subseteq Present(vppEntries)
    BY <1>1, Zenon DEF TrackedInv, Known, KnownUp, Up
  <2>2. KnownUp'
    BY <2>1, Zenon DEF KnownUp, Present
  <2> QED BY <2>2, Zenon DEF Known, KnownDown, KnownClean, KnownEnd, KnownQuiet, ListedOK, Up
<1> QED BY <1>1, Zenon DEF TrackedInv

LEMMA TrackedStartup == TypeInv /\ TrackedInv /\ Startup => TrackedInv'
<1> SUFFICES ASSUME TypeInv, TrackedInv, Startup PROVE TrackedInv'
  BY Zenon
<1> USE DEF TypeInv
<1>1. CASE Start
  <2>1. FlagsOK'
    BY <1>1, Zenon DEF Start, loop, TrackedInv, FlagsOK, Up
  <2>2. ASSUME NoFaults' PROVE Known' /\ ListedOK'
    <3>1. NoFaults /\ Present(etcd) \subseteq Listed(config) /\ pc' = "init"
      BY <1>1, <2>2, Zenon DEF Start, NoFaults, TrackedInv, Known, KnownDown
    <3>2. KnownUp'
      BY <1>1, <3>1, Zenon DEF Start, store, LoadVppEntries, KnownUp, Present
    <3> QED BY <3>1, <3>2, Zenon DEF Known, KnownDown, KnownClean, KnownEnd, KnownQuiet, ListedOK, Up, Quiet
  <2> QED BY <2>1, <2>2, Zenon DEF TrackedInv
<1>2. CASE StartClean
  <2>1. FlagsOK' /\ pc' = "clean"
    BY <1>2, Zenon DEF StartClean, loop, TrackedInv, FlagsOK, Up
  <2>2. ASSUME NoFaults' PROVE Known' /\ ListedOK'
    <3>1. NoFaults
      BY <1>2, <2>2, FailedIsFault, Zenon DEF StartClean, NoFaults
    <3>2. Present(etcd) \subseteq Listed(config)
      BY <1>2, <3>1, Zenon DEF StartClean, TrackedInv, Known, KnownDown
    <3>3. KnownClean'
      BY <1>2, <3>2, Zenon DEF StartClean, LoadVppEntries, KnownClean, Present
    <3> QED BY <2>1, <3>3, Zenon DEF Known, KnownDown, KnownUp, KnownEnd, KnownQuiet, ListedOK, Up, Quiet
  <2> QED BY <2>1, <2>2, Zenon DEF TrackedInv
<1>3. ASSUME NEW e \in Entities, NEW s \in Specs, NEW valid \in BOOLEAN, YamlCU(e, s, valid)
      PROVE  TrackedInv'
  <2>1. FlagsOK' /\ ~Quiet' /\ (NoFaults' => NoFaults)
    BY <1>3, Zenon DEF YamlCU, loop, TrackedInv, FlagsOK, Quiet, NoFaults
  <2> QED BY <1>3, <2>1, TrackedBefore, Zenon DEF YamlCU
<1>4. CASE YamlExit \/ YamlInvalidService
  BY <1>4, TrackedDead, Zenon DEF YamlExit, YamlInvalidService, Panic
<1> QED BY <1>1, <1>2, <1>3, <1>4, Zenon DEF Startup

LEMMA TrackedBoot == TypeInv /\ TrackedInv /\ BootMessage => TrackedInv'
<1> SUFFICES ASSUME TypeInv, TrackedInv, BootMessage PROVE TrackedInv'
  BY Zenon
<1>1. pc = "idle" /\ pc' \in {"idle", "txn"} /\ UNCHANGED <<etcd, vppEntries, faults>>
  BY Zenon DEF BootMessage, ReceiveEnableRenderer, ReceiveRender, ReceiveBootResync, Resync,
         RenderIfPending, store
<1>2. FlagsOK'
  BY Zenon DEF BootMessage, ReceiveEnableRenderer, ReceiveRender, ReceiveBootResync, Resync,
         RenderIfPending, TrackedInv, FlagsOK, TypeInv, TypeOK
<1>3. ~Quiet'
  BY Zenon DEF BootMessage, ReceiveEnableRenderer, ReceiveRender, ReceiveBootResync, Resync,
         RenderIfPending, TrackedInv, FlagsOK, Quiet, TypeInv, TypeOK
<1> QED BY <1>1, <1>2, <1>3, TrackedBefore, Zenon DEF NoFaults

\* A message that asks for a render when the loop is ready for one.
LEMMA Pends ==
  ASSUME TypeInv, TrackedInv, pending' = TRUE, UNCHANGED <<enabled, boot>>, RenderIfPending
  PROVE  FlagsOK' /\ ~Quiet' /\ pc' \in {"idle", "txn"}
BY Zenon DEF RenderIfPending, TrackedInv, FlagsOK, Quiet, TypeInv, TypeOK

LEMMA TrackedMessage == TypeInv /\ TrackedInv /\ Message => TrackedInv'
<1> SUFFICES ASSUME TypeInv, TrackedInv, Message PROVE TrackedInv'
  BY Zenon
<1> USE DEF TypeInv
<1>1. ASSUME NEW changed \in BOOLEAN, ReceiveResync(changed) PROVE TrackedInv'
  <2>1. /\ pc = "idle" /\ pc' \in {"idle", "txn"}
        /\ UNCHANGED <<etcd, config, vppEntries, contrib, boot, enabled, faults>>
    BY <1>1, Zenon DEF ReceiveResync, Receive, Resync, RenderIfPending, store, txn
  <2>2. FlagsOK' /\ (Quiet' => Quiet)
    BY <1>1, Zenon DEF ReceiveResync, Receive, Resync, RenderIfPending, TrackedInv, FlagsOK, Quiet, TypeOK
  <2>3. CASE ~Quiet'
    BY <2>1, <2>2, <2>3, TrackedBefore, Zenon DEF NoFaults
  <2>4. CASE Quiet'
    <3>1. pc' = pc /\ Quiet
      BY <2>1, <2>2, <2>4, Zenon DEF Quiet
    <3>2. ASSUME NoFaults' PROVE Known' /\ ListedOK'
      <4>1. Known /\ ListedOK
        BY <2>1, <3>2, Zenon DEF TrackedInv, NoFaults
      <4>2. Known'
        BY <2>1, <3>1, <4>1, Zenon DEF Known, KnownDown, KnownClean, KnownUp, KnownEnd, KnownQuiet,
                                Up, Quiet, Present
      <4>3. ListedOK'
        BY <2>1, <3>1, <4>1, Zenon DEF ListedOK
      <4> QED BY <4>2, <4>3, Zenon
    <3> QED BY <2>2, <3>2, Zenon DEF TrackedInv
  <2> QED BY <2>3, <2>4, Zenon
<1>2. ASSUME NEW e \in Entities, NEW s \in Specs, NEW valid \in BOOLEAN, ReceiveCU(e, s, valid)
      PROVE  TrackedInv'
  <2>1. FlagsOK' /\ ~Quiet' /\ pc' \in {"idle", "txn"}
    BY <1>2, Pends, Zenon DEF ReceiveCU
  <2>2. NoFaults' => NoFaults
    BY <1>2, SaveEntityDone, Zenon DEF ReceiveCU, HandleCU
  <2> QED BY <1>2, <2>1, <2>2, TrackedBefore, Zenon DEF ReceiveCU, Receive
<1>3. ASSUME NEW e \in Entities, ReceiveD(e) PROVE TrackedInv'
  <2>1. FlagsOK' /\ ~Quiet' /\ (NoFaults' => NoFaults)
    BY <1>3, Zenon DEF ReceiveD, loop, TrackedInv, FlagsOK, Quiet, NoFaults
  <2> QED BY <1>3, <2>1, TrackedBefore, Zenon DEF ReceiveD, Receive, store
<1>4. ASSUME NEW e \in Entities, ReceiveDMissing(e) PROVE TrackedInv'
  <2>1. FlagsOK' /\ ~Quiet' /\ pc' \in {"idle", "txn"}
    BY <1>4, Pends, Zenon DEF ReceiveDMissing
  <2> QED BY <1>4, <2>1, TrackedBefore, Zenon DEF ReceiveDMissing, Receive, store, NoFaults
<1>5. ASSUME NEW e \in Entities, ReceiveDNilStatus(e) PROVE TrackedInv'
  BY <1>5, TrackedDead, Zenon DEF ReceiveDNilStatus, Panic
<1>6. CASE ReceiveInvalidService
  BY <1>6, TrackedDead, Zenon DEF ReceiveInvalidService, Panic
<1> QED BY <1>1, <1>2, <1>3, <1>4, <1>5, <1>6, Zenon DEF Message

-----------------------------------------------------------------------------
(* Deletes outside a transaction, and the transaction.                      *)

\* In each phase only the conjuncts about that phase have to be shown.
LEMMA TrackedUp ==
  ASSUME FlagsOK', pc' \in {"init", "idle", "del", "txn"}, ~Quiet', NoFaults' => KnownUp'
  PROVE  TrackedInv'
BY Zenon DEF TrackedInv, Known, KnownDown, KnownClean, KnownEnd, KnownQuiet, ListedOK, Up

LEMMA TrackedRender ==
  ASSUME FlagsOK', pc' = "render", NoFaults' => KnownUp' /\ ListedOK'
  PROVE  TrackedInv'
BY Zenon DEF TrackedInv, Known, KnownDown, KnownClean, KnownEnd, KnownQuiet, Up, Quiet

LEMMA TrackedEnd ==
  ASSUME FlagsOK', pc' = "end", NoFaults' => KnownEnd' /\ ListedOK'
  PROVE  TrackedInv'
BY Zenon DEF TrackedInv, Known, KnownDown, KnownClean, KnownUp, KnownQuiet, Up, Quiet

LEMMA TrackedDeletes ==
  ASSUME TypeInv, TrackedInv, NEW k \in Keys, CleanVppAgentEntry(k) \/ DeleteRendered(k)
  PROVE  TrackedInv'
<1> USE DEF TypeInv
<1>1. CASE CleanVppAgentEntry(k)
  <2>1. FlagsOK' /\ pc = "clean" /\ pc' = "clean" /\ toDelete' = toDelete \ {k}
    BY <1>1, Zenon DEF CleanVppAgentEntry, loop, TrackedInv, FlagsOK
  <2>2. ASSUME NoFaults' PROVE Known' /\ ListedOK'
    <3>1. NoFaults /\ etcd' = [etcd EXCEPT ![k] = None]
      BY <1>1, <2>2, DeleteKeyDone, Zenon DEF CleanVppAgentEntry
    <3>2. Present(etcd) \subseteq toDelete
      BY <2>1, <3>1, Zenon DEF TrackedInv, Known, KnownClean
    <3>3. KnownClean'
      BY <2>1, <3>1, <3>2, Zenon DEF KnownClean, Present, TypeOK, Maps
    <3> QED BY <2>1, <3>3, Zenon DEF Known, KnownDown, KnownUp, KnownEnd, KnownQuiet, ListedOK, Up, Quiet
  <2> QED BY <2>1, <2>2, Zenon DEF TrackedInv
<1>2. CASE DeleteRendered(k)
  <2>1. FlagsOK' /\ pc = "del" /\ pc' = "del" /\ ~Quiet'
    BY <1>2, Zenon DEF DeleteRendered, loop, TrackedInv, FlagsOK, Quiet
  <2>2. ASSUME NoFaults' PROVE KnownUp'
    <3>1. NoFaults /\ etcd' = [etcd EXCEPT ![k] = None] /\ vppEntries' = [vppEntries EXCEPT ![k] = None]
      BY <1>2, <2>2, DeleteKeyDone, Zenon DEF DeleteRendered
    <3>2. Present(etcd) \subseteq Present(vppEntries)
      BY <2>1, <3>1, Zenon DEF TrackedInv, Known, KnownUp, Up
    <3> QED BY <3>1, <3>2, Zenon DEF KnownUp, Present, TypeOK, Maps
  <2> QED BY <2>1, <2>2, TrackedUp, Zenon
<1> QED BY <1>1, <1>2, Zenon

\* One entity is visited: it put nothing into the transaction before.
LEMMA TrackedVisit ==
  ASSUME TypeInv, ContribInv, TrackedInv, NEW e \in Entities,
         RenderInvalid(e) \/ RenderFail(e) \/ RenderOk(e)
  PROVE  TrackedInv'
<1> USE DEF TypeInv, WorkOK
<1>1. /\ pc = "render" /\ pc' = "render" /\ UNCHANGED <<etcd, vppEntries>>
      /\ e \in toRender /\ contrib[e] = Empty
  BY Zenon DEF RenderInvalid, RenderFail, RenderOk, Visit, ContribInv, Rendering
<1>2. FlagsOK'
  BY Zenon DEF RenderInvalid, RenderFail, RenderOk, Visit, loop, TrackedInv, FlagsOK
<1>3. ASSUME NoFaults, UNCHANGED <<contrib, config>> PROVE ListedOK'
  BY <1>1, <1>3, Zenon DEF TrackedInv, ListedOK
<1>4. ASSUME NoFaults, NEW r \in Records, config' = [config EXCEPT ![e] = r],
             contrib'[e] = Empty \/ \A k \in Keys : contrib'[e][k] # None => k \in r.rendered,
             \A f \in Entities : f # e => contrib'[f] = contrib[f]
      PROVE  ListedOK'
  <2> SUFFICES ASSUME NEW f \in Entities, NEW k \in Keys, contrib'[f][k] # None
               PROVE  config'[f] # None /\ k \in config'[f].rendered
    BY Zenon DEF ListedOK
  <2>1. CASE f = e
    BY <1>4, <2>1, Zenon DEF Empty, TypeOK
  <2>2. CASE f # e
    BY <1>1, <1>4, <2>2, Zenon DEF TrackedInv, ListedOK, TypeOK
  <2> QED BY <2>1, <2>2, Zenon
<1>5. ASSUME NoFaults' PROVE NoFaults /\ ListedOK'
  <2>1. CASE RenderInvalid(e)
    BY <1>3, <1>5, <2>1, Zenon DEF RenderInvalid, NoFaults
  <2>2. CASE RenderFail(e)
    <3>1. RenderedRecord(e, "Down", {}) \in Records
      BY <2>2, EmptyType, RecordTypes, Zenon DEF RenderFail, Visit, Statuses
    <3>2. NoFaults /\ config' = [config EXCEPT ![e] = RenderedRecord(e, "Down", {})]
      BY <1>5, <2>2, SaveEntityDone, Zenon DEF RenderFail
    <3>3. UNCHANGED contrib
      BY <2>2, Zenon DEF RenderFail
    <3> QED BY <1>1, <1>4, <3>1, <3>2, <3>3, Zenon
  <2>3. CASE RenderOk(e)
    <3>1. cache[e] # None /\ cache[e].spec \in Specs
      BY <1>1, Zenon DEF TypeOK, Records
    <3>2. PICK m \in Renderings[e][cache[e].spec] :
            /\ SaveEntity(e, RenderedRecord(e, "Up", Present(m)))
            /\ contrib' = [contrib EXCEPT ![e] = m]
      BY <2>3, Zenon DEF RenderOk
    <3>3. m \in Maps
      BY <3>1, <3>2, Zenon
    <3>4. RenderedRecord(e, "Up", Present(m)) \in Records
      BY <3>1, <3>3, RecordTypes, Zenon DEF Statuses
    <3>5. NoFaults /\ config' = [config EXCEPT ![e] = RenderedRecord(e, "Up", Present(m))]
      BY <1>5, <3>2, SaveEntityDone, Zenon
    <3>6. contrib'[e] = m /\ \A f \in Entities : f # e => contrib'[f] = contrib[f]
      BY <3>2, Zenon DEF TypeOK
    <3>7. \A k \in Keys : contrib'[e][k] # None => k \in RenderedRecord(e, "Up", Present(m)).rendered
      BY <3>6, Zenon DEF RenderedRecord, Present
    <3> QED BY <1>4, <3>4, <3>5, <3>6, <3>7, Zenon
  <2> QED BY <2>1, <2>2, <2>3, Zenon
<1>6. ASSUME NoFaults' PROVE KnownUp'
  BY <1>1, <1>5, <1>6, Zenon DEF TrackedInv, Known, KnownUp, Up, Present
<1> QED BY <1>1, <1>2, <1>5, <1>6, TrackedRender, Zenon

LEMMA TrackedEndDelete ==
  ASSUME TypeInv, TrackedInv, NEW k \in Keys, EndDelete(k)
  PROVE  TrackedInv'
<1> USE DEF TypeInv
<1>1. /\ pc = "end" /\ pc' = "end" /\ toDelete' = toDelete \ {k}
      /\ UNCHANGED <<contrib, config, enabled, pending, boot>>
  BY Zenon DEF EndDelete, loop
<1>2. FlagsOK'
  BY <1>1, Zenon DEF TrackedInv, FlagsOK
<1>3. ASSUME NoFaults' PROVE KnownEnd' /\ ListedOK'
  <2>1. NoFaults /\ etcd' = [etcd EXCEPT ![k] = None]
    BY <1>3, DeleteKeyDone, Zenon DEF EndDelete
  <2>2. KnownEnd /\ ListedOK
    BY <2>1, Zenon DEF TrackedInv, Known
  <2>3. KnownEnd'
    BY <1>1, <2>1, <2>2, Zenon DEF KnownEnd, Present, TypeOK, Maps
  <2> QED BY <1>1, <2>2, <2>3, Zenon DEF ListedOK
<1> QED BY <1>1, <1>2, <1>3, TrackedEnd, Zenon

\* What is written was rendered.
LEMMA TrackedEndWrite ==
  ASSUME TypeInv, MirrorInv, ContribInv, TrackedInv, NEW k \in Keys, EndWrite(k)
  PROVE  TrackedInv'
<1> USE DEF TypeInv
<1>1. /\ pc = "end" /\ pc' = "end" /\ toDelete' = toDelete /\ toDelete = {} /\ k \in toWrite
      /\ UNCHANGED <<contrib, config, enabled, pending, boot, faults>>
      /\ etcd' = [etcd EXCEPT ![k] = afterMap[k]]
  BY Zenon DEF EndWrite, loop, txn
<1>2. FlagsOK'
  BY <1>1, Zenon DEF TrackedInv, FlagsOK
<1>3. \E e \in Entities : contrib[e][k] # None
  <2>1. afterMap[k] # None
    BY <1>1, Zenon DEF MirrorInv, TxnOK
  <2>2. \E e \in Entities : contrib[e][k] = Final(k)
    BY <1>1, <2>1, Zenon DEF ContribInv, Ending, Final
  <2> QED BY <2>1, <2>2, Zenon DEF Final
<1>4. ASSUME NoFaults' PROVE KnownEnd' /\ ListedOK'
  <2>1. KnownEnd /\ ListedOK
    BY <1>1, <1>4, Zenon DEF TrackedInv, Known, NoFaults
  <2>2. KnownEnd'
    BY <1>1, <1>3, <2>1, Zenon DEF KnownEnd, Present, TypeOK, Maps
  <2> QED BY <1>1, <2>1, <2>2, Zenon DEF ListedOK
<1> QED BY <1>1, <1>2, <1>4, TrackedEnd, Zenon

\* The keys of the after map were all rendered, and all of them are committed.
LEMMA TrackedCommit ==
  ASSUME TypeInv, ContribInv, TrackedInv, EndCommit
  PROVE  TrackedInv'
<1> USE DEF TypeInv
<1>1. /\ pc = "end" /\ pc' = "idle" /\ toDelete = {} /\ ~pending'
      /\ UNCHANGED <<etcd, config, contrib, enabled, boot, faults>>
      /\ \A k \in Keys : vppEntries'[k] = Final(k)
  BY Zenon DEF EndCommit, EndTxn, store, txn, Merge, Final
<1>2. FlagsOK'
  BY <1>1, Zenon DEF TrackedInv, FlagsOK
<1>3. ASSUME NoFaults' PROVE Known' /\ ListedOK'
  <2>1. KnownEnd /\ ListedOK
    BY <1>1, <1>3, Zenon DEF TrackedInv, Known, NoFaults
  <2>2. \A k \in Present(etcd) : \E e \in Entities : contrib[e][k] # None
    BY <1>1, <2>1, Zenon DEF KnownEnd
  <2>3. \A k \in Keys : (\E e \in Entities : contrib[e][k] # None) => Final(k) # None
    BY <1>1, Zenon DEF ContribInv, Ending
  <2>4. KnownUp'
    BY <1>1, <2>2, <2>3, Zenon DEF KnownUp, Present
  <2>5. KnownQuiet'
    BY <1>1, <2>2, Zenon DEF KnownQuiet, Present
  <2>6. ListedOK'
    BY <1>1, <2>1, Zenon DEF ListedOK
  <2> QED BY <1>1, <2>4, <2>5, <2>6, Zenon DEF Known, KnownDown, KnownClean, KnownEnd, Up
<1> QED BY <1>2, <1>3, Zenon DEF TrackedInv

LEMMA TrackedLoop == TypeInv /\ MirrorInv /\ ContribInv /\ TrackedInv /\ LoopStep => TrackedInv'
<1> SUFFICES ASSUME TypeInv, MirrorInv, ContribInv, TrackedInv, LoopStep PROVE TrackedInv'
  BY Zenon
<1> USE DEF TypeInv
<1>1. CASE AfterInit
  <2>1. FlagsOK' /\ ~Quiet'
    BY <1>1, Zenon DEF AfterInit, loop, TrackedInv, FlagsOK, Quiet
  <2> QED BY <1>1, <2>1, TrackedBefore, Zenon DEF AfterInit, store, NoFaults
<1>2. CASE InitRAMCache
  <2>1. FlagsOK' /\ ~Quiet' /\ pc' = "init"
    BY <1>2, Zenon DEF InitRAMCache, loop, TrackedInv, FlagsOK, Quiet
  <2>2. ASSUME NoFaults' PROVE KnownUp'
    BY <1>2, <2>2, Zenon DEF InitRAMCache, store, TrackedInv, NoFaults, Known, KnownClean, KnownUp, Present
  <2> QED BY <2>1, <2>2, TrackedUp, Zenon
<1>3. CASE DeleteEntity
  <2>1. FlagsOK' /\ ~Quiet' /\ pc' \in {"idle", "txn"}
    BY <1>3, Pends, Zenon DEF DeleteEntity
  <2>2. NoFaults' => NoFaults
    BY <1>3, SaveEntityDone, Zenon DEF DeleteEntity
  <2> QED BY <1>3, <2>1, <2>2, TrackedBefore, Zenon DEF DeleteEntity
<1>4. CASE RenderTxnConfigStart
  <2>1. FlagsOK' /\ pc = "txn" /\ pc' = "render" /\ UNCHANGED <<etcd, vppEntries, faults>>
    BY <1>4, Zenon DEF RenderTxnConfigStart, loop, store, TrackedInv, FlagsOK
  <2>2. \A e \in Entities, k \in Keys : contrib'[e][k] = None
    BY <1>4, Zenon DEF RenderTxnConfigStart, NoContrib, Empty
  <2>3. ListedOK'
    BY <2>2, Zenon DEF ListedOK
  <2>4. ASSUME NoFaults' PROVE KnownUp'
    BY <2>1, <2>4, Zenon DEF TrackedInv, NoFaults, Known, KnownUp, Up, Present
  <2> QED BY <2>1, <2>3, <2>4, TrackedRender, Zenon
<1>5. CASE RenderTxnConfigEnd
  <2>0. FlagsOK'
    BY <1>5, Zenon DEF RenderTxnConfigEnd, loop, TrackedInv, FlagsOK
  <2>1. /\ pc = "render" /\ pc' = "end" /\ UNCHANGED <<etcd, config, contrib, faults>>
        /\ toDelete' = {k \in Keys : vppEntries[k] # None /\ afterMap[k] = None}
    BY <1>5, Zenon DEF RenderTxnConfigEnd, store, Present, MirrorInv, TxnOK
  <2>2. ASSUME NoFaults' PROVE KnownEnd' /\ ListedOK'
    <3>1. ListedOK /\ Present(etcd) \subseteq Present(vppEntries)
      BY <2>1, <2>2, Zenon DEF TrackedInv, NoFaults, Known, KnownUp, Up
    <3>2. ASSUME NEW k \in Keys, etcd[k] # None, k \notin toDelete'
          PROVE  \E e \in Entities : contrib[e][k] # None
      <4>1. afterMap[k] # None
        BY <2>1, <3>1, <3>2, Zenon DEF Present
      <4> QED BY <2>1, <4>1, Zenon DEF ContribInv, Rendering
    <3>3. KnownEnd'
      BY <2>1, <3>2, Zenon DEF KnownEnd, Present
    <3> QED BY <2>1, <3>1, <3>3, Zenon DEF ListedOK
  <2> QED BY <2>0, <2>1, <2>2, TrackedEnd, Zenon
<1>6. CASE EndCommit
  BY <1>6, TrackedCommit, Zenon
<1>7. ASSUME NEW k \in Keys, EndWriteError(k) PROVE TrackedInv'
  <2>1. ~NoFaults' /\ FlagsOK'
    BY <1>7, FailedIsFault, Zenon DEF EndWriteError, EndTxn, TrackedInv, FlagsOK
  <2> QED BY <2>1, Zenon DEF TrackedInv
<1> QED BY <1>1, <1>2, <1>3, <1>4, <1>5, <1>6, <1>7, TrackedDeletes, TrackedVisit,
           TrackedEndDelete, TrackedEndWrite, Zenon DEF LoopStep

LEMMA TrackedStop == TypeInv /\ TrackedInv /\ (Stop \/ Crash) => TrackedInv'
<1> SUFFICES ASSUME TypeInv, TrackedInv, Stop \/ Crash PROVE TrackedInv'
  BY Zenon
<1>1. CASE Crash
  BY <1>1, TrackedDead, Zenon DEF Crash, TypeInv
<1>2. CASE Stop
  <2>1. Quiet /\ pc' = "down" /\ UNCHANGED <<etcd, config, faults>> /\ FlagsOK'
    BY <1>2, Zenon DEF Stop, ClearRAM, store, FlagsOK
  <2>2. ASSUME NoFaults' PROVE Known' /\ ListedOK'
    <3>1. KnownQuiet /\ ListedOK
      BY <2>1, <2>2, Zenon DEF TrackedInv, NoFaults, Known
    <3>2. Present(etcd) \subseteq Listed(config)
      BY <2>1, <3>1, Zenon DEF KnownQuiet, ListedOK, Listed, Present
    <3>3. KnownDown'
      BY <2>1, <3>2, Zenon DEF KnownDown, Present, Listed
    <3> QED BY <2>1, <3>3, Zenon DEF Known, KnownClean, KnownUp, KnownEnd, KnownQuiet, ListedOK, Up, Quiet
  <2> QED BY <2>1, <2>2, Zenon DEF TrackedInv
<1> QED BY <1>1, <1>2, Zenon

LEMMA TrackedStep ==
  TypeInv /\ MirrorInv /\ ContribInv /\ TrackedInv /\ [Next]_vars => TrackedInv'
<1>1. ASSUME TrackedInv, UNCHANGED vars PROVE TrackedInv'
  <2>1. UNCHANGED <<etcd, config, vppEntries, contrib, pc, enabled, pending, boot, toDelete, faults>>
    BY <1>1, Zenon DEF vars, store, txn, loop, work
  <2>2. FlagsOK' /\ (NoFaults' => NoFaults) /\ (Known => Known') /\ (ListedOK => ListedOK')
    BY <1>1, <2>1, Zenon DEF TrackedInv, FlagsOK, NoFaults, Known, KnownDown, KnownClean, KnownUp, KnownEnd,
                      KnownQuiet, ListedOK, Up, Quiet, Present, Listed
  <2> QED BY <1>1, <2>2, Zenon DEF TrackedInv
<1> QED BY <1>1, TrackedStartup, TrackedBoot, TrackedMessage, TrackedLoop, TrackedStop, Zenon DEF Next

LEMMA TrackedAlways == Spec => [](TypeInv /\ TrackedInv)
BY TypeInit, TypeStep, MirrorInit, MirrorStep, ContribInit, ContribStep, TrackedInit, TrackedStep,
   PTL DEF Spec

\* Without faults, at rest and while the process is stopped, the persisted
\* Statuses list every VPP key in etcd: LoadVppEntries loses none.
THEOREM TrackedAtRestHolds == Spec => []TrackedAtRest
<1>1. ASSUME TrackedInv PROVE TrackedAtRest
  <2> SUFFICES ASSUME NoFaults, Quiet \/ ~Up PROVE Present(etcd) \subseteq Listed(config)
    BY Zenon DEF TrackedAtRest
  <2>1. Known /\ ListedOK
    BY <1>1, Zenon DEF TrackedInv
  <2>2. CASE ~Up
    BY <2>1, <2>2, Zenon DEF Known, KnownDown
  <2>3. CASE Quiet
    BY <2>1, <2>3, Zenon DEF Known, KnownQuiet, ListedOK, Listed, Present
  <2> QED BY <2>2, <2>3, Zenon
<1> QED BY <1>1, TrackedAlways, PTL

\* Without faults a transaction leaves nothing in etcd that no entity rendered
\* in it, whatever was there before it.
THEOREM NoOrphanAtRestHolds == Spec => []NoOrphanAtRest
<1>1. ASSUME TrackedInv PROVE NoOrphanAtRest
  BY <1>1, Zenon DEF TrackedInv, Known, KnownQuiet, NoOrphanAtRest
<1> QED BY <1>1, TrackedAlways, PTL

\* Without faults -clean ends with no VPP key left in etcd, after any sequence
\* of configurations, deletions, renders and orderly restarts.
THEOREM CleanSweepsHolds == Spec => CleanSweepsWithoutFaults
<1> DEFINE Sweep == NoFaults /\ pc = "clean" /\ pc' = "init" => etcd' = Empty
<1>1. ASSUME TypeInv, TrackedInv, [Next]_vars PROVE Sweep
  <2> SUFFICES ASSUME NoFaults, pc = "clean", pc' = "init" PROVE etcd' = Empty
    BY Zenon
  <2>1. ~Startup /\ ~BootMessage /\ ~Stop /\ ~Crash
    BY Zenon DEF Startup, Start, StartClean, YamlCU, YamlExit, YamlInvalidService, Up, BootMessage,
           ReceiveEnableRenderer, ReceiveRender, ReceiveBootResync, Stop, Quiet, Crash
  <2>2. ~Message /\ ~UNCHANGED vars
    BY Zenon DEF Message, ReceiveResync, ReceiveCU, ReceiveD, ReceiveDMissing, ReceiveDNilStatus,
           ReceiveInvalidService, Receive, vars
  <2>3. LoopStep
    BY <1>1, <2>1, <2>2, Zenon DEF Next
  <2>4. InitRAMCache
    BY <2>3, Zenon DEF LoopStep, AfterInit, DeleteEntity, RenderTxnConfigStart, RenderTxnConfigEnd,
                EndCommit, CleanVppAgentEntry, DeleteRendered, EndDelete, EndWrite, EndWriteError,
                RenderInvalid, RenderOk, RenderFail, Visit
  <2>5. \A k \in Keys : etcd[k] = None
    BY <1>1, <2>4, Zenon DEF InitRAMCache, TrackedInv, Known, KnownClean, Present
  <2>6. etcd' = etcd /\ etcd \in Maps
    BY <1>1, <2>4, Zenon DEF InitRAMCache, store, TypeInv, TypeOK
  <2> QED BY <2>5, <2>6, Zenon DEF Empty, Maps
<1> QED BY <1>1, TrackedAlways, PTL DEF Spec, CleanSweepsWithoutFaults
=============================================================================

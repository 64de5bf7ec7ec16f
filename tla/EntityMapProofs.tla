--------------------------- MODULE EntityMapProofs ---------------------------
(***************************************************************************)
(* Proofs about EntityMap, for any set of threads, any finite set of       *)
(* handles and any number of entities.                                     *)
(*                                                                         *)
(* The inductive invariant adds to the properties of EntityMap what makes  *)
(* them inductive: keys not yet handed out are not in use, at most one     *)
(* thread is between fetch_sub and push, and an upgrade that has read a    *)
(* count still finds the slot (its read lock keeps take_dropped out).      *)
(***************************************************************************)
EXTENDS EntityMap, FiniteSetTheorems, TLAPS

\* Keys that reserve has not handed out have no slot.
FreshKeys == \A id \in EntityIds : id >= nextKey => counts[id] = NoSlot

\* The upgradable lock admits one thread at a time.
OneDropper ==
  \A t, u \in Threads :
    dropping[t] # NoEntity /\ dropping[u] # NoEntity => t = u

\* An upgrade in progress has read a positive count of a slot that exists.
LoadedLive ==
  \A t \in Threads : loaded[t] # NotLoaded =>
    /\ loaded[t][1] \in EntityIds
    /\ loaded[t][2] > 0
    /\ counts[loaded[t][1]] # NoSlot

\* Strong handles point to slots that exist.
HandlesHaveSlots ==
  \A h \in Handles : handles[h] # NoEntity => counts[handles[h]] # NoSlot

SlotsAreHandles == \A h \in slots : handles[h] # NoEntity

CountInv ==
  /\ TypeOK
  /\ FreshKeys
  /\ OneDropper
  /\ LoadedLive
  /\ HandlesHaveSlots
  /\ SlotsAreHandles
  /\ RefCountExact
  /\ DroppedQueueExact

IInv == CountInv /\ DataOutlivesHandles /\ NoOrphanedData

-----------------------------------------------------------------------------
(* Counting handles.                                                       *)

LEMMA HandleSetsFinite ==
  \A id : IsFiniteSet(HandlesOf(id)) /\ Cardinality(HandlesOf(id)) \in Nat
<1> TAKE id
<1>1. HandlesOf(id) \subseteq Handles
  BY DEF HandlesOf
<1>2. IsFiniteSet(HandlesOf(id))
  BY <1>1, HandlesAssumption, FS_Subset
<1> QED
  BY <1>2, FS_CardinalityType

\* A handle that comes to point to an entity adds one to its handles.
LEMMA HandleGained ==
  ASSUME TypeOK, NEW h \in Handles, handles[h] = NoEntity,
         NEW id \in EntityIds, handles' = [handles EXCEPT ![h] = id]
  PROVE  \A e \in EntityIds :
           Cardinality(HandlesOf(e)') =
             IF e = id THEN Cardinality(HandlesOf(e)) + 1
                       ELSE Cardinality(HandlesOf(e))
<1> TAKE e \in EntityIds
<1>1. CASE e = id
  <2>1. HandlesOf(e)' = HandlesOf(e) \cup {h}
    BY <1>1 DEF HandlesOf, TypeOK
  <2>2. h \notin HandlesOf(e)
    BY DEF HandlesOf, NoEntity, EntityIds
  <2> QED
    BY <1>1, <2>1, <2>2, HandleSetsFinite, FS_AddElement
<1>2. CASE e # id
  <2>1. HandlesOf(e)' = HandlesOf(e)
    BY <1>2 DEF HandlesOf, TypeOK, NoEntity, EntityIds
  <2> QED
    BY <1>2, <2>1
<1> QED
  BY <1>1, <1>2

\* A handle that is dropped takes one from the handles of its entity.
LEMMA HandleLost ==
  ASSUME TypeOK, NEW h \in Handles, handles[h] # NoEntity,
         handles' = [handles EXCEPT ![h] = NoEntity]
  PROVE  \A e \in EntityIds :
           Cardinality(HandlesOf(e)') =
             IF e = handles[h] THEN Cardinality(HandlesOf(e)) - 1
                               ELSE Cardinality(HandlesOf(e))
<1> TAKE e \in EntityIds
<1>1. CASE e = handles[h]
  <2>1. HandlesOf(e)' = HandlesOf(e) \ {h}
    BY <1>1 DEF HandlesOf, TypeOK, NoEntity, EntityIds
  <2>2. h \in HandlesOf(e)
    BY <1>1 DEF HandlesOf
  <2> QED
    BY <1>1, <2>1, <2>2, HandleSetsFinite, FS_RemoveElement
<1>2. CASE e # handles[h]
  <2>1. HandlesOf(e)' = HandlesOf(e)
    BY <1>2 DEF HandlesOf, TypeOK, NoEntity, EntityIds
  <2> QED
    BY <1>2, <2>1
<1> QED
  BY <1>1, <1>2

\* What points to an entity counts: a positive count means some handle, a
\* handle means a positive count.
LEMMA CountedHandles ==
  ASSUME RefCountExact, NEW id \in EntityIds, counts[id] # NoSlot
  PROVE  /\ counts[id] \in Nat
         /\ counts[id] = 0 <=> HandlesOf(id) = {}
BY HandleSetsFinite, FS_EmptySet DEF RefCountExact

LEMMA HandleIsCounted ==
  ASSUME TypeOK, RefCountExact, HandlesHaveSlots,
         NEW h \in Handles, handles[h] # NoEntity
  PROVE  handles[h] \in EntityIds /\ counts[handles[h]] > 0
<1>1. handles[h] \in EntityIds /\ counts[handles[h]] # NoSlot
  BY DEF TypeOK, HandlesHaveSlots
<1>2. h \in HandlesOf(handles[h])
  BY DEF HandlesOf
<1> QED
  BY <1>1, <1>2, CountedHandles

\* NoOverRelease needs no strengthening of its own: a count is exact.
LEMMA NoOverReleaseHolds ==
  CountInv => NoOverRelease
BY HandleIsCounted DEF CountInv, NoOverRelease

-----------------------------------------------------------------------------
(* The inductive step of the counting part, action by action.              *)

LEMMA CountInit == Init => CountInv
<1> SUFFICES ASSUME Init PROVE CountInv
  OBVIOUS
<1>1. TypeOK
  BY MaxEntitiesAssumption, ThreadsAssumption
  DEF Init, TypeOK, EntityIds, NoEntity, NoSlot, NotLoaded
<1>2. FreshKeys /\ OneDropper /\ LoadedLive /\ HandlesHaveSlots /\ SlotsAreHandles
  BY DEF Init, FreshKeys, OneDropper, LoadedLive, HandlesHaveSlots, SlotsAreHandles
<1>3. RefCountExact /\ DroppedQueueExact
  BY DEF Init, RefCountExact, DroppedQueueExact, EntityIds, NoSlot, NoEntity
<1> QED
  BY <1>1, <1>2, <1>3 DEF CountInv

LEMMA ReserveCounts ==
  ASSUME CountInv, NEW h \in Handles, Reserve(h)
  PROVE  CountInv'
<1> USE DEF CountInv
<1>0. nextKey \in EntityIds /\ counts[nextKey] = NoSlot
  BY DEF Reserve, FreshKeys, EntityIds
<1>1. TypeOK'
  BY <1>0, MaxEntitiesAssumption DEF TypeOK, Reserve, EntityIds
<1>2. FreshKeys'
  BY <1>0 DEF FreshKeys, Reserve, TypeOK, EntityIds
<1>3. OneDropper' /\ SlotsAreHandles'
  BY <1>0 DEF OneDropper, SlotsAreHandles, Reserve, TypeOK, EntityIds, NoEntity
<1>4. LoadedLive' /\ HandlesHaveSlots'
  BY <1>0 DEF LoadedLive, HandlesHaveSlots, Reserve, TypeOK, NoSlot, NoEntity, EntityIds
<1>5. RefCountExact'
  <2>1. Cardinality(HandlesOf(nextKey)) = 0
    <3>1. HandlesOf(nextKey) = {}
      BY <1>0 DEF HandlesOf, HandlesHaveSlots, EntityIds, NoEntity
    <3> QED
      BY <3>1, FS_EmptySet
  <2>2. \A e \in EntityIds :
          Cardinality(HandlesOf(e)') = IF e = nextKey THEN Cardinality(HandlesOf(e)) + 1
                                                      ELSE Cardinality(HandlesOf(e))
    BY <1>0, HandleGained DEF Reserve
  <2>3. counts'[nextKey] = 1 /\ \A e \in EntityIds \ {nextKey} : counts'[e] = counts[e]
    BY <1>0 DEF Reserve, TypeOK
  <2> QED
    BY <2>1, <2>2, <2>3 DEF RefCountExact
<1>6. DroppedQueueExact'
  <2>1. \A e \in EntityIds : counts'[e] = 0 <=> counts[e] = 0
    BY <1>0 DEF Reserve, TypeOK, NoSlot
  <2>2. dropped' = dropped /\ dropping' = dropping
    BY DEF Reserve
  <2> QED
    BY <2>1, <2>2 DEF DroppedQueueExact
<1> QED
  BY <1>1, <1>2, <1>3, <1>4, <1>5, <1>6

\* Cloning and a successful compare_exchange add one handle and one count.
LEMMA OneMoreHandle ==
  ASSUME CountInv, NEW h \in Handles, NEW id \in EntityIds,
         handles[h] = NoEntity, counts[id] > 0,
         handles' = [handles EXCEPT ![h] = id],
         counts' = [counts EXCEPT ![id] = @ + 1],
         UNCHANGED <<nextKey, dropped, slots, dropping, entities, leases,
                     accessed, released>>,
         \A t \in Threads : loaded'[t] \in {loaded[t], NotLoaded},
         loaded' \in [Threads -> (EntityIds \cup {NoEntity}) \X Nat]
  PROVE  CountInv'
<1> USE DEF CountInv
<1>0. counts[id] \in Nat /\ counts[id] # NoSlot
  BY DEF TypeOK, NoSlot
<1>1. TypeOK'
  BY <1>0 DEF TypeOK
<1>2. FreshKeys' /\ OneDropper' /\ SlotsAreHandles'
  BY <1>0 DEF FreshKeys, OneDropper, SlotsAreHandles, TypeOK, NoEntity, EntityIds
<1>3. LoadedLive' /\ HandlesHaveSlots'
  BY <1>0 DEF LoadedLive, HandlesHaveSlots, TypeOK, NoSlot, NoEntity, EntityIds
<1>4. RefCountExact'
  BY <1>0, HandleGained, HandleSetsFinite DEF RefCountExact, TypeOK
<1>5. DroppedQueueExact'
  <2>1. \A e \in EntityIds : counts'[e] = 0 <=> counts[e] = 0
    BY <1>0 DEF TypeOK
  <2> QED
    BY <2>1 DEF DroppedQueueExact
<1> QED
  BY <1>1, <1>2, <1>3, <1>4, <1>5

LEMMA CloneCounts ==
  ASSUME CountInv, NEW t \in Threads, NEW h \in Handles, NEW copy \in Handles,
         CloneHandle(t, h, copy)
  PROVE  CountInv'
<1>1. handles[h] \in EntityIds
  BY DEF CloneHandle, CountInv, TypeOK
<1> QED
  BY <1>1, OneMoreHandle DEF CloneHandle, mapVars, CountInv, TypeOK

LEMMA ExchangeCounts ==
  ASSUME CountInv, NEW t \in Threads, NEW h \in Handles, WeakExchange(t, h)
  PROVE  CountInv'
<1>1. /\ loaded[t][1] \in EntityIds
      /\ counts[loaded[t][1]] > 0
  BY DEF WeakExchange, CountInv, LoadedLive
<1>2. loaded' \in [Threads -> (EntityIds \cup {NoEntity}) \X Nat]
  BY DEF WeakExchange, CountInv, TypeOK, NotLoaded
<1>3. \A u \in Threads : loaded'[u] \in {loaded[u], NotLoaded}
  BY DEF WeakExchange, CountInv, TypeOK
<1> QED
  BY <1>1, <1>2, <1>3, OneMoreHandle DEF WeakExchange, mapVars

LEMMA DropCounts ==
  ASSUME CountInv, NEW t \in Threads, NEW h \in Handles, DropHandle(t, h)
  PROVE  CountInv'
<1> USE DEF CountInv
<1> DEFINE id == handles[h]
<1>0. /\ id \in EntityIds
      /\ counts[id] \in Nat \ {0}
      /\ \A u \in Threads : dropping[u] = NoEntity
  BY DEF DropHandle, TypeOK, NoUpgradable, NoSlot
<1>1. TypeOK'
  BY <1>0 DEF TypeOK, DropHandle
<1>2. FreshKeys' /\ OneDropper' /\ SlotsAreHandles'
  BY <1>0 DEF FreshKeys, OneDropper, SlotsAreHandles, DropHandle, TypeOK, NoSlot, EntityIds
<1>3. LoadedLive' /\ HandlesHaveSlots'
  BY <1>0 DEF LoadedLive, HandlesHaveSlots, DropHandle, TypeOK, NoSlot
<1>4. RefCountExact'
  <2>1. \A e \in EntityIds :
          Cardinality(HandlesOf(e)') = IF e = id THEN Cardinality(HandlesOf(e)) - 1
                                                 ELSE Cardinality(HandlesOf(e))
    BY HandleLost DEF DropHandle
  <2>2. /\ counts'[id] = counts[id] - 1
        /\ \A e \in EntityIds \ {id} : counts'[e] = counts[e]
    BY <1>0 DEF DropHandle, TypeOK
  <2>3. counts[id] # NoSlot
    BY <1>0 DEF NoSlot
  <2> QED
    BY <1>0, <2>1, <2>2, <2>3 DEF RefCountExact
<1>5. DroppedQueueExact'
  <2>1. \A i \in DOMAIN dropped : dropped[i] # id
    BY <1>0 DEF DroppedQueueExact
  <2>2. \A i \in DOMAIN dropped, u \in Threads : dropped[i] # dropping'[u]
    BY <1>0, <2>1 DEF DroppedQueueExact, DropHandle, TypeOK
  <2>3. \A e \in EntityIds : e # id =>
          /\ counts'[e] = counts[e]
          /\ \A u \in Threads : dropping'[u] = e <=> dropping[u] = e
    BY <1>0 DEF DropHandle, TypeOK, NoEntity, EntityIds
  <2>4. counts'[id] = 0 <=> \E u \in Threads : dropping'[u] = id
    <3>1. CASE counts[id] = 1
      <4>1. counts'[id] = 0 /\ dropping'[t] = id
        BY <1>0, <3>1 DEF DropHandle, TypeOK
      <4> QED
        BY <4>1
    <3>2. CASE counts[id] # 1
      <4>1. counts'[id] # 0 /\ dropping' = dropping
        BY <1>0, <3>2 DEF DropHandle, TypeOK
      <4> QED
        BY <1>0, <4>1 DEF NoEntity, EntityIds
    <3> QED
      BY <3>1, <3>2
  <2>5. dropped' = dropped
    BY DEF DropHandle
  <2> QED
    BY <2>1, <2>2, <2>3, <2>4, <2>5 DEF DroppedQueueExact
<1> QED
  BY <1>1, <1>2, <1>3, <1>4, <1>5

LEMMA QueueCounts ==
  ASSUME CountInv, NEW t \in Threads, QueueDropped(t)
  PROVE  CountInv'
<1> USE DEF CountInv
<1> DEFINE id == dropping[t]
<1>0. /\ id \in EntityIds
      /\ counts[id] = 0
      /\ dropped \in Seq(EntityIds)
      /\ \A u \in Threads : u # t => dropping[u] = NoEntity
      /\ dropping'[t] = NoEntity
  BY DEF QueueDropped, TypeOK, OneDropper, DroppedQueueExact
<1>1. TypeOK'
  BY <1>0 DEF TypeOK, QueueDropped, mapVars
<1>2. FreshKeys' /\ OneDropper' /\ SlotsAreHandles' /\ LoadedLive' /\ HandlesHaveSlots'
  BY <1>0 DEF FreshKeys, OneDropper, SlotsAreHandles, LoadedLive, HandlesHaveSlots,
              QueueDropped, mapVars, TypeOK
<1>3. RefCountExact'
  BY DEF RefCountExact, QueueDropped, mapVars, HandlesOf
<1>4. DroppedQueueExact'
  <2>1. \A u \in Threads : dropping'[u] = NoEntity
    BY <1>0 DEF QueueDropped, TypeOK
  <2>2. /\ DOMAIN dropped' = 1..(Len(dropped) + 1)
        /\ DOMAIN dropped = 1..Len(dropped)
        /\ Len(dropped) \in Nat
        /\ \A i \in DOMAIN dropped : dropped'[i] = dropped[i] /\ dropped[i] \in EntityIds
        /\ dropped'[Len(dropped) + 1] = id
    BY <1>0 DEF QueueDropped
  <2>3. \A i \in DOMAIN dropped : dropped[i] # id
    BY DEF DroppedQueueExact
  <2>4. \A i, j \in DOMAIN dropped' : dropped'[i] = dropped'[j] => i = j
    BY <2>2, <2>3 DEF DroppedQueueExact
  <2>5. \A e \in EntityIds : (\E i \in DOMAIN dropped' : dropped'[i] = e)
                             <=> e = id \/ \E i \in DOMAIN dropped : dropped[i] = e
    BY <2>2
  <2>6. \A e \in EntityIds : (\E u \in Threads : dropping[u] = e) <=> e = id
    BY <1>0 DEF EntityIds, NoEntity
  <2>7. counts' = counts
    BY DEF QueueDropped
  <2>8. \A e \in EntityIds : ~ \E u \in Threads : dropping'[u] = e
    BY <2>1 DEF EntityIds, NoEntity
  <2>9. \A e \in EntityIds :
          counts'[e] = 0 <=> \/ \E i \in DOMAIN dropped' : dropped'[i] = e
                             \/ \E u \in Threads : dropping'[u] = e
    BY <2>5, <2>6, <2>7, <2>8 DEF DroppedQueueExact
  <2>10. \A i \in DOMAIN dropped', u \in Threads : dropped'[i] # dropping'[u]
    BY <1>0, <2>1, <2>2 DEF EntityIds, NoEntity
  <2> QED
    BY <2>4, <2>9, <2>10 DEF DroppedQueueExact
<1> QED
  BY <1>1, <1>2, <1>3, <1>4

\* take_dropped frees slots with a zero count only, so no handle loses its slot.
LEMMA TakeCounts ==
  ASSUME CountInv, TakeDropped
  PROVE  CountInv'
<1> USE DEF CountInv
<1> DEFINE ids == {dropped[i] : i \in DOMAIN dropped}
<1>0. /\ \A e \in EntityIds : e \in ids <=> counts[e] = 0
      /\ \A t \in Threads : dropping[t] = NoEntity /\ loaded[t] = NotLoaded
      /\ \A e \in EntityIds : counts'[e] = IF e \in ids THEN NoSlot ELSE counts[e]
  BY SMTT(30) DEF TakeDropped, CanWrite, NoReader, NoUpgradable, DroppedQueueExact, TypeOK,
         EntityIds, NoEntity
<1>1. TypeOK'
  BY DEF TypeOK, TakeDropped
<1>2. FreshKeys' /\ OneDropper' /\ SlotsAreHandles'
  BY <1>0 DEF FreshKeys, OneDropper, SlotsAreHandles, TakeDropped
<1>3. LoadedLive'
  BY <1>0 DEF LoadedLive, TakeDropped
<1>4. HandlesHaveSlots'
  BY <1>0, HandleIsCounted DEF HandlesHaveSlots, TakeDropped
<1>5. RefCountExact'
  BY <1>0 DEF RefCountExact, TakeDropped, HandlesOf
<1>6. DroppedQueueExact'
  <2>1. \A e \in EntityIds : counts'[e] # 0
    BY <1>0 DEF NoSlot
  <2>2. DOMAIN dropped' = {} /\ \A u \in Threads : dropping'[u] = NoEntity
    BY <1>0 DEF TakeDropped
  <2> QED
    BY <2>1, <2>2 DEF DroppedQueueExact, EntityIds, NoEntity
<1> QED
  BY <1>1, <1>2, <1>3, <1>4, <1>5, <1>6

LEMMA LoadCounts ==
  ASSUME CountInv, NEW t \in Threads,
         \/ \E id \in EntityIds : WeakLoad(t, id)
         \/ WeakRetry(t)
  PROVE  CountInv'
<1> USE DEF CountInv
<1>1. UNCHANGED <<nextKey, counts, dropped, entities, leases, accessed, handles,
                  slots, dropping, released>>
  BY DEF WeakLoad, WeakRetry, mapVars
<1>2. \E id \in EntityIds :
        /\ counts[id] # NoSlot
        /\ \/ loaded' = [loaded EXCEPT ![t] = NotLoaded]
           \/ counts[id] > 0 /\ loaded' = [loaded EXCEPT ![t] = <<id, counts[id]>>]
  <2>1. ASSUME NEW id \in EntityIds, WeakLoad(t, id)
        PROVE  counts[id] > 0 /\ counts[id] # NoSlot
               /\ loaded' = [loaded EXCEPT ![t] = <<id, counts[id]>>]
    BY <2>1 DEF WeakLoad, NoSlot
  <2>2. CASE WeakRetry(t)
    <3>1. loaded[t][1] \in EntityIds /\ counts[loaded[t][1]] \in Nat
      BY <2>2 DEF WeakRetry, LoadedLive, TypeOK
    <3>2. counts[loaded[t][1]] # NoSlot
      BY <3>1 DEF NoSlot
    <3>3. CASE counts[loaded[t][1]] = 0
      <4>1. loaded' = [loaded EXCEPT ![t] = NotLoaded]
        BY <2>2, <3>3 DEF WeakRetry
      <4> QED
        BY <3>1, <3>2, <4>1
    <3>4. CASE counts[loaded[t][1]] > 0
      <4> DEFINE seen == <<loaded[t][1], counts[loaded[t][1]]>>
      <4>1. (IF counts[loaded[t][1]] = 0 THEN NotLoaded ELSE seen) = seen
        BY <3>1, <3>4
      <4>2. loaded' = [loaded EXCEPT ![t] = seen]
        BY <2>2, <4>1 DEF WeakRetry
      <4> QED
        BY <3>1, <3>2, <3>4, <4>2
    <3> QED
      BY <3>1, <3>3, <3>4
  <2> QED
    BY <2>1, <2>2
<1>3. TypeOK'
  BY <1>1, <1>2, SMTT(30) DEF TypeOK, NotLoaded, NoSlot
<1>4. LoadedLive'
  <2>1. \A u \in Threads : u # t => loaded'[u] = loaded[u]
    BY <1>2 DEF TypeOK
  <2>2. \/ loaded'[t] = NotLoaded
        \/ /\ loaded'[t][1] \in EntityIds
           /\ loaded'[t][2] > 0
           /\ counts[loaded'[t][1]] # NoSlot
    BY <1>2 DEF TypeOK
  <2> QED
    BY <1>1, <2>1, <2>2 DEF LoadedLive
<1>5. FreshKeys' /\ OneDropper' /\ SlotsAreHandles' /\ HandlesHaveSlots'
  BY <1>1 DEF FreshKeys, OneDropper, SlotsAreHandles, HandlesHaveSlots
<1>6. RefCountExact' /\ DroppedQueueExact'
  BY <1>1 DEF RefCountExact, DroppedQueueExact, HandlesOf
<1> QED
  BY <1>3, <1>4, <1>5, <1>6

\* The operations on the map itself touch no count and no handle.
LEMMA MapCounts ==
  ASSUME CountInv,
         \/ \E h \in Handles : Insert(h) \/ Lease(h) \/ ReadEntity(h)
         \/ \E id \in EntityIds : EndLease(id)
         \/ ClearAccessed
  PROVE  CountInv'
<1> USE DEF CountInv
<1>1. UNCHANGED <<nextKey, counts, dropped, handles, dropping, loaded, released>>
  BY DEF Insert, Lease, ReadEntity, EndLease, ClearAccessed
<1>2. slots' \subseteq slots
  BY DEF Insert, Lease, ReadEntity, EndLease, ClearAccessed
<1>3. /\ entities' \subseteq EntityIds
      /\ leases' \subseteq EntityIds
      /\ accessed' \subseteq EntityIds
  BY DEF Insert, Lease, ReadEntity, EndLease, ClearAccessed, TypeOK, SlotsAreHandles
<1>4. TypeOK'
  BY <1>1, <1>2, <1>3 DEF TypeOK
<1>5. FreshKeys' /\ OneDropper' /\ SlotsAreHandles' /\ HandlesHaveSlots' /\ LoadedLive'
  BY <1>1, <1>2 DEF FreshKeys, OneDropper, SlotsAreHandles, HandlesHaveSlots, LoadedLive
<1>6. RefCountExact' /\ DroppedQueueExact'
  BY <1>1 DEF RefCountExact, DroppedQueueExact, HandlesOf
<1> QED
  BY <1>4, <1>5, <1>6

LEMMA CountStep == CountInv /\ [Next]_vars => CountInv'
<1> SUFFICES ASSUME CountInv, [Next]_vars PROVE CountInv'
  OBVIOUS
<1>1. ASSUME NEW h \in Handles, Reserve(h) PROVE CountInv'
  BY <1>1, ReserveCounts
<1>2. CASE \/ \E h \in Handles : Insert(h) \/ Lease(h) \/ ReadEntity(h)
           \/ \E id \in EntityIds : EndLease(id)
           \/ ClearAccessed
  BY <1>2, MapCounts
<1>3. CASE TakeDropped
  BY <1>3, TakeCounts
<1>4. ASSUME NEW t \in Threads, NEW h \in Handles, NEW copy \in Handles,
             CloneHandle(t, h, copy)
      PROVE  CountInv'
  BY <1>4, CloneCounts
<1>5. ASSUME NEW t \in Threads, NEW h \in Handles, DropHandle(t, h)
      PROVE  CountInv'
  BY <1>5, DropCounts
<1>6. ASSUME NEW t \in Threads, NEW h \in Handles, WeakExchange(t, h)
      PROVE  CountInv'
  BY <1>6, ExchangeCounts
<1>7. ASSUME NEW t \in Threads, QueueDropped(t) PROVE CountInv'
  BY <1>7, QueueCounts
<1>8. ASSUME NEW t \in Threads,
             (\E id \in EntityIds : WeakLoad(t, id)) \/ WeakRetry(t)
      PROVE  CountInv'
  BY <1>8, LoadCounts
<1>9. CASE UNCHANGED vars
  BY <1>9 DEF vars, CountInv, TypeOK, FreshKeys, OneDropper, LoadedLive, HandlesHaveSlots,
              SlotsAreHandles, RefCountExact, DroppedQueueExact, HandlesOf
<1> QED
  BY <1>1, <1>2, <1>3, <1>4, <1>5, <1>6, <1>7, <1>8, <1>9 DEF Next

-----------------------------------------------------------------------------
(* The data of an entity.                                                  *)

\* An entity with a positive count has its data, or a Slot to insert it with.
LEMMA LivingHasData ==
  ASSUME IInv, NEW id \in EntityIds, counts[id] > 0
  PROVE  id \in entities \cup leases \/ \E s \in slots : handles[s] = id
<1>1. counts[id] # NoSlot
  BY DEF NoSlot
<1>2. PICK h \in Handles : handles[h] = id
  BY <1>1, CountedHandles DEF IInv, CountInv, HandlesOf
<1> QED
  BY <1>2 DEF IInv, DataOutlivesHandles, EntityIds, NoEntity

LEMMA DataStep ==
  ASSUME IInv, [Next]_vars
  PROVE  DataOutlivesHandles' /\ NoOrphanedData'
<1> USE DEF IInv
<1>0. CountInv'
  BY CountStep
<1>1. ASSUME NEW h \in Handles, Reserve(h)
      PROVE  DataOutlivesHandles' /\ NoOrphanedData'
  <2>1. /\ nextKey \in EntityIds
        /\ counts' = [counts EXCEPT ![nextKey] = 1]
        /\ handles' = [handles EXCEPT ![h] = nextKey]
        /\ slots' = slots \cup {h}
        /\ UNCHANGED <<entities, leases>>
    BY <1>1 DEF Reserve
  <2>2. DataOutlivesHandles'
    <3>1. \A s \in slots : s # h /\ s \in Handles
      BY <1>1 DEF Reserve, CountInv, SlotsAreHandles, TypeOK
    <3>2. /\ handles'[h] = nextKey
          /\ \A g \in Handles \ {h} : handles'[g] = handles[g]
      BY <2>1 DEF CountInv, TypeOK
    <3> QED
      BY <2>1, <3>1, <3>2 DEF DataOutlivesHandles
  <2>3. NoOrphanedData'
    BY <2>1 DEF NoOrphanedData, CountInv, TypeOK, NoSlot
  <2> QED
    BY <2>2, <2>3
<1>2. ASSUME NEW h \in Handles, Insert(h) \/ Lease(h) \/ ReadEntity(h)
      PROVE  DataOutlivesHandles' /\ NoOrphanedData'
  <2>1. handles' = handles /\ counts' = counts
    BY <1>2 DEF Insert, Lease, ReadEntity
  <2>2. CASE Insert(h)
    <3>1. /\ slots' = slots \ {h}
          /\ entities' = entities \cup {handles[h]}
          /\ leases' = leases
          /\ handles[h] # NoEntity
      BY <2>2 DEF Insert, CountInv, SlotsAreHandles
    <3>2. h \in Handles /\ counts[handles[h]] # NoSlot
      BY <3>1 DEF CountInv, HandlesHaveSlots
    <3> QED
      BY <2>1, <3>1, <3>2 DEF DataOutlivesHandles, NoOrphanedData
  <2>3. CASE Lease(h) \/ ReadEntity(h)
    <3>1. entities' \cup leases' = entities \cup leases /\ slots' = slots
      BY <2>3 DEF Lease, ReadEntity
    <3> QED
      BY <2>1, <3>1 DEF DataOutlivesHandles, NoOrphanedData
  <2> QED
    BY <1>2, <2>2, <2>3
<1>3. ASSUME NEW id \in EntityIds, EndLease(id)
      PROVE  DataOutlivesHandles' /\ NoOrphanedData'
  <2>1. /\ entities' \cup leases' = entities \cup leases
        /\ UNCHANGED <<slots, handles, counts>>
    BY <1>3 DEF EndLease
  <2> QED
    BY <2>1 DEF DataOutlivesHandles, NoOrphanedData
<1>4. CASE TakeDropped
  <2> DEFINE ids == {dropped[i] : i \in DOMAIN dropped}
  <2>1. \A e \in EntityIds : e \in ids <=> counts[e] = 0
    BY <1>4 DEF TakeDropped, CanWrite, NoUpgradable, CountInv, DroppedQueueExact, TypeOK,
                EntityIds, NoEntity
  <2>2. /\ entities' = entities \ ids /\ leases = {} /\ leases' = {}
        /\ \A e \in EntityIds : counts'[e] = IF e \in ids THEN NoSlot ELSE counts[e]
        /\ UNCHANGED <<handles, slots>>
    BY <1>4 DEF TakeDropped
  <2>3. \A h \in Handles : handles[h] # NoEntity => handles[h] \notin ids
    BY <2>1, HandleIsCounted DEF CountInv
  <2>4. DataOutlivesHandles'
    BY <2>2, <2>3 DEF DataOutlivesHandles
  <2>5. NoOrphanedData'
    BY <2>2 DEF NoOrphanedData, CountInv, TypeOK
  <2> QED
    BY <2>4, <2>5
<1>5. ASSUME NEW h \in Handles, NEW id \in EntityIds,
             counts[id] > 0, handles' = [handles EXCEPT ![h] = id],
             counts' = [counts EXCEPT ![id] = @ + 1],
             UNCHANGED <<entities, leases, slots>>, handles[h] = NoEntity
      PROVE  DataOutlivesHandles' /\ NoOrphanedData'
  <2>1. id \in entities \cup leases \/ \E s \in slots : handles[s] = id
    BY <1>5, LivingHasData
  <2>2. \A s \in slots : s # h /\ handles'[s] = handles[s]
    BY <1>5 DEF CountInv, SlotsAreHandles, TypeOK
  <2>3. DataOutlivesHandles'
    BY <1>5, <2>1, <2>2 DEF DataOutlivesHandles, CountInv, TypeOK
  <2>4. \A e \in EntityIds : counts[e] # NoSlot => counts'[e] # NoSlot
    BY <1>5 DEF CountInv, TypeOK, NoSlot
  <2>5. NoOrphanedData'
    BY <1>5, <2>4 DEF NoOrphanedData, CountInv, TypeOK
  <2> QED
    BY <2>3, <2>5
<1>6. ASSUME NEW t \in Threads, NEW h \in Handles, NEW copy \in Handles,
             CloneHandle(t, h, copy)
      PROVE  DataOutlivesHandles' /\ NoOrphanedData'
  <2>1. handles[h] \in EntityIds
    BY <1>6 DEF CloneHandle, CountInv, TypeOK
  <2> QED
    BY <1>5, <1>6, <2>1 DEF CloneHandle, mapVars
<1>7. ASSUME NEW t \in Threads, NEW h \in Handles, WeakExchange(t, h)
      PROVE  DataOutlivesHandles' /\ NoOrphanedData'
  <2>1. loaded[t][1] \in EntityIds /\ counts[loaded[t][1]] > 0
    BY <1>7 DEF WeakExchange, CountInv, LoadedLive
  <2> QED
    BY <1>5, <1>7, <2>1 DEF WeakExchange, mapVars
<1>8. ASSUME NEW t \in Threads, NEW h \in Handles, DropHandle(t, h)
      PROVE  DataOutlivesHandles' /\ NoOrphanedData'
  <2>1. /\ handles' = [handles EXCEPT ![h] = NoEntity]
        /\ slots' = slots \ {h}
        /\ h \in slots => HandlesOf(handles[h]) = {h}
        /\ counts[handles[h]] > 0
        /\ counts' = [counts EXCEPT ![handles[h]] = @ - 1]
        /\ UNCHANGED <<entities, leases>>
    BY <1>8 DEF DropHandle
  <2>2. \A g \in Handles : handles'[g] # NoEntity => g # h /\ handles'[g] = handles[g]
    BY <2>1 DEF CountInv, TypeOK
  <2>3. ASSUME NEW g \in Handles, g # h, handles[g] # NoEntity
        PROVE  \/ handles[g] \in entities \cup leases
               \/ \E s \in slots \ {h} : handles[s] = handles[g]
    <3>1. h \in slots => handles[g] # handles[h]
      BY <2>1, <2>3 DEF HandlesOf
    <3> QED
      BY <2>3, <3>1 DEF DataOutlivesHandles
  <2>4. DataOutlivesHandles'
    BY <2>1, <2>2, <2>3 DEF DataOutlivesHandles, CountInv, TypeOK
  <2>5. \A e \in EntityIds : counts[e] # NoSlot => counts'[e] # NoSlot
    BY <2>1 DEF CountInv, TypeOK, NoSlot
  <2>6. NoOrphanedData'
    BY <2>1, <2>5 DEF NoOrphanedData, CountInv, TypeOK
  <2> QED
    BY <2>4, <2>6
<1>9. CASE \/ UNCHANGED <<handles, slots, entities, leases, counts>>
  BY <1>9 DEF DataOutlivesHandles, NoOrphanedData
<1>10. ASSUME NEW t \in Threads,
              QueueDropped(t) \/ (\E id \in EntityIds : WeakLoad(t, id)) \/ WeakRetry(t)
       PROVE  DataOutlivesHandles' /\ NoOrphanedData'
  BY <1>9, <1>10 DEF QueueDropped, WeakLoad, WeakRetry, mapVars
<1>11. CASE ClearAccessed \/ UNCHANGED vars
  BY <1>9, <1>11 DEF ClearAccessed, vars
<1> QED
  BY <1>1, <1>2, <1>3, <1>4, <1>6, <1>7, <1>8, <1>10, <1>11 DEF Next

-----------------------------------------------------------------------------
(* The theorems.                                                           *)

LEMMA IInvHolds == Spec => []IInv
<1>1. Init => IInv
  BY CountInit DEF Init, IInv, DataOutlivesHandles, NoOrphanedData
<1>2. IInv /\ [Next]_vars => IInv'
  BY CountStep, DataStep DEF IInv
<1> QED
  BY <1>1, <1>2, PTL DEF Spec

\* Every variable of the entity map keeps its type, the counters included:
\* fetch_sub never takes a count below zero.
THEOREM TypeCorrect == Spec => []TypeOK
BY IInvHolds, PTL DEF IInv, CountInv

\* The reference count of every slot is the number of its strong handles, in
\* every interleaving of clones, drops and upgrades on any number of threads.
THEOREM CountsAreExact == Spec => [](RefCountExact /\ NoOverRelease)
<1>1. IInv => RefCountExact /\ NoOverRelease
  BY NoOverReleaseHolds DEF IInv, CountInv
<1> QED
  BY <1>1, IInvHolds, PTL

\* Each dropped entity is queued once, so the unwrap and the debug_assert of
\* take_dropped hold.
THEOREM QueueIsExact == Spec => []DroppedQueueExact
BY IInvHolds, PTL DEF IInv, CountInv

\* While a strong handle exists the data of its entity exists, and no data is
\* stored under a key whose slot was freed.
THEOREM DataLives == Spec => [](DataOutlivesHandles /\ NoOrphanedData)
BY IInvHolds, PTL DEF IInv

-----------------------------------------------------------------------------
(* Upgrades and the refinement.                                            *)

\* Once an entity is at zero references it only waits for its slot to be
\* freed: no upgrade of a weak handle brings it back.
THEOREM NoneResurrected == Spec => NoResurrection
<1>1. ASSUME IInv, [Next]_vars
      PROVE  \A id \in EntityIds : counts[id] = 0 => counts'[id] \in {0, NoSlot}
  <2> USE <1>1 DEF IInv, CountInv
  <2>0. SUFFICES ASSUME NEW id \in EntityIds, counts[id] = 0
                 PROVE  counts'[id] \in {0, NoSlot}
    OBVIOUS
  <2>1. ASSUME NEW h \in Handles, Reserve(h)
        PROVE  counts'[id] = 0
    <3>1. nextKey >= nextKey /\ counts[nextKey] = NoSlot
      BY <2>1 DEF FreshKeys, Reserve, EntityIds
    <3>2. id # nextKey
      BY <2>0, <3>1 DEF NoSlot
    <3> QED
      BY <2>0, <2>1, <3>2 DEF Reserve, TypeOK
  <2>2. ASSUME TakeDropped PROVE counts'[id] \in {0, NoSlot}
    BY <2>0, <2>2 DEF TakeDropped
  <2>3. ASSUME NEW t \in Threads, NEW h \in Handles, DropHandle(t, h)
        PROVE  counts'[id] = 0
    <3>1. handles[h] # id /\ counts' = [counts EXCEPT ![handles[h]] = @ - 1]
      BY <2>0, <2>3 DEF DropHandle
    <3> QED
      BY <2>0, <3>1 DEF TypeOK
  <2>4. ASSUME NEW t \in Threads, NEW h \in Handles, WeakExchange(t, h)
        PROVE  counts'[id] = 0
    <3>1. counts[loaded[t][1]] > 0
      BY <2>4 DEF WeakExchange, LoadedLive
    <3>2. loaded[t][1] # id
      BY <2>0, <3>1
    <3>3. counts' = [counts EXCEPT ![loaded[t][1]] = @ + 1]
      BY <2>4 DEF WeakExchange
    <3> QED
      BY <2>0, <3>2, <3>3 DEF TypeOK
  <2>5. ASSUME NEW t \in Threads, NEW h \in Handles, NEW copy \in Handles,
               CloneHandle(t, h, copy)
        PROVE  counts'[id] = 0
    <3>1. handles[h] # id /\ counts' = [counts EXCEPT ![handles[h]] = @ + 1]
      BY <2>0, <2>5 DEF CloneHandle
    <3> QED
      BY <2>0, <3>1 DEF TypeOK
  <2>6. ASSUME UNCHANGED counts PROVE counts'[id] = 0
    BY <2>0, <2>6
  <2> HIDE DEF IInv, CountInv
  <2> QED
    BY <1>1, <2>1, <2>2, <2>3, <2>4, <2>5, <2>6
    DEF Next, vars, mapVars, Insert, Lease, ReadEntity, EndLease, ClearAccessed,
        QueueDropped, WeakLoad, WeakRetry
<1>2. IInv /\ [Next]_vars
        => [\A id \in EntityIds : counts[id] = 0 => counts'[id] \in {0, NoSlot}]_vars
  BY <1>1
<1> QED
  BY <1>2, IInvHolds, PTL DEF Spec, NoResurrection

\* A handle more: the entity was alive and stays so.
LEMMA ShareStep ==
  ASSUME CountInv, NEW h \in Handles, NEW id \in EntityIds,
         handles[h] = NoEntity, counts[id] > 0, nextKey' = nextKey,
         handles' = [handles EXCEPT ![h] = id],
         counts' = [counts EXCEPT ![id] = @ + 1]
  PROVE  Lifetime!Share(h, id)
<1>1. id < nextKey /\ counts[id] \in Nat
  BY DEF CountInv, FreshKeys, TypeOK, NoSlot, EntityIds
<1>2. \A e \in EntityIds : StageOf(e)' = StageOf(e)
  BY <1>1 DEF StageOf, CountInv, TypeOK, NoSlot, EntityIds
<1>3. StageOf(id) = "alive"
  BY <1>1 DEF StageOf, EntityIds
<1> QED
  BY <1>2, <1>3 DEF Lifetime!Share, NoEntity

LEMMA LifetimeStep ==
  ASSUME IInv, [Next]_vars
  PROVE  [Lifetime!Next]_<<handles, [id \in EntityIds |-> StageOf(id)]>>
<1> USE DEF IInv, CountInv
<1>0. CountInv'
  BY CountStep
<1>1. ASSUME NEW h \in Handles, Reserve(h) PROVE Lifetime!Create(h, nextKey)
  <2>1. /\ nextKey \in EntityIds /\ nextKey' = nextKey + 1
        /\ handles[h] = NoEntity /\ handles' = [handles EXCEPT ![h] = nextKey]
        /\ counts'[nextKey] = 1
        /\ \A e \in EntityIds \ {nextKey} : counts'[e] = counts[e]
    BY <1>1 DEF Reserve, TypeOK
  <2>2. \A e \in EntityIds :
          StageOf(e)' = IF e = nextKey THEN "alive" ELSE StageOf(e)
    BY <2>1 DEF StageOf, FreshKeys, EntityIds, TypeOK, NoSlot
  <2>3. StageOf(nextKey) = "unused"
    <3>1. nextKey >= nextKey /\ counts[nextKey] = -1
      BY <2>1 DEF FreshKeys, EntityIds, NoSlot
    <3> QED
      BY <3>1 DEF StageOf
  <2> QED
    BY <2>1, <2>2, <2>3 DEF Lifetime!Create, NoEntity, EntityIds, Lifetime!Ids
<1>2. ASSUME NEW t \in Threads, NEW h \in Handles, NEW copy \in Handles,
             CloneHandle(t, h, copy)
      PROVE  Lifetime!Share(copy, handles[h])
  <2>1. handles[h] \in EntityIds
    BY <1>2 DEF CloneHandle, TypeOK
  <2> QED
    BY <1>2, <2>1, ShareStep DEF CloneHandle, mapVars
<1>3. ASSUME NEW t \in Threads, NEW h \in Handles, WeakExchange(t, h)
      PROVE  Lifetime!Share(h, loaded[t][1]) /\ loaded[t][1] \in EntityIds
  <2>1. loaded[t][1] \in EntityIds /\ counts[loaded[t][1]] > 0
    BY <1>3 DEF WeakExchange, LoadedLive
  <2> QED
    BY <1>3, <2>1, ShareStep DEF WeakExchange, mapVars
<1>4. ASSUME NEW t \in Threads, NEW h \in Handles, DropHandle(t, h)
      PROVE  Lifetime!Drop(h)
  <2>0. PICK id \in EntityIds : id = handles[h]
    BY <1>4 DEF DropHandle, TypeOK
  <2>1. /\ id = handles[h] /\ id # NoEntity
        /\ counts[id] \in Nat \ {0}
        /\ handles' = [handles EXCEPT ![h] = NoEntity]
        /\ counts' = [counts EXCEPT ![id] = @ - 1]
        /\ nextKey' = nextKey
    BY <1>4, <2>0 DEF DropHandle, TypeOK, NoSlot
  <2>2. id < nextKey
    BY <2>1 DEF FreshKeys, TypeOK, NoSlot, EntityIds
  <2>3. counts'[id] = 0 <=> ~ \E g \in Handles \ {h} : handles[g] = id
    <3>1. counts'[id] = Cardinality(HandlesOf(id)')
      BY <1>0, <2>1 DEF RefCountExact, TypeOK, NoSlot
    <3>2. HandlesOf(id)' = {g \in Handles \ {h} : handles[g] = id}
      BY <2>1 DEF HandlesOf, TypeOK
    <3>3. IsFiniteSet({g \in Handles \ {h} : handles[g] = id})
      BY HandlesAssumption, FS_Subset
    <3> QED
      BY <3>1, <3>2, <3>3, FS_EmptySet
  <2>4. \A e \in EntityIds \ {id} : StageOf(e)' = StageOf(e)
    BY <2>1 DEF StageOf, TypeOK, EntityIds
  <2>5. StageOf(id)' = IF \E g \in Handles \ {h} : handles[g] = id
                       THEN "alive" ELSE "dying"
    <3>1. counts'[id] \in Nat /\ ~ id >= nextKey'
      BY <2>1, <2>2 DEF TypeOK, EntityIds
    <3> QED
      BY <2>3, <3>1 DEF StageOf
  <2> QED
    BY <2>1, <2>4, <2>5 DEF Lifetime!Drop, NoEntity, EntityIds, Lifetime!Ids
<1>5. ASSUME TakeDropped
      PROVE  \E ids \in SUBSET EntityIds : Lifetime!Release(ids)
  <2> DEFINE ids == {dropped[i] : i \in DOMAIN dropped}
  <2>1. \A e \in EntityIds : e \in ids <=> counts[e] = 0
    BY <1>5 DEF TakeDropped, CanWrite, NoUpgradable, DroppedQueueExact, TypeOK,
                EntityIds, NoEntity
  <2>2. /\ \A e \in EntityIds : counts'[e] = IF e \in ids THEN NoSlot ELSE counts[e]
        /\ UNCHANGED <<handles, nextKey>>
    BY <1>5 DEF TakeDropped
  <2>3. ids \in SUBSET EntityIds
    BY DEF TypeOK
  <2>4. \A e \in ids : StageOf(e) = "dying" /\ StageOf(e)' = "gone"
    <3> SUFFICES ASSUME NEW e \in ids
                 PROVE  StageOf(e) = "dying" /\ StageOf(e)' = "gone"
      OBVIOUS
    <3>1. e \in EntityIds /\ counts[e] = 0 /\ counts'[e] = -1
      BY <2>1, <2>2, <2>3 DEF NoSlot
    <3>2. ~ e >= nextKey /\ ~ e >= nextKey'
      BY <2>2, <3>1 DEF FreshKeys, NoSlot, EntityIds, TypeOK
    <3> QED
      BY <3>1, <3>2 DEF StageOf
  <2>5. \A e \in EntityIds \ ids : StageOf(e)' = StageOf(e)
    BY <2>2 DEF StageOf
  <2>6. Lifetime!Release(ids)
    BY <2>2, <2>3, <2>4, <2>5 DEF Lifetime!Release, EntityIds, Lifetime!Ids
  <2> QED
    BY <2>3, <2>6
<1>6. ASSUME UNCHANGED <<handles, counts, nextKey>>
      PROVE  UNCHANGED <<handles, [id \in EntityIds |-> StageOf(id)]>>
  BY <1>6 DEF StageOf
<1>7. ASSUME NEW h \in Handles, Reserve(h) PROVE Lifetime!Next
  <2>1. nextKey \in Lifetime!Ids
    BY <1>7 DEF Reserve, EntityIds, Lifetime!Ids
  <2> QED
    BY <1>1, <1>7, <2>1 DEF Lifetime!Next
<1>8. ASSUME NEW t \in Threads, NEW h \in Handles, NEW copy \in Handles,
             CloneHandle(t, h, copy)
      PROVE  Lifetime!Next
  <2>1. handles[h] \in Lifetime!Ids
    BY <1>8 DEF CloneHandle, TypeOK, EntityIds, Lifetime!Ids
  <2> QED
    BY <1>2, <1>8, <2>1 DEF Lifetime!Next
<1>9. ASSUME NEW t \in Threads, NEW h \in Handles, WeakExchange(t, h)
      PROVE  Lifetime!Next
  BY <1>3, <1>9 DEF Lifetime!Next, EntityIds, Lifetime!Ids
<1>10. ASSUME NEW t \in Threads, NEW h \in Handles, DropHandle(t, h)
       PROVE  Lifetime!Next
  BY <1>4, <1>10 DEF Lifetime!Next
<1>11. ASSUME TakeDropped PROVE Lifetime!Next
  BY <1>5, <1>11 DEF Lifetime!Next, EntityIds, Lifetime!Ids
<1>12. ASSUME NEW h \in Handles, Insert(h) \/ Lease(h) \/ ReadEntity(h)
       PROVE  UNCHANGED <<handles, counts, nextKey>>
  BY <1>12 DEF Insert, Lease, ReadEntity
<1>13. ASSUME (\E id \in EntityIds : EndLease(id)) \/ ClearAccessed
       PROVE  UNCHANGED <<handles, counts, nextKey>>
  BY <1>13 DEF EndLease, ClearAccessed
<1>14. ASSUME NEW t \in Threads,
              QueueDropped(t) \/ (\E id \in EntityIds : WeakLoad(t, id)) \/ WeakRetry(t)
       PROVE  UNCHANGED <<handles, counts, nextKey>>
  BY <1>14 DEF QueueDropped, WeakLoad, WeakRetry, mapVars
<1> HIDE DEF IInv, CountInv
<1>15. CASE Next
  <2> DEFINE Same == UNCHANGED <<handles, counts, nextKey>>
  <2> HIDE DEF Same
  <2>1. Lifetime!Next \/ Same
    BY <1>7, <1>8, <1>9, <1>10, <1>11, <1>12, <1>13, <1>14, <1>15 DEF Next, Same
  <2> QED
    BY <1>6, <2>1 DEF Same
<1>16. CASE UNCHANGED vars
  BY <1>6, <1>16 DEF vars
<1> QED
  BY <1>15, <1>16

\* The locks, atomics and queue of entity_map.rs implement the lifetime that
\* Entity and WeakEntity promise, for every number of threads and handles.
THEOREM LifetimeImplemented == Spec => ImplementsLifetime
<1>1. Init => Lifetime!Init
  BY DEF Init, Lifetime!Init, StageOf, NoEntity, EntityIds, Lifetime!Ids, NoSlot
<1>2. IInv /\ [Next]_vars
        => [Lifetime!Next]_<<handles, [id \in EntityIds |-> StageOf(id)]>>
  BY LifetimeStep
<1> QED
  BY <1>1, <1>2, IInvHolds, PTL DEF Spec, ImplementsLifetime, Lifetime!Spec
=============================================================================

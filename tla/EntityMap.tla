------------------------------ MODULE EntityMap ------------------------------
(***************************************************************************)
(* The reference counting of src/src/app/entity_map.rs.                    *)
(*                                                                         *)
(* The main thread owns the EntityMap (the data of every entity).  Strong  *)
(* handles (AnyEntity, Entity<T>) and weak handles may be used and dropped *)
(* on any thread: they share the Arc<RwLock<EntityRefCounts>>, whose       *)
(* counters are atomics that are changed under a read or an upgradable     *)
(* lock.  Every step below is one atomic access or one critical section of *)
(* a write lock; what happens between two accesses under a shared lock is  *)
(* a state of its own (dropping, loaded).                                  *)
(***************************************************************************)
EXTENDS Integers, Sequences, FiniteSets

CONSTANTS
  Threads,      \* threads that may hold handles
  Main,         \* the thread that owns the EntityMap
  Handles,      \* the strong handles that may exist at the same time
  MaxEntities   \* bound: how many keys the slot map hands out

ASSUME ThreadsAssumption == Main \in Threads
ASSUME HandlesAssumption == IsFiniteSet(Handles)
ASSUME MaxEntitiesAssumption == MaxEntities \in Nat

\* Keys of the slot map.  A key carries the version of its slot, so a key
\* whose slot was freed is never handed out again.
EntityIds == 1..MaxEntities
NoEntity == 0
NoSlot == -1

VARIABLES
  nextKey,   \* the next key the slot map hands out
  counts,    \* EntityRefCounts.counts: NoSlot when the key is not in the map
  dropped,   \* EntityRefCounts.dropped_entity_ids
  entities,  \* EntityMap.entities: the ids whose data is in the map
  leases,    \* the ids whose data is on the stack, in a Lease
  accessed,  \* EntityMap.accessed_entities
  handles,   \* the entity each strong handle points to, or NoEntity
  slots,     \* the handles that are still a Slot (reserved, not inserted)
  dropping,  \* per thread: the id it brought to zero, with the lock upgradable
  loaded,    \* per thread: <<id, count>> read by atomic_incr_if_not_zero
  released   \* history: the ids whose data take_dropped handed to the App

vars == <<nextKey, counts, dropped, entities, leases, accessed, handles,
          slots, dropping, loaded, released>>
mapVars == <<nextKey, entities, leases, accessed, slots, released>>

NotLoaded == <<NoEntity, 0>>

HandlesOf(id) == {h \in Handles : handles[h] = id}

\* Who holds which kind of lock of the RwLock between two steps.
Idle(t) == dropping[t] = NoEntity /\ loaded[t] = NotLoaded
NoReader == \A t \in Threads : loaded[t] = NotLoaded
NoUpgradable == \A t \in Threads : dropping[t] = NoEntity
CanWrite == NoReader /\ NoUpgradable

Init ==
  /\ nextKey = 1
  /\ counts = [id \in EntityIds |-> NoSlot]
  /\ dropped = <<>>
  /\ entities = {}
  /\ leases = {}
  /\ accessed = {}
  /\ handles = [h \in Handles |-> NoEntity]
  /\ slots = {}
  /\ dropping = [t \in Threads |-> NoEntity]
  /\ loaded = [t \in Threads |-> NotLoaded]
  /\ released = {}

-----------------------------------------------------------------------------
(* The EntityMap itself: main thread only.                                 *)

\* EntityMap::reserve: a slot with one reference, its handle not yet an
\* Entity with data.
Reserve(h) ==
  /\ nextKey \in EntityIds
  /\ handles[h] = NoEntity
  /\ CanWrite
  /\ counts' = [counts EXCEPT ![nextKey] = 1]
  /\ handles' = [handles EXCEPT ![h] = nextKey]
  /\ slots' = slots \cup {h}
  /\ nextKey' = nextKey + 1
  /\ UNCHANGED <<dropped, entities, leases, accessed, dropping, loaded,
                 released>>

\* EntityMap::insert consumes the Slot and stores the data.
Insert(h) ==
  /\ h \in slots
  /\ Idle(Main)
  /\ accessed' = accessed \cup {handles[h]}
  /\ entities' = entities \cup {handles[h]}
  /\ slots' = slots \ {h}
  /\ UNCHANGED <<nextKey, counts, dropped, leases, handles, dropping, loaded,
                 released>>

\* EntityMap::lease.  Without the data in the map it panics ("cannot update
\* while it is already being updated") and changes nothing but `accessed'.
Lease(h) ==
  /\ handles[h] \in entities
  /\ Idle(Main)
  /\ accessed' = accessed \cup {handles[h]}
  /\ entities' = entities \ {handles[h]}
  /\ leases' = leases \cup {handles[h]}
  /\ UNCHANGED <<nextKey, counts, dropped, handles, slots, dropping, loaded,
                 released>>

\* Mutant of EndLease: the data of the lease is not put back.
EndLeaseLosesData(id) ==
  /\ id \in leases
  /\ Idle(Main)
  /\ leases' = leases \ {id}
  /\ UNCHANGED <<nextKey, counts, dropped, entities, accessed, handles, slots,
                 dropping, loaded, released>>

\* EntityMap::end_lease puts the data back, whatever became of the handles.
EndLease(id) ==
  /\ id \in leases
  /\ Idle(Main)
  /\ leases' = leases \ {id}
  /\ entities' = entities \cup {id}
  /\ UNCHANGED <<nextKey, counts, dropped, accessed, handles, slots, dropping,
                 loaded, released>>

\* EntityMap::read of an entity that is not leased.
ReadEntity(h) ==
  /\ handles[h] \in entities
  /\ Idle(Main)
  /\ accessed' = accessed \cup {handles[h]}
  /\ UNCHANGED <<nextKey, counts, dropped, entities, leases, handles, slots,
                 dropping, loaded, released>>

\* EntityMap::clear_accessed, called when a window has been drawn.
ClearAccessed ==
  /\ accessed # {}
  /\ accessed' = {}
  /\ UNCHANGED <<nextKey, counts, dropped, entities, leases, handles, slots,
                 dropping, loaded, released>>

\* EntityMap::take_dropped, one critical section of the write lock.  The App
\* calls it from flush_effects only, where no update (hence no lease) is on
\* the stack: AppEffects states that as NothingLeasedWhileFlushing.
TakeDropped ==
  LET ids == {dropped[i] : i \in DOMAIN dropped} IN
  /\ dropped # <<>>
  /\ leases = {}
  /\ CanWrite
  /\ dropped' = <<>>
  /\ counts' = [id \in EntityIds |-> IF id \in ids THEN NoSlot ELSE counts[id]]
  /\ accessed' = accessed \ ids
  /\ entities' = entities \ ids
  /\ released' = released \cup (ids \cap entities)
  /\ UNCHANGED <<nextKey, leases, handles, slots, dropping, loaded>>

-----------------------------------------------------------------------------
(* Handles: any thread.                                                    *)

\* Clone for AnyEntity: one fetch_add under the read lock.  A count of zero
\* panics ("Detected over-release"): NoOverRelease shows it is unreachable.
CloneHandle(t, h, copy) ==
  /\ handles[h] # NoEntity
  /\ handles[copy] = NoEntity
  /\ Idle(t)
  /\ counts[handles[h]] > 0
  /\ counts' = [counts EXCEPT ![handles[h]] = @ + 1]
  /\ handles' = [handles EXCEPT ![copy] = handles[h]]
  /\ UNCHANGED <<mapVars, dropped, dropping, loaded>>

\* Mutant of DropHandle: the last reference is taken to be the one that leaves
\* a count of one.
DropHandleOffByOne(t, h) ==
  /\ handles[h] # NoEntity
  /\ h \in slots => HandlesOf(handles[h]) = {h}
  /\ Idle(t)
  /\ NoUpgradable
  /\ counts[handles[h]] > 0
  /\ counts' = [counts EXCEPT ![handles[h]] = @ - 1]
  /\ handles' = [handles EXCEPT ![h] = NoEntity]
  /\ slots' = slots \ {h}
  /\ dropping' = IF counts[handles[h]] = 2
                 THEN [dropping EXCEPT ![t] = handles[h]]
                 ELSE dropping
  /\ UNCHANGED <<nextKey, dropped, entities, leases, accessed, loaded,
                 released>>

\* Drop for AnyEntity, first part: fetch_sub under the upgradable lock, which
\* excludes other upgradable holders and writers but not readers.  Dropping a
\* Slot runs the same code: it happens to a Reservation that is never inserted,
\* of which no build_entity has made another handle.
DropHandle(t, h) ==
  /\ handles[h] # NoEntity
  /\ h \in slots => HandlesOf(handles[h]) = {h}
  /\ Idle(t)
  /\ NoUpgradable
  /\ counts[handles[h]] > 0
  /\ counts' = [counts EXCEPT ![handles[h]] = @ - 1]
  /\ handles' = [handles EXCEPT ![h] = NoEntity]
  /\ slots' = slots \ {h}
  /\ dropping' = IF counts[handles[h]] = 1
                 THEN [dropping EXCEPT ![t] = handles[h]]
                 ELSE dropping
  /\ UNCHANGED <<nextKey, dropped, entities, leases, accessed, loaded,
                 released>>

\* Drop for AnyEntity, second part: the lock is upgraded, which waits for the
\* readers, and the id is queued for release.
QueueDropped(t) ==
  /\ dropping[t] # NoEntity
  /\ NoReader
  /\ dropped' = Append(dropped, dropping[t])
  /\ dropping' = [dropping EXCEPT ![t] = NoEntity]
  /\ UNCHANGED <<mapVars, counts, handles, loaded>>

\* AnyWeakEntity::upgrade up to the load of atomic_incr_if_not_zero.  A weak
\* handle may name any key that was ever handed out; a missing slot or a zero
\* count gives None and changes nothing.
WeakLoad(t, id) ==
  /\ id < nextKey
  /\ Idle(t)
  /\ counts[id] > 0
  /\ loaded' = [loaded EXCEPT ![t] = <<id, counts[id]>>]
  /\ UNCHANGED <<mapVars, counts, dropped, handles, dropping>>

\* Mutant of WeakExchange: a plain store of the count that was loaded, plus one.
WeakStore(t, h) ==
  LET id == loaded[t][1] IN
  /\ loaded[t] # NotLoaded
  /\ handles[h] = NoEntity
  /\ counts' = [counts EXCEPT ![id] = loaded[t][2] + 1]
  /\ handles' = [handles EXCEPT ![h] = id]
  /\ loaded' = [loaded EXCEPT ![t] = NotLoaded]
  /\ UNCHANGED <<mapVars, dropped, dropping>>

\* compare_exchange_weak, when it succeeds: the new strong handle exists.
WeakExchange(t, h) ==
  LET id == loaded[t][1] IN
  /\ loaded[t] # NotLoaded
  /\ handles[h] = NoEntity
  /\ counts[id] = loaded[t][2]
  /\ counts' = [counts EXCEPT ![id] = @ + 1]
  /\ handles' = [handles EXCEPT ![h] = id]
  /\ loaded' = [loaded EXCEPT ![t] = NotLoaded]
  /\ UNCHANGED <<mapVars, dropped, dropping>>

\* Mutant of WeakRetry: the zero is checked only on the first load.
WeakRetryAnyCount(t) ==
  LET id == loaded[t][1] IN
  /\ loaded[t] # NotLoaded
  /\ loaded' = [loaded EXCEPT ![t] = <<id, counts[id]>>]
  /\ UNCHANGED <<mapVars, counts, dropped, handles, dropping>>

\* compare_exchange_weak, when it fails (the count moved, or spuriously): the
\* actual value is loaded, and a zero ends the upgrade with None.
WeakRetry(t) ==
  LET id == loaded[t][1] IN
  /\ loaded[t] # NotLoaded
  /\ loaded' = [loaded EXCEPT ![t] =
                  IF counts[id] = 0 THEN NotLoaded ELSE <<id, counts[id]>>]
  /\ UNCHANGED <<mapVars, counts, dropped, handles, dropping>>

-----------------------------------------------------------------------------
Next ==
  \/ \E h \in Handles : Reserve(h) \/ Insert(h) \/ Lease(h) \/ ReadEntity(h)
  \/ \E id \in EntityIds : EndLease(id)
  \/ ClearAccessed
  \/ TakeDropped
  \/ \E t \in Threads :
       \/ \E h, copy \in Handles : CloneHandle(t, h, copy)
       \/ \E h \in Handles : DropHandle(t, h) \/ WeakExchange(t, h)
       \/ QueueDropped(t)
       \/ \E id \in EntityIds : WeakLoad(t, id)
       \/ WeakRetry(t)

Spec == Init /\ [][Next]_vars

-----------------------------------------------------------------------------
TypeOK ==
  /\ nextKey \in 1..(MaxEntities + 1)
  /\ counts \in [EntityIds -> Nat \cup {NoSlot}]
  /\ dropped \in Seq(EntityIds)
  /\ entities \subseteq EntityIds
  /\ leases \subseteq EntityIds
  /\ accessed \subseteq EntityIds
  /\ handles \in [Handles -> EntityIds \cup {NoEntity}]
  /\ slots \subseteq Handles
  /\ dropping \in [Threads -> EntityIds \cup {NoEntity}]
  /\ loaded \in [Threads -> (EntityIds \cup {NoEntity}) \X Nat]
  /\ released \subseteq EntityIds

\* Whatever the threads do, the count of every slot is the number of strong
\* handles to it (Clone, Drop and upgrade neither lose nor invent one).
RefCountExact ==
  \A id \in EntityIds :
    counts[id] # NoSlot => counts[id] = Cardinality(HandlesOf(id))

\* A strong handle always finds its slot and a count that is not zero: the
\* expects and asserts "detected over-release of a entity" in Clone and Drop
\* cannot fire.
NoOverRelease ==
  \A h \in Handles : handles[h] # NoEntity => counts[handles[h]] > 0

\* dropped_entity_ids holds each id at most once, only ids with a zero count
\* whose slot still exists, and every such id unless the thread that dropped
\* the last handle still is between fetch_sub and push.  It is what the unwrap
\* and the debug_assert of take_dropped rely on.
DroppedQueueExact ==
  /\ \A i, j \in DOMAIN dropped : dropped[i] = dropped[j] => i = j
  /\ \A id \in EntityIds :
       counts[id] = 0 <=> \/ \E i \in DOMAIN dropped : dropped[i] = id
                          \/ \E t \in Threads : dropping[t] = id
  /\ \A i \in DOMAIN dropped, t \in Threads : dropped[i] # dropping[t]

\* The data of an entity never goes away under a strong handle: it is in the
\* map, on the stack, or still to be inserted through its Slot.
DataOutlivesHandles ==
  \A h \in Handles : handles[h] # NoEntity =>
    \/ handles[h] \in entities \cup leases
    \/ \E s \in slots : handles[s] = handles[h]

\* Data is never stored for a key whose slot was freed: end_lease or insert
\* would make it unreachable for take_dropped for ever.
NoOrphanedData ==
  \A id \in entities \cup leases : counts[id] # NoSlot

\* An id at zero stays at zero until its slot is freed: no upgrade, on any
\* thread, resurrects an entity that is queued for release.
NoResurrection ==
  [][\A id \in EntityIds : counts[id] = 0 => counts'[id] \in {0, NoSlot}]_vars

-----------------------------------------------------------------------------
\* The stage of life of an entity, as the abstract specification sees it.
StageOf(id) ==
  CASE id >= nextKey    -> "unused"
    [] counts[id] > 0   -> "alive"
    [] counts[id] = 0   -> "dying"
    [] OTHER            -> "gone"

Lifetime == INSTANCE EntityLifetime
              WITH strong <- handles, stage <- [id \in EntityIds |-> StageOf(id)]

\* The locks, the atomics and the queue of entity_map.rs implement the
\* lifetime an Entity promises: handles are made only of living entities, the
\* last drop, on whichever thread, ends the life, and release comes once.
ImplementsLifetime == Lifetime!Spec
=============================================================================

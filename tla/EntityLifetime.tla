--------------------------- MODULE EntityLifetime ---------------------------
(***************************************************************************)
(* What entity_map.rs promises about the life of an entity, without locks, *)
(* counters or queues: an entity lives as long as it has a strong handle,  *)
(* a handle to it can be made only while it lives, and once it is dying it *)
(* is released and nothing else.                                           *)
(***************************************************************************)
EXTENDS Integers

CONSTANTS Handles, MaxEntities

VARIABLES strong,  \* the entity each strong handle points to, or 0
          stage    \* the stage of life of each entity

Ids == 1..MaxEntities

Init ==
  /\ strong = [h \in Handles |-> 0]
  /\ stage = [id \in Ids |-> "unused"]

\* A new entity is born with one handle.
Create(h, id) ==
  /\ strong[h] = 0
  /\ stage[id] = "unused"
  /\ strong' = [strong EXCEPT ![h] = id]
  /\ stage' = [stage EXCEPT ![id] = "alive"]

\* Cloning a strong handle, or upgrading a weak one.
Share(h, id) ==
  /\ strong[h] = 0
  /\ stage[id] = "alive"
  /\ strong' = [strong EXCEPT ![h] = id]
  /\ UNCHANGED stage

\* Dropping a handle; the last one ends the life of the entity.
Drop(h) ==
  LET id == strong[h] IN
  /\ id # 0
  /\ strong' = [strong EXCEPT ![h] = 0]
  /\ stage' = [stage EXCEPT ![id] =
                 IF \E g \in Handles \ {h} : strong[g] = id THEN "alive" ELSE "dying"]

\* The dying entities of a batch are released together.
Release(ids) ==
  /\ \A id \in ids : stage[id] = "dying"
  /\ stage' = [id \in Ids |-> IF id \in ids THEN "gone" ELSE stage[id]]
  /\ UNCHANGED strong

Next ==
  \/ \E h \in Handles, id \in Ids : Create(h, id) \/ Share(h, id)
  \/ \E h \in Handles : Drop(h)
  \/ \E ids \in SUBSET Ids : Release(ids)

Spec == Init /\ [][Next]_<<strong, stage>>
=============================================================================

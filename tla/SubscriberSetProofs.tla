------------------------- MODULE SubscriberSetProofs -------------------------
(* Theorems about SubscriberSet, for every set of emitters, every number of  *)
(* subscribers and every depth of nested passes.                             *)
EXTENDS SubscriberSet, TLAPS

\* Ids that were not handed out are nowhere.
Fresh ==
  \A id \in Ids : id >= nextId => handle[id] = "none" /\ ~Stored(id)

\* Every stored callback is filed under the emitter it was inserted for.
Filed ==
  /\ \A e \in Emitters : \A id \in subs[e] : emitter[id] = e
  /\ \A d \in Running : \A id \in pass[d].kept : emitter[id] = pass[d].emitter

\* The map of an emitter without one is empty.
NoMapNoSubs == \A e \in Emitters : entry[e] # "some" => subs[e] = {}

\* A pass that is running visits, and invokes, what it holds.
PassesHold ==
  \A d \in Running :
    /\ pass[d].todo \subseteq pass[d].kept
    /\ pass[d].cur # NoId => pass[d].cur \in pass[d].kept \ pass[d].todo

\* Only cancelled subscriptions are recorded as dropped.
RecordsAreCancelled == \A r \in dropped : handle[r[2]] = "dropped"

IInv ==
  /\ TypeOK
  /\ Fresh
  /\ Filed
  /\ NoMapNoSubs
  /\ PassesHold
  /\ RecordsAreCancelled
  /\ NoLiveLost
  /\ OwnedOnce
  /\ TakenOnlyInPass

-----------------------------------------------------------------------------
LEMMA SomeEmitterIsOne == SomeEmitter \in Emitters
BY EmittersAssumption DEF SomeEmitter

LEMMA InitIInv == Init => IInv
<1> SUFFICES ASSUME Init PROVE IInv
  OBVIOUS
<1> USE DEF Init, NoPass, Pass, NoId, Ids, Depths, Running, Stored, InMap, InPass
<1>1. TypeOK
  <2>1. depth = 0 /\ 0 \in 0..MaxPasses /\ 1 \in 1..(MaxSubscribers + 1)
    BY MaxPassesAssumption, MaxSubscribersAssumption
  <2>2. NoPass \in PassType
    BY SomeEmitterIsOne DEF PassType
  <2> QED
    BY <2>1, <2>2, SomeEmitterIsOne DEF TypeOK
<1>2. Fresh /\ Filed /\ NoMapNoSubs /\ PassesHold /\ RecordsAreCancelled
  BY DEF Fresh, Filed, NoMapNoSubs, PassesHold, RecordsAreCancelled
<1>3. NoLiveLost /\ OwnedOnce /\ TakenOnlyInPass
  BY DEF NoLiveLost, OwnedOnce, TakenOnlyInPass
<1> QED
  BY <1>1, <1>2, <1>3 DEF IInv

-----------------------------------------------------------------------------
LEMMA TypeStep ==
  ASSUME TypeOK, [Next]_vars PROVE TypeOK'
<1> USE DEF TypeOK
<1>1. ASSUME NEW e \in Emitters, Insert(e) PROVE TypeOK'
  <2>1. nextId \in Ids /\ nextId' \in 1..(MaxSubscribers + 1)
    BY <1>1, MaxSubscribersAssumption DEF Insert, Ids
  <2>2. subs' \in [Emitters -> SUBSET Ids]
    BY <1>1, <2>1 DEF Insert
  <2>3. entry' \in [Emitters -> {"absent", "none", "some"}]
    BY <1>1 DEF Insert
  <2>4. handle' \in [Ids -> {"none", "held", "detached", "dropped"}]
    BY <1>1, <2>1 DEF Insert
  <2>5. emitter' \in [Ids -> Emitters]
    BY <1>1, <2>1 DEF Insert
  <2> QED
    BY <1>1, <2>1, <2>2, <2>3, <2>4, <2>5 DEF Insert
<1>2. ASSUME NEW e \in Emitters, Remove(e) PROVE TypeOK'
  BY <1>2 DEF Remove
<1>3. ASSUME NEW e \in Emitters, BeginRetain(e) PROVE TypeOK'
  <2>1. depth + 1 \in Depths /\ depth' \in 0..MaxPasses
    BY <1>3, MaxPassesAssumption DEF BeginRetain, Depths
  <2>2. Pass(e, subs[e]) \in PassType
    BY DEF Pass, PassType
  <2>3. pass' \in [Depths -> PassType]
    BY <1>3, <2>1, <2>2 DEF BeginRetain
  <2> QED
    BY <1>3, <2>1, <2>3 DEF BeginRetain
<1>4. ASSUME NEW id \in Ids, Activate(id) \/ Detach(id) PROVE TypeOK'
  BY <1>4 DEF Activate, Detach
<1>5. ASSUME NEW id \in Ids, Unsubscribe(id) PROVE TypeOK'
  <2>1. emitter[id] \in Emitters
    OBVIOUS
  <2>2. dropped' \subseteq Emitters \X Ids
    BY <1>5, <2>1 DEF Unsubscribe
  <2>3. subs' \in [Emitters -> SUBSET Ids]
    BY <1>5, <2>1 DEF Unsubscribe
  <2>4. entry' \in [Emitters -> {"absent", "none", "some"}]
    BY <1>5, <2>1 DEF Unsubscribe
  <2> QED
    BY <1>5, <2>2, <2>3, <2>4 DEF Unsubscribe
<1>6. ASSUME NEW keep \in BOOLEAN, CallbackReturns(keep) PROVE TypeOK'
  <2>1. depth \in Depths
    BY <1>6 DEF CallbackReturns, Depths
  <2>2. Top \in PassType /\ Top.cur \in Ids
    BY <1>6, <2>1 DEF CallbackReturns, Top, PassType
  <2>3. pass' \in [Depths -> PassType]
    <3>1. pass' = [pass EXCEPT ![depth] = [Top EXCEPT
                     !.cur = NoId,
                     !.kept = IF keep THEN @ ELSE @ \ {Top.cur}]]
      BY <1>6, <2>1 DEF CallbackReturns, Top
    <3>2. [Top EXCEPT !.cur = NoId, !.kept = IF keep THEN @ ELSE @ \ {Top.cur}]
             \in PassType
      BY <2>2 DEF PassType
    <3> QED
      BY <2>1, <3>1, <3>2
  <2> QED
    BY <1>6, <2>2, <2>3 DEF CallbackReturns
<1>7. CASE Visit
  <2>1. depth \in Depths
    BY <1>7 DEF Visit, Depths
  <2>2. Top \in PassType
    BY <2>1 DEF Top
  <2>3. PICK id \in Top.todo :
          pass' = [pass EXCEPT ![depth].todo = @ \ {id},
                               ![depth].cur = IF id \in active THEN id ELSE NoId]
    BY <1>7 DEF Visit
  <2>4. pass' = [pass EXCEPT ![depth] = [Top EXCEPT
                   !.todo = @ \ {id}, !.cur = IF id \in active THEN id ELSE NoId]]
    BY <2>1, <2>3 DEF Top
  <2>5. [Top EXCEPT !.todo = @ \ {id}, !.cur = IF id \in active THEN id ELSE NoId]
           \in PassType
    BY <2>2 DEF PassType
  <2>6. pass' \in [Depths -> PassType]
    BY <2>1, <2>4, <2>5
  <2> QED
    BY <1>7, <2>6 DEF Visit
<1>8. CASE EndRetain
  <2>1. depth \in Depths /\ depth' \in 0..MaxPasses
    BY <1>8, MaxPassesAssumption DEF EndRetain, Depths
  <2>2. Top \in PassType
    BY <2>1 DEF Top
  <2>3. Merged \subseteq Ids
    BY <2>2 DEF Merged, PassType
  <2>4. NoPass \in PassType
    BY SomeEmitterIsOne DEF PassType, NoPass, Pass
  <2>5. pass' \in [Depths -> PassType]
    BY <1>8, <2>1, <2>4 DEF EndRetain
  <2>6. subs' \in [Emitters -> SUBSET Ids]
    BY <1>8, <2>2, <2>3 DEF EndRetain
  <2>7. entry' \in [Emitters -> {"absent", "none", "some"}]
    BY <1>8 DEF EndRetain
  <2> QED
    BY <1>8, <2>1, <2>5, <2>6, <2>7 DEF EndRetain
<1>9. CASE UNCHANGED vars
  BY <1>9 DEF vars
<1> QED
  BY <1>1, <1>2, <1>3, <1>4, <1>5, <1>6, <1>7, <1>8, <1>9 DEF Next

-----------------------------------------------------------------------------
(* The rest of the invariant, one lemma per action that disturbs it.         *)

LEMMA RunningPasses ==
  ASSUME TypeOK
  PROVE  Running \subseteq Depths /\ \A d \in Running : pass[d] \in PassType
BY MaxPassesAssumption DEF TypeOK, Running, Depths

LEMMA InsertStep ==
  ASSUME IInv, TypeOK', NEW e \in Emitters, Insert(e) PROVE IInv'
<1> USE DEF IInv
<1>1. /\ nextId \in Ids /\ nextId' = nextId + 1
      /\ entry' = [entry EXCEPT ![e] = "some"]
      /\ subs' = [subs EXCEPT ![e] =
                    IF entry[e] = "some" THEN @ \cup {nextId} ELSE {nextId}]
      /\ emitter' = [emitter EXCEPT ![nextId] = e]
      /\ handle' = [handle EXCEPT ![nextId] = "held"]
      /\ UNCHANGED <<dropped, active, depth, pass, done, late>>
  BY DEF Insert
<1>2. /\ entry'[e] = "some" /\ subs'[e] = subs[e] \cup {nextId}
      /\ \A f \in Emitters \ {e} : entry'[f] = entry[f] /\ subs'[f] = subs[f]
  BY <1>1 DEF TypeOK, NoMapNoSubs
<1>3. \A id \in Ids : InMap(id)' <=> InMap(id) \/ id = nextId
  BY <1>2 DEF InMap, NoMapNoSubs
<1>4. \A id : InPass(id)' <=> InPass(id)
  BY <1>1 DEF InPass, Running
<1>5. ~InMap(nextId) /\ ~InPass(nextId) /\ handle[nextId] = "none"
  BY <1>1 DEF Fresh, Stored, TypeOK, Ids
<1>6. Fresh'
  BY <1>1, <1>3, <1>4 DEF Fresh, Stored, TypeOK, Ids
<1>7. Filed'
  <2>1. \A f \in Emitters : nextId \notin subs[f]
    BY <1>5 DEF InMap, NoMapNoSubs
  <2>2. \A d \in Running : nextId \notin pass[d].kept
    BY <1>5 DEF InPass
  <2>3. \A d \in Running : pass[d].kept \subseteq Ids
    BY RunningPasses DEF PassType
  <2>4. \A id \in Ids \ {nextId} : emitter'[id] = emitter[id]
    BY <1>1 DEF TypeOK
  <2>5. emitter'[nextId] = e
    BY <1>1 DEF TypeOK
  <2>6. ASSUME NEW f \in Emitters, NEW id \in subs'[f] PROVE emitter'[id] = f
    <3>1. CASE id = nextId
      BY <1>2, <2>1, <2>5, <2>6, <3>1
    <3>2. CASE id # nextId
      <4>1. id \in subs[f] /\ id \in Ids
        BY <1>2, <2>6, <3>2 DEF TypeOK
      <4> QED
        BY <2>4, <3>2, <4>1 DEF Filed
    <3> QED
      BY <3>1, <3>2
  <2>7. \A d \in Running : \A id \in pass[d].kept : emitter'[id] = pass[d].emitter
    BY <2>2, <2>3, <2>4 DEF Filed
  <2> QED
    BY <1>1, <2>6, <2>7 DEF Filed, Running
<1>8. NoMapNoSubs'
  BY <1>2 DEF NoMapNoSubs
<1>9. PassesHold'
  BY <1>1 DEF PassesHold, Running
<1>10. RecordsAreCancelled'
  BY <1>1, <1>5 DEF RecordsAreCancelled, TypeOK
<1>11. NoLiveLost'
  BY <1>1, <1>3, <1>4 DEF NoLiveLost, Stored, TypeOK
<1>12. OwnedOnce'
  BY <1>1, <1>3, <1>4, <1>5 DEF OwnedOnce, Running
<1>13. TakenOnlyInPass'
  BY <1>1, <1>2 DEF TakenOnlyInPass, Running
<1> QED
  BY <1>6, <1>7, <1>8, <1>9, <1>10, <1>11, <1>12, <1>13

LEMMA RemoveStep ==
  ASSUME IInv, TypeOK', NEW e \in Emitters, Remove(e) PROVE IInv'
<1> USE DEF IInv
<1>1. /\ entry' = [entry EXCEPT ![e] = "absent"]
      /\ subs' = [subs EXCEPT ![e] = {}]
      /\ done' = IF entry[e] = "some" THEN done \cup subs[e] ELSE done
      /\ UNCHANGED <<nextId, dropped, active, emitter, handle, depth, pass, late>>
  BY DEF Remove
<1>2. /\ entry'[e] = "absent" /\ subs'[e] = {}
      /\ \A f \in Emitters \ {e} : entry'[f] = entry[f] /\ subs'[f] = subs[f]
  BY <1>1 DEF TypeOK
<1>3. \A id \in Ids : /\ InMap(id)' => InMap(id)
                      /\ InMap(id) => InMap(id)' \/ id \in done'
  BY <1>1, <1>2 DEF InMap
<1>4. \A id : InPass(id)' <=> InPass(id)
  BY <1>1 DEF InPass, Running
<1>5. Fresh' /\ NoLiveLost' /\ OwnedOnce'
  BY <1>1, <1>3, <1>4 DEF Fresh, NoLiveLost, OwnedOnce, Stored, Running
<1>6. Filed' /\ NoMapNoSubs' /\ PassesHold' /\ RecordsAreCancelled'
  BY <1>1, <1>2 DEF Filed, NoMapNoSubs, PassesHold, RecordsAreCancelled, Running
<1>7. TakenOnlyInPass'
  BY <1>1, <1>2 DEF TakenOnlyInPass, Running
<1> QED
  BY <1>5, <1>6, <1>7

LEMMA UnsubscribeStep ==
  ASSUME IInv, TypeOK', NEW i \in Ids, Unsubscribe(i) PROVE IInv'
<1> USE DEF IInv
<1> DEFINE e == emitter[i]
<1>1. /\ handle[i] = "held"
      /\ handle' = [handle EXCEPT ![i] = "dropped"]
      /\ \/ entry[e] = "absent" /\ UNCHANGED <<entry, subs, dropped>>
         \/ /\ entry[e] = "some"
            /\ subs' = [subs EXCEPT ![e] = @ \ {i}]
            /\ entry' = [entry EXCEPT ![e] =
                           IF subs[e] \ {i} = {} THEN "absent" ELSE "some"]
            /\ UNCHANGED dropped
         \/ /\ entry[e] = "none"
            /\ dropped' = dropped \cup {<<e, i>>}
            /\ UNCHANGED <<entry, subs>>
      /\ UNCHANGED <<nextId, active, emitter, depth, pass, done>>
  BY DEF Unsubscribe
<1>2. e \in Emitters
  BY DEF TypeOK
<1>3. /\ \A f \in Emitters \ {e} : entry'[f] = entry[f] /\ subs'[f] = subs[f]
      /\ subs'[e] \subseteq subs[e]
      /\ entry'[e] = "none" <=> entry[e] = "none"
      /\ entry'[e] # "some" => subs'[e] = {}
      /\ entry'[e] = "some" => entry[e] = "some"
      /\ entry[e] = "some" => subs[e] \ {i} \subseteq subs'[e]
  BY <1>1, <1>2 DEF TypeOK, NoMapNoSubs
<1>4. \A id \in Ids : /\ InMap(id)' => InMap(id)
                      /\ InMap(id) /\ id # i => InMap(id)'
  <2>1. ASSUME NEW id \in Ids, InMap(id)' PROVE InMap(id)
    BY <1>2, <1>3, <2>1 DEF InMap
  <2>2. ASSUME NEW id \in Ids, InMap(id), id # i PROVE InMap(id)'
    BY <1>2, <1>3, <2>2 DEF InMap
  <2> QED
    BY <2>1, <2>2
<1>5. \A id : InPass(id)' <=> InPass(id)
  BY <1>1 DEF InPass, Running
<1>6. /\ handle'[i] = "dropped"
      /\ \A id \in Ids \ {i} : handle'[id] = handle[id]
  BY <1>1 DEF TypeOK
<1>7. Fresh' /\ NoLiveLost'
  BY <1>1, <1>4, <1>5, <1>6 DEF Fresh, NoLiveLost, Stored
<1>8. OwnedOnce'
  BY <1>1, <1>4, <1>5 DEF OwnedOnce, Running
<1>9. Filed' /\ NoMapNoSubs'
  BY <1>1, <1>2, <1>3 DEF Filed, NoMapNoSubs, Running
<1>10. PassesHold'
  BY <1>1 DEF PassesHold, Running
<1>11. RecordsAreCancelled'
  BY <1>1, <1>6 DEF RecordsAreCancelled, TypeOK
<1>12. TakenOnlyInPass'
  <2>1. \A f \in Emitters : entry'[f] = "none" => entry[f] = "none"
    BY <1>2, <1>3
  <2>2. entry[e] = "none" => depth > 0
    BY <1>2 DEF TakenOnlyInPass, Running, TypeOK
  <2> QED
    BY <1>1, <2>1, <2>2 DEF TakenOnlyInPass, Running
<1> QED
  BY <1>7, <1>8, <1>9, <1>10, <1>11, <1>12

LEMMA BeginRetainStep ==
  ASSUME IInv, TypeOK', NEW e \in Emitters, BeginRetain(e) PROVE IInv'
<1> USE DEF IInv
<1>1. /\ depth < MaxPasses /\ depth' = depth + 1
      /\ entry[e] = "some"
      /\ entry' = [entry EXCEPT ![e] = "none"]
      /\ subs' = [subs EXCEPT ![e] = {}]
      /\ pass' = [pass EXCEPT ![depth + 1] = Pass(e, subs[e])]
      /\ UNCHANGED <<nextId, dropped, active, emitter, handle, done, late>>
  BY DEF BeginRetain
<1>2. /\ entry'[e] = "none" /\ subs'[e] = {}
      /\ \A f \in Emitters \ {e} : entry'[f] = entry[f] /\ subs'[f] = subs[f]
  BY <1>1 DEF TypeOK
<1>3. /\ depth \in Nat
      /\ Running' = Running \cup {depth'} /\ depth' \notin Running
      /\ pass'[depth'] = Pass(e, subs[e])
      /\ \A d \in Running : pass'[d] = pass[d]
  BY <1>1, MaxPassesAssumption DEF TypeOK, Running, Depths
<1>4. \A id \in Ids : InPass(id)' <=> InPass(id) \/ id \in subs[e]
  BY <1>3 DEF InPass, Pass
<1>5. \A id \in Ids : InMap(id)' <=> \E f \in Emitters \ {e} : entry[f] = "some" /\ id \in subs[f]
  BY <1>2 DEF InMap
<1>6. \A id \in subs[e] : id \in Ids /\ InMap(id) /\ ~InPass(id) /\ ~InMap(id)'
  BY <1>1, <1>5 DEF InMap, OwnedOnce, Filed, TypeOK
<1>7. \A id \in Ids : Stored(id)' <=> Stored(id)
  BY <1>1, <1>4, <1>5 DEF Stored, InMap
<1>8. Fresh' /\ NoLiveLost' /\ RecordsAreCancelled'
  BY <1>1, <1>7 DEF Fresh, NoLiveLost, RecordsAreCancelled
<1>9. Filed'
  BY <1>1, <1>2, <1>3 DEF Filed, Pass
<1>10. NoMapNoSubs' /\ PassesHold'
  BY <1>2, <1>3 DEF NoMapNoSubs, PassesHold, Pass
<1>11. OwnedOnce'
  <2>1. ASSUME NEW id \in Ids, InMap(id)' PROVE ~InPass(id)'
    BY <1>4, <1>5, <1>6, <2>1 DEF OwnedOnce, InMap
  <2>2. ASSUME NEW id \in Ids, NEW c \in Running', NEW d \in Running',
               id \in pass'[c].kept, id \in pass'[d].kept
        PROVE  c = d
    <3>1. \A b \in Running : id \in pass[b].kept => id \notin subs[e]
      BY <1>6 DEF InPass
    <3> QED
      BY <1>3, <2>2, <3>1 DEF OwnedOnce, Pass
  <2> QED
    BY <2>1, <2>2 DEF OwnedOnce
<1>12. TakenOnlyInPass'
  BY <1>1, <1>2, <1>3 DEF TakenOnlyInPass, Pass
<1> QED
  BY <1>8, <1>9, <1>10, <1>11, <1>12

LEMMA VisitStep ==
  ASSUME IInv, TypeOK', Visit PROVE IInv'
<1> USE DEF IInv
<1>1. depth \in Running /\ depth \in Depths
  BY DEF Visit, Running, Depths, TypeOK
<1>2. PICK id \in Top.todo :
        pass' = [pass EXCEPT ![depth].todo = @ \ {id},
                             ![depth].cur = IF id \in active THEN id ELSE NoId]
  BY DEF Visit
<1>3. UNCHANGED <<nextId, entry, subs, dropped, active, emitter, handle, depth,
                  done, late>>
  BY DEF Visit
<1>4. /\ \A d \in Running : /\ pass'[d].kept = pass[d].kept
                            /\ pass'[d].emitter = pass[d].emitter
                            /\ pass'[d].todo \subseteq pass[d].todo
      /\ \A d \in Running \ {depth} : pass'[d].cur = pass[d].cur
      /\ pass'[depth].cur \in {id, NoId}
      /\ pass'[depth].todo = pass[depth].todo \ {id}
  <2>1. pass \in [Depths -> PassType] /\ Running \subseteq Depths
    BY RunningPasses DEF TypeOK
  <2>2. pass[depth] \in PassType /\ pass'[depth] =
          [pass[depth] EXCEPT !.todo = @ \ {id},
                              !.cur = IF id \in active THEN id ELSE NoId]
    BY <1>1, <1>2, <2>1
  <2>3. \A d \in Running \ {depth} : pass'[d] = pass[d]
    BY <1>1, <1>2, <2>1
  <2>4. /\ pass'[depth].kept = pass[depth].kept
        /\ pass'[depth].emitter = pass[depth].emitter
        /\ pass'[depth].todo = pass[depth].todo \ {id}
        /\ pass'[depth].cur \in {id, NoId}
    BY <2>2 DEF PassType
  <2> QED
    BY <2>3, <2>4
<1>5. /\ \A e : InMap(e)' <=> InMap(e)
      /\ \A e : InPass(e)' <=> InPass(e)
      /\ Running' = Running
  BY <1>3, <1>4 DEF InMap, InPass, Running
<1>6. Fresh' /\ NoLiveLost'
  BY <1>3, <1>5 DEF Fresh, NoLiveLost, Stored
<1>7. Filed' /\ NoMapNoSubs' /\ RecordsAreCancelled' /\ TakenOnlyInPass'
  BY <1>3, <1>4, <1>5 DEF Filed, NoMapNoSubs, RecordsAreCancelled, TakenOnlyInPass
<1>8. PassesHold'
  <2>1. id \in pass[depth].kept
    BY <1>1, <1>2 DEF PassesHold, Top
  <2>2. ASSUME NEW d \in Running
        PROVE  /\ pass'[d].todo \subseteq pass'[d].kept
               /\ pass'[d].cur # NoId => pass'[d].cur \in pass'[d].kept \ pass'[d].todo
    <3>1. CASE d = depth
      BY <1>1, <1>4, <2>1, <3>1 DEF PassesHold
    <3>2. CASE d # depth
      BY <1>4, <3>2 DEF PassesHold
    <3> QED
      BY <3>1, <3>2
  <2> QED
    BY <1>5, <2>2 DEF PassesHold
<1>9. OwnedOnce'
  BY <1>4, <1>5 DEF OwnedOnce
<1> QED
  BY <1>6, <1>7, <1>8, <1>9

LEMMA CallbackReturnsStep ==
  ASSUME IInv, TypeOK', NEW keep \in BOOLEAN, CallbackReturns(keep) PROVE IInv'
<1> USE DEF IInv
<1>1. depth \in Running /\ depth \in Depths
  BY DEF CallbackReturns, Running, Depths, TypeOK
<1>2. /\ pass' = [pass EXCEPT ![depth].cur = NoId,
                              ![depth].kept = IF keep THEN @ ELSE @ \ {Top.cur}]
      /\ done' = IF keep THEN done ELSE done \cup {Top.cur}
      /\ UNCHANGED <<nextId, entry, subs, dropped, active, emitter, handle,
                     depth, late>>
  BY DEF CallbackReturns
<1>3. /\ \A d \in Running \ {depth} : pass'[d] = pass[d]
      /\ pass'[depth].emitter = pass[depth].emitter
      /\ pass'[depth].todo = pass[depth].todo
      /\ pass'[depth].cur = NoId
      /\ pass'[depth].kept = IF keep THEN pass[depth].kept
                                     ELSE pass[depth].kept \ {Top.cur}
  <2>1. pass \in [Depths -> PassType] /\ Running \subseteq Depths
    BY RunningPasses DEF TypeOK
  <2>2. pass[depth] \in PassType /\ pass'[depth] =
          [pass[depth] EXCEPT !.cur = NoId,
                              !.kept = IF keep THEN @ ELSE @ \ {Top.cur}]
    BY <1>1, <1>2, <2>1
  <2>3. \A d \in Running \ {depth} : pass'[d] = pass[d]
    BY <1>1, <1>2, <2>1
  <2> QED
    BY <2>2, <2>3 DEF PassType
<1>4. Running' = Running
  BY <1>2 DEF Running
<1>5. \A d \in Running : pass'[d].kept \subseteq pass[d].kept
  BY <1>3
<1>6. \A id \in Ids : /\ InMap(id)' <=> InMap(id)
                      /\ InPass(id)' => InPass(id)
                      /\ InPass(id) => InPass(id)' \/ id \in done'
  <2>1. ASSUME NEW id \in Ids PROVE InMap(id)' <=> InMap(id)
    BY <1>2 DEF InMap
  <2>2. ASSUME NEW id \in Ids, InPass(id)' PROVE InPass(id)
    BY <1>4, <1>5, <2>2 DEF InPass
  <2>3. ASSUME NEW id \in Ids, InPass(id), id \notin done' PROVE InPass(id)'
    <3>1. keep \/ id # Top.cur
      BY <1>2, <2>3
    <3>2. \A d \in Running : id \in pass[d].kept => id \in pass'[d].kept
      BY <1>3, <3>1
    <3> QED
      BY <1>4, <2>3, <3>2 DEF InPass
  <2> QED
    BY <2>1, <2>2, <2>3
<1>7. Fresh' /\ NoLiveLost'
  BY <1>2, <1>6 DEF Fresh, NoLiveLost, Stored
<1>8. NoMapNoSubs' /\ RecordsAreCancelled' /\ Filed' /\ TakenOnlyInPass'
  <2>1. NoMapNoSubs' /\ RecordsAreCancelled'
    BY <1>2 DEF NoMapNoSubs, RecordsAreCancelled
  <2>2. \A d \in Running : pass'[d].emitter = pass[d].emitter
    BY <1>3
  <2>3. Filed'
    BY <1>2, <1>4, <1>5, <2>2 DEF Filed
  <2>4. TakenOnlyInPass'
    BY <1>2, <1>4, <2>2 DEF TakenOnlyInPass
  <2> QED
    BY <2>1, <2>3, <2>4
<1>9. PassesHold'
  <2>1. Top.cur \notin pass[depth].todo
    BY <1>1 DEF PassesHold, Top, CallbackReturns
  <2> QED
    BY <1>3, <1>4, <2>1 DEF PassesHold
<1>10. OwnedOnce'
  BY <1>4, <1>5, <1>6 DEF OwnedOnce
<1> QED
  BY <1>7, <1>8, <1>9, <1>10

LEMMA EndRetainStep ==
  ASSUME IInv, TypeOK', EndRetain PROVE IInv'
<1> USE DEF IInv
<1> DEFINE e == Top.emitter
<1>1. depth \in Running /\ depth \in Depths /\ depth > 0
  BY DEF EndRetain, Running, Depths, TypeOK
<1>2. e \in Emitters
  BY <1>1 DEF Top, TypeOK, PassType
<1>3. /\ subs' = [subs EXCEPT ![e] = Merged]
      /\ entry' = [entry EXCEPT ![e] = IF Merged = {} THEN "absent" ELSE "some"]
      /\ dropped' = {} /\ depth' = depth - 1
      /\ pass' = [pass EXCEPT ![depth] = NoPass]
      /\ UNCHANGED <<nextId, active, emitter, handle, done, late>>
  BY DEF EndRetain
<1>4. /\ Running' = Running \ {depth}
      /\ \A d \in Running' : pass'[d] = pass[d]
  BY <1>1, <1>3 DEF Running, TypeOK
<1>5. /\ subs'[e] = Merged
      /\ entry'[e] = "some" <=> Merged # {}
      /\ entry'[e] # "none"
      /\ \A f \in Emitters \ {e} : entry'[f] = entry[f] /\ subs'[f] = subs[f]
  BY <1>2, <1>3 DEF TypeOK
<1>6. /\ Merged \subseteq pass[depth].kept \cup subs[e]
      /\ \A id \in Merged : id \in pass[depth].kept \/ (entry[e] = "some" /\ id \in subs[e])
      /\ \A id \in pass[depth].kept : id \in Merged \/ handle[id] = "dropped"
      /\ entry[e] = "some" => \A id \in subs[e] : id \in Merged \/ handle[id] = "dropped"
  BY DEF Merged, Top, RecordsAreCancelled
<1>7. \A id \in Ids : InMap(id)' <=>
        id \in Merged \/ \E f \in Emitters \ {e} : entry[f] = "some" /\ id \in subs[f]
  BY <1>2, <1>5 DEF InMap
<1>8. \A id \in Ids : /\ Stored(id)' => Stored(id)
                      /\ Stored(id) /\ handle[id] # "dropped" => Stored(id)'
  <2>1. ASSUME NEW id \in Ids, Stored(id)' PROVE Stored(id)
    BY <1>1, <1>2, <1>4, <1>6, <1>7, <2>1 DEF Stored, InMap, InPass
  <2>2. ASSUME NEW id \in Ids, InMap(id), handle[id] # "dropped" PROVE Stored(id)'
    BY <1>2, <1>6, <1>7, <2>2 DEF Stored, InMap
  <2>3. ASSUME NEW id \in Ids, InPass(id), handle[id] # "dropped" PROVE Stored(id)'
    BY <1>4, <1>6, <1>7, <2>3 DEF Stored, InPass
  <2> QED
    BY <2>1, <2>2, <2>3 DEF Stored
<1>9. Fresh' /\ NoLiveLost'
  BY <1>3, <1>8 DEF Fresh, NoLiveLost
<1>10. Filed'
  <2>1. \A id \in Merged : emitter[id] = e
    BY <1>1, <1>2, <1>6 DEF Filed, Top
  <2> QED
    BY <1>3, <1>4, <1>5, <2>1 DEF Filed
<1>11. NoMapNoSubs' /\ PassesHold' /\ RecordsAreCancelled'
  BY <1>3, <1>4, <1>5 DEF NoMapNoSubs, PassesHold, RecordsAreCancelled
<1>12. OwnedOnce'
  <2>1. ASSUME NEW id \in Ids, NEW d \in Running', id \in pass'[d].kept
        PROVE  ~InMap(id)'
    <3>1. d \in Running /\ d # depth /\ id \in pass[d].kept
      BY <1>4, <2>1
    <3>2. ~InMap(id) /\ id \notin pass[depth].kept
      BY <1>1, <3>1 DEF OwnedOnce, InPass
    <3>3. id \notin Merged
      BY <1>2, <1>6, <3>2 DEF InMap
    <3> QED
      BY <1>7, <3>2, <3>3 DEF InMap
  <2>2. \A id \in Ids : InMap(id)' => ~InPass(id)'
    BY <2>1 DEF InPass
  <2>3. ASSUME NEW id \in Ids, NEW c \in Running', NEW d \in Running',
               id \in pass'[c].kept \cap pass'[d].kept
        PROVE  c = d
    BY <1>4, <2>3 DEF OwnedOnce
  <2> QED
    BY <2>2, <2>3 DEF OwnedOnce
<1>13. TakenOnlyInPass'
  <2>1. ASSUME NEW f \in Emitters, entry'[f] = "none"
        PROVE  \E d \in Running' : pass'[d].emitter = f
    <3>1. f # e /\ entry[f] = "none"
      BY <1>5, <2>1
    <3> QED
      BY <1>4, <3>1 DEF TakenOnlyInPass, Top
  <2> QED
    BY <1>3, <2>1 DEF TakenOnlyInPass
<1> QED
  BY <1>9, <1>10, <1>11, <1>12, <1>13

LEMMA IInvStep == IInv /\ [Next]_vars => IInv'
<1> SUFFICES ASSUME IInv, [Next]_vars PROVE IInv'
  OBVIOUS
<1>0. TypeOK'
  BY TypeStep DEF IInv
<1>1. ASSUME NEW i \in Ids, Activate(i) \/ Detach(i) PROVE IInv'
  <2>1. /\ UNCHANGED <<nextId, entry, subs, dropped, emitter, depth, pass, done>>
        /\ \A id \in Ids : \/ handle'[id] = handle[id]
                           \/ handle[id] = "held" /\ handle'[id] = "detached"
    BY <1>1 DEF Activate, Detach, IInv, TypeOK
  <2>2. \A id : (InMap(id)' <=> InMap(id)) /\ (InPass(id)' <=> InPass(id))
    BY <2>1 DEF InMap, InPass, Running
  <2>3. Fresh' /\ NoLiveLost'
    BY <2>1, <2>2 DEF IInv, Fresh, NoLiveLost, Stored
  <2>4. OwnedOnce' /\ Filed' /\ NoMapNoSubs' /\ PassesHold' /\ TakenOnlyInPass'
    BY <2>1, <2>2 DEF IInv, OwnedOnce, Filed, NoMapNoSubs, PassesHold,
                      TakenOnlyInPass, Running
  <2>5. RecordsAreCancelled'
    BY <2>1 DEF IInv, RecordsAreCancelled, TypeOK
  <2> QED
    BY <1>0, <2>3, <2>4, <2>5 DEF IInv
<1>2. CASE UNCHANGED vars
  BY <1>2 DEF vars, IInv, TypeOK, Fresh, Filed, NoMapNoSubs, PassesHold,
              RecordsAreCancelled, NoLiveLost, OwnedOnce, TakenOnlyInPass,
              Stored, InMap, InPass, Running
<1> QED
  BY <1>0, <1>1, <1>2, InsertStep, RemoveStep, UnsubscribeStep, BeginRetainStep,
     VisitStep, CallbackReturnsStep, EndRetainStep DEF Next

-----------------------------------------------------------------------------
(* The theorems.                                                             *)

LEMMA IInvHolds == Spec => []IInv
BY InitIInv, IInvStep, PTL DEF Spec

\* Every variable of the set keeps its type.
THEOREM TypeCorrect == Spec => []TypeOK
BY IInvHolds, PTL DEF IInv

\* Whatever callbacks do during a pass, on any emitter and at any depth of
\* nesting, no subscriber that nobody cancelled is lost.
THEOREM NoneLost == Spec => []NoLiveLost
BY IInvHolds, PTL DEF IInv

\* retain never reaches a callback that is already running, and putting the
\* maps together overwrites no callback.
THEOREM NeverTwice == Spec => []OwnedOnce
BY IInvHolds, PTL DEF IInv

\* An emitter is never left without its map, nor a drop recorded, by a pass that
\* has ended.
THEOREM NothingLeftTaken == Spec => []TakenOnlyInPass
BY IInvHolds, PTL DEF IInv

-----------------------------------------------------------------------------
(* Without nested passes.                                                    *)

LEMMA CancelStep ==
  ASSUME MaxPasses = 1, IInv, CancelRecorded, [Next]_vars
  PROVE  CancelRecorded'
<1> USE DEF IInv
<1>0. /\ IInv'
      /\ depth \in {0, 1}
  BY IInvStep DEF TypeOK
<1> SUFFICES ASSUME NEW id \in Ids, handle'[id] = "dropped", Stored(id)'
             PROVE  \/ id \in late'
                    \/ InPass(id)' /\ <<emitter'[id], id>> \in dropped'
  BY DEF CancelRecorded
<1> DEFINE Goal == \/ id \in late'
                   \/ InPass(id)' /\ <<emitter'[id], id>> \in dropped'
<1>1. ASSUME NEW e \in Emitters, Insert(e) PROVE Goal
  <2>1. /\ id # nextId
        /\ handle'[id] = handle[id] /\ emitter'[id] = emitter[id]
    BY <1>1 DEF Insert, TypeOK
  <2>2. InPass(id)' <=> InPass(id)
    BY <1>1 DEF Insert, InPass, Running
  <2>3. InMap(id)' => InMap(id)
    BY <1>1, <2>1 DEF Insert, InMap, TypeOK
  <2> QED
    BY <1>1, <2>1, <2>2, <2>3 DEF Insert, CancelRecorded, Stored
<1>2. ASSUME NEW i \in Ids, Unsubscribe(i) PROVE Goal
  <2> DEFINE e == emitter[i]
  <2>1. /\ InPass(id)' <=> InPass(id)
        /\ late \subseteq late' /\ dropped \subseteq dropped'
        /\ emitter' = emitter
    BY <1>2 DEF Unsubscribe, InPass, Running
  <2>2. InMap(id)' => InMap(id)
    BY <1>2 DEF Unsubscribe, InMap, TypeOK
  <2>3. CASE id = i
    <3>1. ~InMap(i)'
      <4>1. SUFFICES ASSUME NEW f \in Emitters, entry'[f] = "some", i \in subs'[f]
                     PROVE  FALSE
        BY DEF InMap
      <4>2. f = e
        BY <1>0, <2>1, <4>1 DEF Filed
      <4> QED
        BY <1>2, <4>1, <4>2 DEF Unsubscribe, TypeOK, NoMapNoSubs
    <3>2. InPass(i)
      BY <2>1, <2>3, <3>1 DEF Stored
    <3>3. CASE entry[e] = "none"
      BY <1>2, <2>1, <2>3, <3>2, <3>3 DEF Unsubscribe
    <3>4. CASE entry[e] # "none"
      BY <1>2, <2>3, <3>2, <3>4 DEF Unsubscribe
    <3> QED
      BY <3>3, <3>4
  <2>4. CASE id # i
    <3>1. handle[id] = "dropped"
      BY <1>2, <2>4 DEF Unsubscribe, TypeOK
    <3> QED
      BY <2>1, <2>2, <3>1 DEF CancelRecorded, Stored
  <2> QED
    BY <2>3, <2>4
<1>3. ASSUME NEW e \in Emitters, BeginRetain(e) PROVE Goal
  <2>1. depth = 0 /\ ~InPass(id)
    BY <1>0, <1>3 DEF BeginRetain, InPass, Running
  <2>2. Stored(id)
    <3>1. CASE InMap(id)'
      BY <1>3, <3>1 DEF BeginRetain, Stored, InMap, TypeOK
    <3>2. CASE InPass(id)'
      <4>1. depth' = 1 /\ pass'[1] = Pass(e, subs[e])
        BY <1>3, <2>1 DEF BeginRetain, TypeOK, Depths
      <4>2. id \in subs[e]
        BY <3>2, <4>1 DEF InPass, Running, Pass
      <4> QED
        BY <1>3, <4>2 DEF BeginRetain, Stored, InMap
    <3> QED
      BY <3>1, <3>2 DEF Stored
  <2> QED
    BY <1>3, <2>1, <2>2 DEF BeginRetain, CancelRecorded
<1>4. CASE EndRetain
  <2>1. depth = 1 /\ depth' = 0 /\ ~InPass(id)'
    BY <1>0, <1>4 DEF EndRetain, InPass, Running
  <2>2. Top.emitter \in Emitters /\ InMap(id)'
    BY <2>1, RunningPasses DEF Stored, Top, Running, PassType
  <2>3. CASE id \in Merged
    <3>1. Stored(id) /\ id \notin {d[2] : d \in dropped}
      BY <2>1, <2>2, <2>3 DEF Merged, Stored, InMap, InPass, Running, Top
    <3>2. <<emitter[id], id>> \notin dropped
      BY <3>1
    <3> QED
      BY <1>4, <3>1, <3>2 DEF CancelRecorded, EndRetain
  <2>4. CASE id \notin Merged
    <3>1. InMap(id)
      BY <1>4, <2>2, <2>4 DEF EndRetain, InMap, TypeOK
    <3> QED
      BY <1>4, <3>1 DEF CancelRecorded, EndRetain, Stored, OwnedOnce
  <2> QED
    BY <2>3, <2>4
<1>5. ASSUME NEW i \in Ids, Activate(i) \/ Detach(i) PROVE Goal
  BY <1>5 DEF Activate, Detach, CancelRecorded, Stored, InMap, InPass, Running, TypeOK
<1>6. ASSUME NEW e \in Emitters, Remove(e) PROVE Goal
  <2>1. InMap(id)' => InMap(id)
    BY <1>6 DEF Remove, InMap, TypeOK
  <2> QED
    BY <1>6, <2>1 DEF Remove, CancelRecorded, Stored, InPass, Running
<1>7. ASSUME NEW keep \in BOOLEAN, CallbackReturns(keep) PROVE Goal
  <2>1. InPass(id)' => InPass(id)
    BY <1>7, RunningPasses DEF CallbackReturns, InPass, Running, PassType, TypeOK
  <2>2. Stored(id)
    BY <1>7, <2>1 DEF CallbackReturns, Stored, InMap
  <2>3. InPass(id) => InPass(id)' \/ InMap(id)'
    BY <1>7 DEF Stored
  <2>4. InPass(id) => ~InMap(id)'
    BY <1>7 DEF CallbackReturns, OwnedOnce, InMap
  <2> QED
    BY <1>7, <2>2, <2>3, <2>4 DEF CallbackReturns, CancelRecorded, Stored
<1>8. CASE Visit
  <2>1. InPass(id)' <=> InPass(id)
    BY <1>8, RunningPasses DEF Visit, InPass, Running, PassType, TypeOK
  <2> QED
    BY <1>8, <2>1 DEF Visit, CancelRecorded, Stored, InMap
<1>9. CASE UNCHANGED vars
  BY <1>9 DEF vars, CancelRecorded, Stored, InMap, InPass, Running
<1> QED
  BY <1>1, <1>2, <1>3, <1>4, <1>5, <1>6, <1>7, <1>8, <1>9 DEF Next

\* As long as no pass starts inside of another, a cancelled subscription stays
\* stored past the pass that has it only if it was cancelled late.
THEOREM CancelledUnlessLate ==
  ASSUME MaxPasses = 1 PROVE Spec => []CancelRecorded
<1>1. Init => CancelRecorded
  BY DEF Init, CancelRecorded
<1>2. IInv /\ CancelRecorded /\ [Next]_vars => CancelRecorded'
  BY CancelStep
<1> QED
  BY <1>1, <1>2, IInvHolds, PTL DEF Spec

\* Every recorded drop is of the one emitter whose map is out of the set.
RecordsOfOnePass ==
  \A r \in dropped : depth = 1 /\ r[1] = pass[1].emitter

LEMMA RecordsStep ==
  ASSUME MaxPasses = 1, IInv, RecordsOfOnePass, [Next]_vars
  PROVE  RecordsOfOnePass'
<1> USE DEF IInv
<1>0. depth \in {0, 1} /\ pass \in [{1} -> PassType]
  BY DEF TypeOK, Depths
<1>1. ASSUME NEW id \in Ids, Unsubscribe(id) PROVE RecordsOfOnePass'
  <2>1. UNCHANGED <<depth, pass>>
    BY <1>1 DEF Unsubscribe
  <2>2. CASE entry[emitter[id]] = "none"
    <3>1. PICK d \in Running : pass[d].emitter = emitter[id]
      BY <2>2 DEF TakenOnlyInPass, TypeOK
    <3>2. depth = 1 /\ pass[1].emitter = emitter[id]
      BY <1>0, <3>1 DEF Running
    <3>3. dropped' = dropped \cup {<<emitter[id], id>>}
      BY <1>1, <2>2 DEF Unsubscribe
    <3> QED
      BY <2>1, <3>2, <3>3 DEF RecordsOfOnePass
  <2>3. CASE entry[emitter[id]] # "none"
    BY <1>1, <2>1, <2>3 DEF Unsubscribe, RecordsOfOnePass
  <2> QED
    BY <2>2, <2>3
<1>2. ASSUME NEW e \in Emitters, BeginRetain(e) PROVE RecordsOfOnePass'
  <2>1. depth = 0
    BY <1>0, <1>2 DEF BeginRetain
  <2>2. dropped' = {}
    BY <1>2, <2>1 DEF BeginRetain, TakenOnlyInPass
  <2> QED
    BY <2>2 DEF RecordsOfOnePass
<1>3. CASE EndRetain
  BY <1>3 DEF EndRetain, RecordsOfOnePass
<1>4. ASSUME Visit \/ \E keep \in BOOLEAN : CallbackReturns(keep)
      PROVE  RecordsOfOnePass'
  <2>1. depth = 1 /\ pass[1] \in PassType
    BY <1>0, <1>4 DEF Visit, CallbackReturns
  <2>2. pass'[1].emitter = pass[1].emitter
    <3>1. CASE Visit
      <4>1. PICK id \in Top.todo :
              pass' = [pass EXCEPT ![1].todo = @ \ {id},
                                   ![1].cur = IF id \in active THEN id ELSE NoId]
        BY <2>1, <3>1 DEF Visit
      <4> QED
        BY <1>0, <2>1, <4>1 DEF PassType
    <3>2. ASSUME NEW keep \in BOOLEAN, CallbackReturns(keep)
          PROVE  pass'[1].emitter = pass[1].emitter
      <4>1. pass' = [pass EXCEPT ![1].cur = NoId,
                                 ![1].kept = IF keep THEN @ ELSE @ \ {Top.cur}]
        BY <2>1, <3>2 DEF CallbackReturns
      <4> QED
        BY <1>0, <2>1, <4>1 DEF PassType
    <3> QED
      BY <1>4, <3>1, <3>2
  <2> QED
    BY <1>4, <2>1, <2>2 DEF Visit, CallbackReturns, RecordsOfOnePass
<1>5. ASSUME UNCHANGED <<dropped, depth, pass>> PROVE RecordsOfOnePass'
  BY <1>5 DEF RecordsOfOnePass
<1>6. ASSUME NEW e \in Emitters, Insert(e) \/ Remove(e) PROVE RecordsOfOnePass'
  BY <1>5, <1>6 DEF Insert, Remove
<1>7. ASSUME NEW id \in Ids, Activate(id) \/ Detach(id) PROVE RecordsOfOnePass'
  BY <1>5, <1>7 DEF Activate, Detach
<1>8. CASE UNCHANGED vars
  BY <1>5, <1>8 DEF vars
<1> QED
  BY <1>1, <1>2, <1>3, <1>4, <1>6, <1>7, <1>8 DEF Next

\* As long as no pass starts inside of another, the drops that a pass takes at its
\* end are all of its own emitter: retain's debug_assert_eq does not fail, and no
\* record of another emitter is lost.
THEOREM RecordsAreOfThePass ==
  ASSUME MaxPasses = 1 PROVE Spec => []RecordsOfThisPass
<1>1. Init => RecordsOfOnePass
  BY DEF Init, RecordsOfOnePass
<1>2. IInv /\ RecordsOfOnePass /\ [Next]_vars => RecordsOfOnePass'
  BY RecordsStep
<1>3. IInv /\ RecordsOfOnePass => RecordsOfThisPass
  BY DEF RecordsOfOnePass, RecordsOfThisPass, Top
<1> QED
  BY <1>1, <1>2, <1>3, IInvHolds, PTL DEF Spec
=============================================================================

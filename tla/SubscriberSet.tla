---------------------------- MODULE SubscriberSet ----------------------------
(***************************************************************************)
(* The SubscriberSet of src/src/subscription.rs: callbacks by emitter, the *)
(* Subscription handles that cancel them, and retain, which invokes them.  *)
(*                                                                         *)
(* retain takes the map of its emitter out of the set while the callbacks  *)
(* run.  They may insert, activate, drop and detach subscriptions of the   *)
(* same set, and start another pass over it; what they did is put together *)
(* when the pass ends.  The set is single threaded (Rc, RefCell), so only  *)
(* the innermost callback runs between two steps of a pass.                *)
(***************************************************************************)
EXTENDS Integers, FiniteSets

CONSTANTS
  Emitters,        \* emitter keys
  MaxSubscribers,  \* bound: how many subscriber ids are handed out
  MaxPasses        \* bound: how deep passes nest

ASSUME EmittersAssumption == Emitters # {}
ASSUME MaxSubscribersAssumption == MaxSubscribers \in Nat
ASSUME MaxPassesAssumption == MaxPasses \in Nat

Ids == 1..MaxSubscribers
NoId == 0
Depths == 1..MaxPasses

VARIABLES
  nextId,   \* next_subscriber_id
  entry,    \* subscribers, per emitter: no entry, None or Some of a map
  subs,     \* the ids in that map
  dropped,  \* dropped_subscribers
  active,   \* the ids whose `active' cell is set
  emitter,  \* the emitter_key each subscription was made with
  handle,   \* what became of the Subscription of each id
  depth,    \* how many passes are on the stack
  pass,     \* their local variables, outermost first
  done,     \* history: callbacks that returned false or were removed
  late      \* history: ids cancelled while a pass held them and a newcomer
            \* had replaced the None of their emitter

vars == <<nextId, entry, subs, dropped, active, emitter, handle, depth, pass,
          done, late>>

\* The locals of a pass: the map it took out, what of it is still to be
\* visited, and the callback that is running.
Pass(e, ids) == [emitter |-> e, kept |-> ids, todo |-> ids, cur |-> NoId]

SomeEmitter == CHOOSE e \in Emitters : TRUE
NoPass == Pass(SomeEmitter, {})

Top == pass[depth]
Running == 1..depth

\* Code outside of the set runs: before a pass or inside of a callback.
OutsideCode == depth > 0 => Top.cur # NoId

\* Where the callbacks of an emitter are.
InMap(id) == \E e \in Emitters : entry[e] = "some" /\ id \in subs[e]
InPass(id) == \E d \in Running : id \in pass[d].kept
Stored(id) == InMap(id) \/ InPass(id)

Init ==
  /\ nextId = 1
  /\ entry = [e \in Emitters |-> "absent"]
  /\ subs = [e \in Emitters |-> {}]
  /\ dropped = {}
  /\ active = {}
  /\ emitter = [id \in Ids |-> SomeEmitter]
  /\ handle = [id \in Ids |-> "none"]
  /\ depth = 0
  /\ pass = [d \in Depths |-> NoPass]
  /\ done = {}
  /\ late = {}

-----------------------------------------------------------------------------
\* SubscriberSet::insert: the first subscriber of an emitter, or the first one
\* since a pass took the map, makes a new map.
Insert(e) ==
  /\ OutsideCode
  /\ nextId \in Ids
  /\ nextId' = nextId + 1
  /\ entry' = [entry EXCEPT ![e] = "some"]
  /\ subs' = [subs EXCEPT ![e] =
                IF entry[e] = "some" THEN @ \cup {nextId} ELSE {nextId}]
  /\ emitter' = [emitter EXCEPT ![nextId] = e]
  /\ handle' = [handle EXCEPT ![nextId] = "held"]
  /\ UNCHANGED <<dropped, active, depth, pass, done, late>>

\* The FnOnce that insert returns; the App calls it at once or in a later effect.
Activate(id) ==
  /\ OutsideCode
  /\ handle[id] # "none"
  /\ id \notin active
  /\ active' = active \cup {id}
  /\ UNCHANGED <<nextId, entry, subs, dropped, emitter, handle, depth, pass,
                 done, late>>

\* Mutant of Unsubscribe: what retain holds is not recorded as dropped.
UnsubscribeUnrecorded(id) ==
  LET e == emitter[id] IN
  /\ OutsideCode
  /\ handle[id] = "held"
  /\ handle' = [handle EXCEPT ![id] = "dropped"]
  /\ IF entry[e] = "some"
     THEN /\ subs' = [subs EXCEPT ![e] = @ \ {id}]
          /\ entry' = [entry EXCEPT ![e] =
                         IF subs[e] \ {id} = {} THEN "absent" ELSE "some"]
     ELSE UNCHANGED <<entry, subs>>
  /\ late' = IF InPass(id) /\ entry[e] # "none" THEN late \cup {id} ELSE late
  /\ UNCHANGED <<nextId, dropped, active, emitter, depth, pass, done>>

\* Drop for Subscription: its unsubscribe closure.
Unsubscribe(id) ==
  LET e == emitter[id] IN
  /\ OutsideCode
  /\ handle[id] = "held"
  /\ handle' = [handle EXCEPT ![id] = "dropped"]
  /\ \/ entry[e] = "absent" /\ UNCHANGED <<entry, subs, dropped>>
     \/ /\ entry[e] = "some"
        /\ subs' = [subs EXCEPT ![e] = @ \ {id}]
        /\ entry' = [entry EXCEPT ![e] =
                       IF subs[e] \ {id} = {} THEN "absent" ELSE "some"]
        /\ UNCHANGED dropped
     \/ /\ entry[e] = "none"
        /\ dropped' = dropped \cup {<<e, id>>}
        /\ UNCHANGED <<entry, subs>>
  /\ late' = IF InPass(id) /\ entry[e] # "none" THEN late \cup {id} ELSE late
  /\ UNCHANGED <<nextId, active, emitter, depth, pass, done>>

\* Subscription::detach.
Detach(id) ==
  /\ OutsideCode
  /\ handle[id] = "held"
  /\ handle' = [handle EXCEPT ![id] = "detached"]
  /\ UNCHANGED <<nextId, entry, subs, dropped, active, emitter, depth, pass,
                 done, late>>

\* SubscriberSet::remove, called for an entity that is released: inside of a
\* pass only if the effects are flushed there.  The active callbacks go to the
\* caller, the others are dropped.
Remove(e) ==
  /\ OutsideCode
  /\ depth < MaxPasses
  /\ entry[e] # "absent"
  /\ entry' = [entry EXCEPT ![e] = "absent"]
  /\ subs' = [subs EXCEPT ![e] = {}]
  /\ done' = IF entry[e] = "some" THEN done \cup subs[e] ELSE done
  /\ UNCHANGED <<nextId, dropped, active, emitter, handle, depth, pass, late>>

-----------------------------------------------------------------------------
(* SubscriberSet::retain.                                                  *)

\* Mutant of BeginRetain: the map is copied, not taken.
BeginRetainCopies(e) ==
  /\ OutsideCode
  /\ depth < MaxPasses
  /\ entry[e] = "some"
  /\ depth' = depth + 1
  /\ pass' = [pass EXCEPT ![depth + 1] = Pass(e, subs[e])]
  /\ UNCHANGED <<nextId, entry, subs, dropped, active, emitter, handle, done, late>>

\* retain up to the loop.  Without a map (no entry, or None because an outer
\* pass has it) it returns and changes nothing.
BeginRetain(e) ==
  /\ OutsideCode
  /\ depth < MaxPasses
  /\ entry[e] = "some"
  /\ entry' = [entry EXCEPT ![e] = "none"]
  /\ subs' = [subs EXCEPT ![e] = {}]
  /\ depth' = depth + 1
  /\ pass' = [pass EXCEPT ![depth + 1] = Pass(e, subs[e])]
  /\ UNCHANGED <<nextId, dropped, active, emitter, handle, done, late>>

\* The loop, in the order of the ids: an active callback is invoked, an
\* inactive subscriber kept.
Visit ==
  /\ depth > 0
  /\ Top.cur = NoId
  /\ \E id \in Top.todo :
       /\ \A other \in Top.todo : id <= other
       /\ pass' = [pass EXCEPT ![depth].todo = @ \ {id},
                               ![depth].cur = IF id \in active THEN id ELSE NoId]
  /\ UNCHANGED <<nextId, entry, subs, dropped, active, emitter, handle, depth,
                 done, late>>

\* The callback returns whether it wants to be kept.
CallbackReturns(keep) ==
  /\ depth > 0
  /\ Top.cur # NoId
  /\ pass' = [pass EXCEPT ![depth].cur = NoId,
                          ![depth].kept = IF keep THEN @ ELSE @ \ {Top.cur}]
  /\ done' = IF keep THEN done ELSE done \cup {Top.cur}
  /\ UNCHANGED <<nextId, entry, subs, dropped, active, emitter, handle, depth,
                 late>>

\* Mutant of Merged: the newcomers are overwritten.
MergedWithoutNewcomers == Top.kept \ {d[2] : d \in dropped}

\* What is left in the map when the loop is over: the kept subscribers and the
\* newcomers, without those that were recorded as dropped.
Merged ==
  (Top.kept \cup (IF entry[Top.emitter] = "some" THEN subs[Top.emitter] ELSE {}))
    \ {d[2] : d \in dropped}

\* Mutant of EndRetain: the records are read, not taken.
EndRetainKeepsRecords ==
  /\ depth > 0
  /\ Top.cur = NoId
  /\ Top.todo = {}
  /\ subs' = [subs EXCEPT ![Top.emitter] = Merged]
  /\ entry' = [entry EXCEPT ![Top.emitter] =
                 IF Merged = {} THEN "absent" ELSE "some"]
  /\ depth' = depth - 1
  /\ pass' = [pass EXCEPT ![depth] = NoPass]
  /\ UNCHANGED <<nextId, dropped, active, emitter, handle, done, late>>

EndRetain ==
  /\ depth > 0
  /\ Top.cur = NoId
  /\ Top.todo = {}
  /\ subs' = [subs EXCEPT ![Top.emitter] = Merged]
  /\ entry' = [entry EXCEPT ![Top.emitter] =
                 IF Merged = {} THEN "absent" ELSE "some"]
  /\ dropped' = {}
  /\ depth' = depth - 1
  /\ pass' = [pass EXCEPT ![depth] = NoPass]
  /\ UNCHANGED <<nextId, active, emitter, handle, done, late>>

-----------------------------------------------------------------------------
Next ==
  \/ \E e \in Emitters : Insert(e) \/ Remove(e) \/ BeginRetain(e)
  \/ \E id \in Ids : Activate(id) \/ Unsubscribe(id) \/ Detach(id)
  \/ \E keep \in BOOLEAN : CallbackReturns(keep)
  \/ Visit
  \/ EndRetain

Spec == Init /\ [][Next]_vars

-----------------------------------------------------------------------------
PassType == [emitter : Emitters, kept : SUBSET Ids, todo : SUBSET Ids,
             cur : Ids \cup {NoId}]

TypeOK ==
  /\ nextId \in 1..(MaxSubscribers + 1)
  /\ entry \in [Emitters -> {"absent", "none", "some"}]
  /\ subs \in [Emitters -> SUBSET Ids]
  /\ dropped \subseteq Emitters \X Ids
  /\ active \subseteq Ids
  /\ emitter \in [Ids -> Emitters]
  /\ handle \in [Ids -> {"none", "held", "detached", "dropped"}]
  /\ depth \in 0..MaxPasses
  /\ pass \in [Depths -> PassType]
  /\ done \subseteq Ids
  /\ late \subseteq Ids

\* Whatever callbacks insert, drop and start while a pass has the map, no
\* subscriber disappears that nobody cancelled: it is in the map, or in a pass
\* that will put it back.
NoLiveLost ==
  \A id \in Ids :
    handle[id] \in {"held", "detached"} /\ id \notin done => Stored(id)

\* No callback is in two places: neither two passes nor a pass and the map
\* have it, so retain never enters a callback (an FnMut) that is running, and
\* `extend' overwrites none.
OwnedOnce ==
  \A id \in Ids :
    /\ InMap(id) => ~InPass(id)
    /\ \A c, d \in Running : id \in pass[c].kept \cap pass[d].kept => c = d

\* An emitter is None only while a pass has its map, and drops are recorded only
\* while a pass runs that will consume them: otherwise the emitter would be
\* silent for ever, or a record would hit a later pass.
TakenOnlyInPass ==
  /\ \A e \in Emitters :
       entry[e] = "none" => \E d \in Running : pass[d].emitter = e
  /\ dropped # {} => depth > 0

\* A subscription that was cancelled is gone, or recorded for the pass that has
\* it, unless it was cancelled late: after a newcomer had replaced the None.
CancelRecorded ==
  \A id \in Ids :
    handle[id] = "dropped" /\ Stored(id) =>
      \/ id \in late
      \/ InPass(id) /\ <<emitter[id], id>> \in dropped

\* The debug_assert_eq of retain: at the end of a pass every recorded drop is of
\* the emitter of that pass.
RecordsOfThisPass ==
  depth > 0 /\ Top.cur = NoId /\ Top.todo = {} =>
    \A d \in dropped : d[1] = Top.emitter

-----------------------------------------------------------------------------
(* What the comment on Subscription says: "When dropped, the subscription  *)
(* is cancelled and the callback will no longer be invoked".               *)

\* When no pass runs, no dropped subscription is stored (and would be invoked by
\* every later pass).
NoneLeftBehind ==
  depth = 0 => \A id \in Ids : handle[id] = "dropped" => ~Stored(id)
=============================================================================

---------------------------- MODULE PriorityQueue -----------------------------
(***************************************************************************)
(* The priority queue of src/src/queue.rs between the threads that dispatch *)
(* background tasks and the worker threads of LinuxDispatcher, which loop   *)
(* over PriorityQueueReceiver::iter (src/src/platform/linux/dispatcher.rs). *)
(*                                                                         *)
(* The queues are under a mutex with a condition variable; the counts of    *)
(* senders and receivers are atomics, read and changed outside of it too.   *)
(* A step is one critical section, or one access to a count.  A notified    *)
(* receiver has to take the mutex again: until it does it is "woken", and   *)
(* any other thread may come first.                                        *)
(***************************************************************************)
EXTENDS Integers, Sequences, FiniteSets

CONSTANTS
  Workers,   \* the background threads
  Items,     \* the runnables
  Repeats,   \* those that may schedule themselves again while they run
  PriorityOf, \* the priority each is sent with
  None       \* no worker, no item

ASSUME WorkersAssumption == IsFiniteSet(Workers) /\ Workers # {}
ASSUME NoneAssumption == None \notin Workers \cup Items
ASSUME RepeatsAssumption == Repeats \subseteq Items
ASSUME PriorityAssumption == PriorityOf \in [Items -> {"high", "medium", "low"}]

Priorities == {"high", "medium", "low"}

VARIABLES
  queues,    \* high_priority, medium_priority and low_priority
  connected, \* sender_count: the one sender exists
  receivers, \* receiver_count
  worker,    \* where each worker is in recv
  run,       \* the item each worker runs
  item,      \* where each item is
  taker      \* history: the worker that took the last item

vars == <<queues, connected, receivers, worker, run, item, taker>>

Empty == \A p \in Priorities : queues[p] = <<>>
At(state) == {w \in Workers : worker[w] = state}

\* Mutant of Init: the clones of the receiver are not counted.
InitUncounted ==
  /\ queues = [p \in Priorities |-> <<>>]
  /\ connected = TRUE
  /\ receivers = 1
  /\ worker = [w \in Workers |-> "ready"]
  /\ run = [w \in Workers |-> None]
  /\ item = [i \in Items |-> "new"]
  /\ taker = None

\* LinuxDispatcher::new has returned: each worker has a clone of the receiver,
\* and the receiver they were cloned from is gone.
Init ==
  /\ queues = [p \in Priorities |-> <<>>]
  /\ connected = TRUE
  /\ receivers = Cardinality(Workers)
  /\ worker = [w \in Workers |-> "ready"]
  /\ run = [w \in Workers |-> None]
  /\ item = [i \in Items |-> "new"]
  /\ taker = None

-----------------------------------------------------------------------------
(* PriorityQueueState::send.                                               *)

\* The relaxed load of receiver_count.  Without receivers the item comes back
\* and dispatch panics: "blocking sender returned without value".
SendCheck(i) ==
  /\ connected
  /\ item[i] = "new"
  /\ item' = [item EXCEPT ![i] = IF receivers = 0 THEN "refused" ELSE "sending"]
  /\ UNCHANGED <<queues, connected, receivers, worker, run, taker>>

\* Mutant of Push: the receivers are not notified.
PushSilently(i) ==
  /\ item[i] = "sending"
  /\ item' = [item EXCEPT ![i] = "queued"]
  /\ queues' = [queues EXCEPT ![PriorityOf[i]] = Append(@, i)]
  /\ UNCHANGED <<connected, receivers, worker, run, taker>>

\* Under the mutex: push and notify_one.
Push(i) ==
  /\ item[i] = "sending"
  /\ item' = [item EXCEPT ![i] = "queued"]
  /\ queues' = [queues EXCEPT ![PriorityOf[i]] = Append(@, i)]
  /\ \/ At("waiting") = {} /\ UNCHANGED worker
     \/ \E w \in At("waiting") : worker' = [worker EXCEPT ![w] = "woken"]
  /\ UNCHANGED <<connected, receivers, run, taker>>

\* Drop for PriorityQueueSender: the count only.  Every task that has not run to
\* its end holds the dispatcher, and with it the sender.
DropSender ==
  /\ connected
  /\ \A i \in Items : item[i] \in {"new", "done"}
  /\ connected' = FALSE
  /\ UNCHANGED <<queues, receivers, worker, run, item, taker>>

-----------------------------------------------------------------------------
(* PriorityQueueReceiver::pop_inner: the loaded die.                       *)

Weight == [high |-> 60, medium |-> 30, low |-> 10]
Share(p) == IF queues[p] = <<>> THEN 0 ELSE Weight[p]
Above == [high |-> {}, medium |-> {"high"}, low |-> {"high", "medium"}]

\* Mutant of Mass: what was passed over is not taken off.
MassOfAll(p) == Share("high") + Share("medium") + Share("low")

\* The mass left when the flip for priority p comes.
Mass(p) ==
  CASE p = "high"   -> Share("high") + Share("medium") + Share("low")
    [] p = "medium" -> Share("medium") + Share("low")
    [] p = "low"    -> Share("low")

\* A flip with ratio Weight[p] : Mass(p) can fail unless it is certain.
MayPassOver(p) == queues[p] = <<>> \/ Weight[p] < Mass(p)
MayTake(p) == queues[p] # <<>> /\ \A q \in Above[p] : MayPassOver(q)
MayTakeNone == \A p \in Priorities : MayPassOver(p)

\* Mutant of Take: the item stays in its queue.
TakeCopy(w, p) ==
  /\ MayTake(p)
  /\ LET i == queues[p][Len(queues[p])] IN
     /\ run' = [run EXCEPT ![w] = i]
     /\ item' = [item EXCEPT ![i] = "running"]
  /\ worker' = [worker EXCEPT ![w] = "running"]
  /\ taker' = w
  /\ UNCHANGED <<queues, connected, receivers>>

\* Vec::pop takes the item that was pushed last.
Take(w, p) ==
  /\ MayTake(p)
  /\ LET i == queues[p][Len(queues[p])] IN
     /\ queues' = [queues EXCEPT ![p] = SubSeq(@, 1, Len(@) - 1)]
     /\ run' = [run EXCEPT ![w] = i]
     /\ item' = [item EXCEPT ![i] = "running"]
  /\ worker' = [worker EXCEPT ![w] = "running"]
  /\ taker' = w
  /\ UNCHANGED <<connected, receivers>>

\* Iter::next returns None: the loop of the worker is over and its receiver
\* dropped.
End(w) ==
  /\ worker' = [worker EXCEPT ![w] = "ended"]
  /\ receivers' = receivers - 1
  /\ UNCHANGED <<queues, connected, run, item, taker>>

\* recv with something in the queues.
Recv(w) ==
  /\ worker[w] = "ready"
  /\ \E p \in Priorities : Take(w, p)

\* recv with empty queues: an error without sender, or condvar.wait.
RecvEmpty(w) ==
  /\ worker[w] = "ready"
  /\ Empty
  /\ \/ ~connected /\ End(w)
     \/ /\ connected
        /\ worker' = [worker EXCEPT ![w] = "waiting"]
        /\ UNCHANGED <<queues, connected, receivers, run, item, taker>>

\* A notified receiver has the mutex again and does not look whether the queues
\* are still not empty ("so an if is fine").
Wake(w) ==
  /\ worker[w] = "woken"
  /\ \E p \in Priorities : Take(w, p)

\* pop_inner finds nothing, and None ends the iterator.
WakeForNothing(w) ==
  /\ worker[w] \in {"ready", "woken"}
  /\ worker[w] = "ready" => ~Empty
  /\ MayTakeNone
  /\ End(w)

\* The runnable returns: its task is done.
Done(w) ==
  /\ worker[w] = "running"
  /\ run' = [run EXCEPT ![w] = None]
  /\ item' = [item EXCEPT ![run[w]] = "done"]
  /\ worker' = [worker EXCEPT ![w] = "ready"]
  /\ UNCHANGED <<queues, connected, receivers, taker>>

\* The runnable returns; its task woke itself while it ran, and is
\* sent again before run() returns.
Again(w) ==
  LET i == run[w] IN
  /\ worker[w] = "running"
  /\ i \in Repeats
  /\ run' = [run EXCEPT ![w] = None]
  /\ item' = [item EXCEPT ![i] = "queued"]
  /\ queues' = [queues EXCEPT ![PriorityOf[i]] = Append(@, i)]
  /\ \/ At("waiting") = {} /\ worker' = [worker EXCEPT ![w] = "ready"]
     \/ \E v \in At("waiting") :
          worker' = [worker EXCEPT ![w] = "ready", ![v] = "woken"]
  /\ UNCHANGED <<connected, receivers, taker>>

-----------------------------------------------------------------------------
WorkerStep(w) ==
  Recv(w) \/ RecvEmpty(w) \/ Wake(w) \/ WakeForNothing(w) \/ Done(w) \/ Again(w)

Next ==
  \/ \E i \in Items : SendCheck(i) \/ Push(i)
  \/ DropSender
  \/ \E w \in Workers : WorkerStep(w)

\* The threads are scheduled: one that can take a step takes it in the end.  And
\* a task that runs again and again is done in the end: with a stack for a queue,
\* one that never stops would starve the others.
Fairness ==
  /\ \A w \in Workers : WF_vars(WorkerStep(w))
  /\ \A i \in Items : WF_vars(Push(i))
  /\ \A i \in Repeats : SF_vars(\E w \in Workers : run[w] = i /\ Done(w))

Spec == Init /\ [][Next]_vars
FairSpec == Spec /\ Fairness

-----------------------------------------------------------------------------
ItemStates == {"new", "sending", "refused", "queued", "running", "done"}
WorkerStates == {"ready", "waiting", "woken", "running", "ended"}

TypeOK ==
  /\ queues \in [Priorities -> Seq(Items)]
  /\ connected \in BOOLEAN
  /\ receivers \in Nat
  /\ worker \in [Workers -> WorkerStates]
  /\ run \in [Workers -> Items \cup {None}]
  /\ item \in [Items -> ItemStates]
  /\ taker \in Workers \cup {None}

\* A runnable is in one place: in one queue, once, or with one worker.  Two
\* threads never poll the same task.
RunOnce ==
  /\ \A p, q \in Priorities : \A m \in DOMAIN queues[p], n \in DOMAIN queues[q] :
       queues[p][m] = queues[q][n] => p = q /\ m = n
  /\ \A p \in Priorities : \A n \in DOMAIN queues[p] : item[queues[p][n]] = "queued"
  /\ \A w \in Workers : run[w] # None => item[run[w]] = "running"
  /\ \A v, w \in Workers : run[v] = run[w] /\ run[w] # None => v = w

\* When something is queued, a worker is on its way to it: it never sits in the
\* queues while all the workers that are left wait.
NoLostWakeup == ~Empty => \E w \in Workers : worker[w] \in {"ready", "woken", "running"}

\* Woken for nothing, workers end one after the other, but never the last one:
\* so dispatch does not panic with "blocking sender returned without value".
OneWorkerLeft ==
  /\ connected => \E w \in Workers : worker[w] # "ended"
  /\ \A i \in Items : item[i] # "refused"

\* What is sent is run to completion, though tasks reschedule themselves, workers
\* end, and the die may pass over a queue.
EveryItemRuns == \A i \in Items : item[i] = "sending" ~> item[i] = "done"

-----------------------------------------------------------------------------
(* What the comments of queue.rs say.                                      *)

\* "If None is returned the sender disconnected", and the iterator "will wait
\* for new elements if the queue is empty".
EndsOnlyDisconnected == \A w \in Workers : worker[w] = "ended" => ~connected
=============================================================================

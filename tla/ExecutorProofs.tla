---------------------------- MODULE ExecutorProofs ----------------------------
(***************************************************************************)
(* What carries runnables from the executors of src/src/executor.rs to a    *)
(* thread, proved for every number of workers, items, runnables and tasks:  *)
(* the queue of the worker threads (PriorityQueue), the main thread's loop  *)
(* (MainLoop), and the tasks that lend their environment (ScopedTasks).     *)
(* The three share no variable: each part below speaks of one of them.      *)
(***************************************************************************)
EXTENDS PriorityQueue, MainLoop, ScopedTasks, FiniteSetTheorems, TLAPS

-----------------------------------------------------------------------------
(* PriorityQueue.                                                          *)

Left == {w \in Workers : worker[w] # "ended"}

\* receiver_count is the number of workers that have not ended.
ReceiversCounted == receivers = Cardinality(Left)

\* A worker runs an item exactly when it is in the body of its loop.
RunsSomething ==
  \A w \in Workers : worker[w] = "running" <=> run[w] # None

\* The sender outlives every task that was not run to its end.
SenderNeeded == ~connected => \A i \in Items : item[i] \in {"new", "done"}

\* The worker that left the queues empty is neither ended nor woken: a worker
\* that is woken for nothing is not the last one.
TakerLives ==
  connected /\ Empty /\ At("woken") # {} =>
    /\ taker \in Workers
    /\ worker[taker] \in {"ready", "waiting", "running"}

IInv ==
  /\ TypeOK
  /\ ReceiversCounted
  /\ RunsSomething
  /\ SenderNeeded
  /\ TakerLives
  /\ RunOnce
  /\ NoLostWakeup
  /\ OneWorkerLeft

-----------------------------------------------------------------------------
\* Some flip succeeds unless the queues are empty.
LEMMA NoneMeansEmpty == MayTakeNone => Empty
<1> SUFFICES ASSUME MayTakeNone PROVE Empty
  OBVIOUS
<1>1. queues["low"] = <<>>
  BY DEF MayTakeNone, MayPassOver, Mass, Share, Weight, Priorities
<1>2. queues["medium"] = <<>>
  BY <1>1 DEF MayTakeNone, MayPassOver, Mass, Share, Weight, Priorities
<1>3. queues["high"] = <<>>
  BY <1>1, <1>2 DEF MayTakeNone, MayPassOver, Mass, Share, Weight, Priorities
<1> QED
  BY <1>1, <1>2, <1>3 DEF Empty, Priorities

LEMMA InitIInv == Init => IInv
<1> SUFFICES ASSUME Init PROVE IInv
  OBVIOUS
<1> USE DEF Init
<1>1. TypeOK
  BY WorkersAssumption, FS_CardinalityType
     DEF TypeOK, Priorities, WorkerStates, ItemStates
<1>2. Left = Workers
  BY DEF Left
<1>3. ReceiversCounted /\ RunsSomething /\ SenderNeeded /\ TakerLives
  BY <1>2 DEF ReceiversCounted, RunsSomething, SenderNeeded, TakerLives, At
<1>4. Empty
  BY DEF Empty
<1>5. RunOnce /\ NoLostWakeup /\ OneWorkerLeft
  BY <1>4, WorkersAssumption DEF RunOnce, NoLostWakeup, OneWorkerLeft
<1> QED
  BY <1>1, <1>3, <1>5 DEF IInv

-----------------------------------------------------------------------------
(* The steps, one lemma each.                                              *)

LEMMA SendCheckStep ==
  ASSUME IInv, NEW i \in Items, SendCheck(i) PROVE IInv'
<1> USE DEF IInv, SendCheck
<1>1. receivers # 0
  <2>1. Left # {} /\ IsFiniteSet(Left)
    BY WorkersAssumption, FS_Subset DEF OneWorkerLeft, Left
  <2> QED
    BY <2>1, FS_EmptySet DEF ReceiversCounted
<1>2. item' = [item EXCEPT ![i] = "sending"]
  BY <1>1
<1>3. TypeOK'
  BY <1>2 DEF TypeOK, ItemStates
<1>4. ReceiversCounted' /\ RunsSomething' /\ TakerLives' /\ NoLostWakeup'
  BY DEF ReceiversCounted, Left, RunsSomething, TakerLives, At, NoLostWakeup, Empty
<1>5. SenderNeeded' /\ OneWorkerLeft'
  BY <1>2 DEF SenderNeeded, OneWorkerLeft, TypeOK
<1>6. RunOnce'
  BY <1>2 DEF RunOnce, TypeOK
<1> QED
  BY <1>3, <1>4, <1>5, <1>6

\* What Push and Again share: an item that is nowhere goes to the end of its
\* queue.
LEMMA AppendKeepsUnique ==
  ASSUME TypeOK, RunOnce, NEW i \in Items, item[i] \notin {"queued"},
         \A w \in Workers : run'[w] = run[w] \/ run'[w] = None,
         \A w \in Workers : run'[w] # i,
         item' = [item EXCEPT ![i] = "queued"],
         queues' = [queues EXCEPT ![PriorityOf[i]] = Append(@, i)]
  PROVE  RunOnce' /\ ~Empty'
<1> DEFINE P == PriorityOf[i]
<1>1. P \in Priorities
  BY PriorityAssumption DEF Priorities
<1>2. \A p \in Priorities : queues[p] \in Seq(Items)
  BY DEF TypeOK
<1>3. queues'[P] = Append(queues[P], i) /\ \A p \in Priorities \ {P} : queues'[p] = queues[p]
  BY <1>1 DEF TypeOK
<1>4. \A p \in Priorities : \A n \in DOMAIN queues'[p] :
        \/ n \in DOMAIN queues[p] /\ queues'[p][n] = queues[p][n] /\ queues[p][n] # i
             /\ queues[p][n] \in Items
        \/ p = P /\ n = Len(queues[P]) + 1 /\ queues'[p][n] = i
  <2> TAKE p \in Priorities
  <2> TAKE n \in DOMAIN queues'[p]
  <2>1. \A k \in DOMAIN queues[p] : queues[p][k] # i /\ queues[p][k] \in Items
    BY <1>2 DEF RunOnce
  <2>2. CASE p = P
    BY <1>2, <1>3, <2>1, <2>2
  <2>3. CASE p # P
    BY <1>3, <2>1, <2>3
  <2> QED
    BY <2>2, <2>3
<1>5. \A p, q \in Priorities : \A m \in DOMAIN queues'[p], n \in DOMAIN queues'[q] :
        queues'[p][m] = queues'[q][n] => p = q /\ m = n
  <2> SUFFICES ASSUME NEW p \in Priorities, NEW q \in Priorities,
                      NEW a \in DOMAIN queues'[p], NEW b \in DOMAIN queues'[q],
                      queues'[p][a] = queues'[q][b]
               PROVE  p = q /\ a = b
    OBVIOUS
  <2>1. \/ a \in DOMAIN queues[p] /\ queues'[p][a] = queues[p][a] /\ queues[p][a] # i
        \/ p = P /\ a = Len(queues[P]) + 1 /\ queues'[p][a] = i
    BY <1>4
  <2>2. \/ b \in DOMAIN queues[q] /\ queues'[q][b] = queues[q][b] /\ queues[q][b] # i
        \/ q = P /\ b = Len(queues[P]) + 1 /\ queues'[q][b] = i
    BY <1>4
  <2> QED
    BY <2>1, <2>2 DEF RunOnce
<1>6. \A p \in Priorities : \A n \in DOMAIN queues'[p] : item'[queues'[p][n]] = "queued"
  BY <1>4 DEF RunOnce, TypeOK
<1>7. \A w \in Workers : run'[w] # None => item'[run'[w]] = "running"
  <2> SUFFICES ASSUME NEW w \in Workers, run'[w] # None PROVE item'[run'[w]] = "running"
    OBVIOUS
  <2>1. run'[w] = run[w] /\ run[w] \in Items /\ run[w] # i
    BY DEF TypeOK
  <2> QED
    BY <2>1 DEF RunOnce, TypeOK
<1>8. \A v, w \in Workers : run'[v] = run'[w] /\ run'[w] # None => v = w
  BY DEF RunOnce
<1>9. ~Empty'
  BY <1>1, <1>2, <1>3 DEF Empty
<1> QED
  BY <1>5, <1>6, <1>7, <1>8, <1>9 DEF RunOnce

LEMMA PushStep ==
  ASSUME IInv, NEW i \in Items, Push(i) PROVE IInv'
<1> USE DEF IInv, Push
<1>1. PriorityOf[i] \in Priorities /\ connected /\ connected'
  BY PriorityAssumption DEF Priorities, SenderNeeded
<1>2. \/ At("waiting") = {} /\ worker' = worker
      \/ \E w \in At("waiting") : worker' = [worker EXCEPT ![w] = "woken"]
  OBVIOUS
<1>3. TypeOK'
  <2>1. worker' \in [Workers -> WorkerStates]
    BY <1>2 DEF TypeOK, At, WorkerStates
  <2>2. item' \in [Items -> ItemStates]
    BY DEF TypeOK, ItemStates
  <2>3. queues' \in [Priorities -> Seq(Items)]
    BY <1>1 DEF TypeOK
  <2> QED
    BY <2>1, <2>2, <2>3 DEF TypeOK
<1>4. Left' = Left
  BY <1>2 DEF Left, At, TypeOK
<1>5. ReceiversCounted' /\ RunsSomething'
  BY <1>2, <1>4 DEF ReceiversCounted, RunsSomething, At, TypeOK
<1>6. RunOnce' /\ ~Empty'
  <2>1. \A w \in Workers : run[w] # i
    BY NoneAssumption DEF RunOnce
  <2> QED
    BY <2>1, AppendKeepsUnique
<1>7. SenderNeeded' /\ TakerLives' /\ OneWorkerLeft'
  BY <1>1, <1>4, <1>6 DEF SenderNeeded, TakerLives, OneWorkerLeft, Left, TypeOK
<1>8. NoLostWakeup'
  <2>1. PICK w \in Workers : worker[w] # "ended"
    BY <1>1 DEF OneWorkerLeft
  <2>2. CASE At("waiting") = {} /\ worker' = worker
    BY <2>1, <2>2 DEF At, NoLostWakeup, TypeOK, WorkerStates
  <2>3. CASE \E v \in At("waiting") : worker' = [worker EXCEPT ![v] = "woken"]
    BY <2>3 DEF At, NoLostWakeup, TypeOK
  <2> QED
    BY <1>2, <2>2, <2>3
<1> QED
  BY <1>3, <1>5, <1>6, <1>7, <1>8

LEMMA DropSenderStep ==
  ASSUME IInv, DropSender PROVE IInv'
<1> USE DEF IInv, DropSender
<1>1. TypeOK' /\ ReceiversCounted' /\ RunsSomething' /\ SenderNeeded' /\ TakerLives'
  BY DEF TypeOK, ReceiversCounted, Left, RunsSomething, SenderNeeded, TakerLives
<1>2. RunOnce' /\ NoLostWakeup' /\ OneWorkerLeft'
  BY DEF RunOnce, NoLostWakeup, Empty, OneWorkerLeft
<1> QED
  BY <1>1, <1>2

LEMMA TakeStep ==
  ASSUME IInv, NEW w \in Workers, worker[w] \in {"ready", "woken"},
         NEW p \in Priorities, Take(w, p)
  PROVE  IInv'
<1> DEFINE i == queues[p][Len(queues[p])]
<1> USE DEF IInv
<1>1. queues[p] \in Seq(Items) /\ queues[p] # <<>>
  BY DEF Take, MayTake, TypeOK
<1>2. Len(queues[p]) \in DOMAIN queues[p] /\ i \in Items
  BY <1>1
<1>3. /\ queues' = [queues EXCEPT ![p] = SubSeq(@, 1, Len(@) - 1)]
      /\ run' = [run EXCEPT ![w] = i]
      /\ item' = [item EXCEPT ![i] = "running"]
      /\ worker' = [worker EXCEPT ![w] = "running"]
      /\ taker' = w
      /\ UNCHANGED <<connected, receivers>>
  BY DEF Take
<1>4. SubSeq(queues[p], 1, Len(queues[p]) - 1) \in Seq(Items)
  BY <1>1
<1>5. item[i] = "queued"
  BY <1>2 DEF RunOnce
<1>6. TypeOK'
  BY <1>2, <1>3, <1>4 DEF TypeOK, ItemStates, WorkerStates
<1>7. Left' = Left
  BY <1>3 DEF Left, TypeOK
<1>8. ReceiversCounted' /\ OneWorkerLeft' /\ NoLostWakeup' /\ TakerLives'
  <2>1. ReceiversCounted'
    BY <1>3, <1>7 DEF ReceiversCounted
  <2>2. worker'[w] = "running"
    BY <1>3 DEF TypeOK
  <2>3. NoLostWakeup' /\ TakerLives'
    BY <1>3, <2>2 DEF NoLostWakeup, TakerLives
  <2>4. \A j \in Items : item'[j] # "refused"
    BY <1>2, <1>3 DEF OneWorkerLeft, TypeOK
  <2> QED
    BY <2>1, <2>2, <2>3, <2>4 DEF OneWorkerLeft
<1>9. RunsSomething'
  BY <1>2, <1>3, NoneAssumption DEF RunsSomething, TypeOK
<1>10. SenderNeeded'
  BY <1>2, <1>3, <1>5 DEF SenderNeeded
<1>11. RunOnce'
  <2>1. \A q \in Priorities : \A n \in DOMAIN queues'[q] :
          /\ n \in DOMAIN queues[q]
          /\ queues'[q][n] = queues[q][n]
          /\ queues[q][n] # i
          /\ queues[q][n] \in Items
    <3> TAKE q \in Priorities
    <3> TAKE n \in DOMAIN queues'[q]
    <3>1. queues[q] \in Seq(Items)
      BY DEF TypeOK
    <3>2. CASE q = p
      <4>1. n \in 1..(Len(queues[p]) - 1) /\ queues'[q][n] = queues[p][n]
        BY <1>1, <1>3, <3>2 DEF TypeOK
      <4> QED
        BY <1>1, <1>2, <4>1, <3>2 DEF RunOnce
    <3>3. CASE q # p
      <4>1. queues'[q] = queues[q]
        BY <1>3, <3>3 DEF TypeOK
      <4> QED
        BY <1>2, <3>1, <3>3, <4>1 DEF RunOnce
    <3> QED
      BY <3>2, <3>3
  <2>2. \A v \in Workers : run[v] # i
    BY <1>2, <1>5, NoneAssumption DEF RunOnce
  <2>3. \A v \in Workers : run'[v] = IF v = w THEN i ELSE run[v]
    BY <1>3 DEF TypeOK
  <2>4. \A q, r \in Priorities : \A a \in DOMAIN queues'[q], b \in DOMAIN queues'[r] :
          queues'[q][a] = queues'[r][b] => q = r /\ a = b
    BY <2>1 DEF RunOnce
  <2>5. \A q \in Priorities : \A n \in DOMAIN queues'[q] : item'[queues'[q][n]] = "queued"
    BY <1>3, <2>1 DEF RunOnce, TypeOK
  <2>6. \A v \in Workers : run'[v] # None => item'[run'[v]] = "running"
    <3> SUFFICES ASSUME NEW v \in Workers, run'[v] # None PROVE item'[run'[v]] = "running"
      OBVIOUS
    <3>1. CASE v = w
      BY <1>2, <1>3, <2>3, <3>1 DEF TypeOK
    <3>2. CASE v # w
      <4>1. run'[v] = run[v] /\ run[v] \in Items
        BY <2>3, <3>2 DEF TypeOK
      <4> QED
        BY <1>3, <2>2, <4>1 DEF RunOnce, TypeOK
    <3> QED
      BY <3>1, <3>2
  <2>7. \A u, v \in Workers : run'[u] = run'[v] /\ run'[v] # None => u = v
    BY <2>2, <2>3 DEF RunOnce
  <2> QED
    BY <2>4, <2>5, <2>6, <2>7 DEF RunOnce
<1> QED
  BY <1>6, <1>8, <1>9, <1>10, <1>11

\* A worker ends when the queues are empty, and another one stays as long as
\* the sender is connected.
LEMMA EndStep ==
  ASSUME IInv, NEW w \in Workers, worker[w] \in {"ready", "woken"}, Empty,
         connected => worker[w] = "woken", End(w)
  PROVE  IInv'
<1> USE DEF IInv, End
<1>1. worker' = [worker EXCEPT ![w] = "ended"] /\ receivers' = receivers - 1
  OBVIOUS
<1>2. Left' = Left \ {w} /\ w \in Left
  BY DEF Left, TypeOK
<1>3. ReceiversCounted' /\ receivers' \in Nat
  <2>1. IsFiniteSet(Left)
    BY WorkersAssumption, FS_Subset DEF Left
  <2>2. Cardinality(Left') = Cardinality(Left) - 1
    BY <1>2, <2>1, FS_RemoveElement
  <2>3. Cardinality(Left') \in Nat
    BY <1>2, <2>1, FS_CardinalityType, FS_RemoveElement
  <2> QED
    BY <1>1, <2>2, <2>3 DEF ReceiversCounted
<1>4. TypeOK'
  BY <1>3 DEF TypeOK, WorkerStates
<1>5. RunsSomething' /\ SenderNeeded' /\ RunOnce'
  BY DEF RunsSomething, SenderNeeded, RunOnce, TypeOK
<1>6. Empty'
  BY DEF Empty
<1>7. connected => taker \in Workers /\ taker # w
                   /\ worker[taker] \in {"ready", "waiting", "running"}
  BY DEF TakerLives, At
<1>8. TakerLives' /\ NoLostWakeup' /\ OneWorkerLeft'
  BY <1>6, <1>7 DEF TakerLives, NoLostWakeup, OneWorkerLeft, TypeOK
<1> QED
  BY <1>3, <1>4, <1>5, <1>8

LEMMA WaitStep ==
  ASSUME IInv, NEW w \in Workers, worker[w] = "ready", Empty, connected,
         worker' = [worker EXCEPT ![w] = "waiting"],
         UNCHANGED <<queues, connected, receivers, run, item, taker>>
  PROVE  IInv'
<1> USE DEF IInv
<1>1. TypeOK'
  BY DEF TypeOK, WorkerStates
<1>2. Left' = Left
  BY DEF Left, TypeOK
<1>3. ReceiversCounted' /\ RunsSomething' /\ SenderNeeded' /\ RunOnce'
  BY <1>2 DEF ReceiversCounted, RunsSomething, SenderNeeded, RunOnce, TypeOK
<1>4. Empty' /\ NoLostWakeup' /\ OneWorkerLeft'
  BY <1>2 DEF Empty, NoLostWakeup, OneWorkerLeft, Left, TypeOK
<1>5. TakerLives'
  BY DEF TakerLives, At, TypeOK, Empty
<1> QED
  BY <1>1, <1>3, <1>4, <1>5

LEMMA DoneStep ==
  ASSUME IInv, NEW w \in Workers, Done(w) PROVE IInv'
<1> DEFINE i == run[w]
<1> USE DEF IInv
<1>1. worker[w] = "running" /\ i \in Items /\ item[i] = "running" /\ connected
  BY DEF Done, RunsSomething, TypeOK, RunOnce, SenderNeeded
<1>2. run' = [run EXCEPT ![w] = None] /\ UNCHANGED <<connected, receivers, taker>>
  BY DEF Done
<1>3. \A v \in Workers : run'[v] # i /\ (run'[v] = run[v] \/ run'[v] = None)
  BY <1>1, <1>2, NoneAssumption DEF RunOnce, TypeOK
<1>4. /\ item' = [item EXCEPT ![i] = "done"]
      /\ worker' = [worker EXCEPT ![w] = "ready"]
      /\ UNCHANGED queues
  BY DEF Done
<1>5. TypeOK'
  BY <1>1, <1>2, <1>4 DEF TypeOK, ItemStates, WorkerStates
<1>6. Left' = Left
  BY <1>1, <1>4 DEF Left, TypeOK
<1>7. ReceiversCounted' /\ RunsSomething' /\ SenderNeeded'
  BY <1>1, <1>2, <1>4, <1>6 DEF ReceiversCounted, RunsSomething, SenderNeeded, TypeOK
<1>8. NoLostWakeup' /\ OneWorkerLeft' /\ TakerLives'
  <2>1. worker'[w] = "ready"
    BY <1>4 DEF TypeOK
  <2>2. \A j \in Items : item'[j] # "refused"
    BY <1>1, <1>4 DEF OneWorkerLeft, TypeOK
  <2>3. At("woken")' = At("woken") /\ Empty' = Empty
    BY <1>1, <1>4 DEF At, TypeOK, Empty
  <2>4. TakerLives'
    BY <1>2, <1>4, <2>3 DEF TakerLives, TypeOK
  <2> QED
    BY <2>1, <2>2, <2>4 DEF NoLostWakeup, OneWorkerLeft
<1>9. RunOnce'
  <2>1. \A v \in Workers : run'[v] # None => run'[v] = run[v] /\ run[v] \in Items
    BY <1>3 DEF TypeOK
  <2>2. \A v \in Workers : run'[v] # None => item'[run'[v]] = "running"
    BY <1>1, <1>3, <1>4, <2>1 DEF RunOnce, TypeOK
  <2>3. \A p \in Priorities : \A n \in DOMAIN queues[p] : queues[p][n] \in Items
    BY DEF TypeOK
  <2>4. \A p \in Priorities : \A n \in DOMAIN queues[p] : item'[queues[p][n]] = "queued"
    BY <1>1, <1>4, <2>3 DEF RunOnce, TypeOK
  <2> QED
    BY <1>4, <2>1, <2>2, <2>4 DEF RunOnce
<1> QED
  BY <1>5, <1>7, <1>8, <1>9

LEMMA AgainStep ==
  ASSUME IInv, NEW w \in Workers, Again(w) PROVE IInv'
<1> DEFINE i == run[w]
<1> USE DEF IInv
<1>1. worker[w] = "running" /\ i \in Items /\ item[i] = "running" /\ connected
  BY DEF Again, RunsSomething, TypeOK, RunOnce, SenderNeeded
<1>2. run' = [run EXCEPT ![w] = None] /\ UNCHANGED <<connected, receivers, taker>>
  BY DEF Again
<1>3. \A v \in Workers : run'[v] # i /\ (run'[v] = run[v] \/ run'[v] = None)
  BY <1>1, <1>2, NoneAssumption DEF RunOnce, TypeOK
<1>4. /\ item' = [item EXCEPT ![i] = "queued"]
      /\ queues' = [queues EXCEPT ![PriorityOf[i]] = Append(@, i)]
      /\ \/ worker' = [worker EXCEPT ![w] = "ready"]
         \/ \E v \in At("waiting") :
              worker' = [worker EXCEPT ![w] = "ready", ![v] = "woken"]
  BY DEF Again
<1>5. PriorityOf[i] \in Priorities
  BY <1>1, PriorityAssumption DEF Priorities
<1>6. worker' \in [Workers -> WorkerStates] /\ worker'[w] = "ready"
  BY <1>1, <1>4 DEF TypeOK, WorkerStates, At
<1>7. \A v \in Workers : worker'[v] = "ended" <=> worker[v] = "ended"
  BY <1>1, <1>4 DEF TypeOK, At
<1>8. \A v \in Workers : worker'[v] = "running" <=> worker[v] = "running" /\ v # w
  BY <1>1, <1>4 DEF TypeOK, At
<1>9. TypeOK'
  BY <1>1, <1>2, <1>4, <1>5, <1>6 DEF TypeOK, ItemStates
<1>10. ReceiversCounted' /\ RunsSomething' /\ SenderNeeded'
  <2>1. Left' = Left
    BY <1>7 DEF Left
  <2> QED
    BY <1>1, <1>2, <1>8, <2>1 DEF ReceiversCounted, RunsSomething, SenderNeeded, TypeOK
<1>11. RunOnce' /\ ~Empty'
  BY <1>1, <1>3, <1>4, AppendKeepsUnique
<1>12. TakerLives' /\ NoLostWakeup'
  BY <1>6, <1>11 DEF TakerLives, NoLostWakeup
<1>13. OneWorkerLeft'
  BY <1>1, <1>4, <1>6 DEF OneWorkerLeft, TypeOK
<1> QED
  BY <1>9, <1>10, <1>11, <1>12, <1>13

-----------------------------------------------------------------------------
LEMMA NextIInv == IInv /\ [Next]_vars => IInv'
<1> SUFFICES ASSUME IInv, [Next]_vars PROVE IInv'
  OBVIOUS
<1>1. ASSUME NEW i \in Items, SendCheck(i) \/ Push(i) PROVE IInv'
  BY <1>1, SendCheckStep, PushStep
<1>2. CASE DropSender
  BY <1>2, DropSenderStep
<1>3. ASSUME NEW w \in Workers, Recv(w) \/ Wake(w) PROVE IInv'
  BY <1>3, TakeStep DEF Recv, Wake
<1>4. ASSUME NEW w \in Workers, RecvEmpty(w) PROVE IInv'
  BY <1>4, EndStep, WaitStep DEF RecvEmpty
<1>5. ASSUME NEW w \in Workers, WakeForNothing(w) PROVE IInv'
  BY <1>5, NoneMeansEmpty, EndStep DEF WakeForNothing
<1>6. ASSUME NEW w \in Workers, Done(w) \/ Again(w) PROVE IInv'
  BY <1>6, DoneStep, AgainStep
<1>7. CASE UNCHANGED vars
  <2>1. TypeOK' /\ ReceiversCounted' /\ RunsSomething' /\ SenderNeeded' /\ TakerLives'
    BY <1>7 DEF vars, IInv, TypeOK, ReceiversCounted, Left, RunsSomething,
                SenderNeeded, TakerLives, Empty, At
  <2>2. RunOnce' /\ NoLostWakeup' /\ OneWorkerLeft'
    BY <1>7 DEF vars, IInv, RunOnce, NoLostWakeup, OneWorkerLeft, Empty
  <2> QED
    BY <2>1, <2>2 DEF IInv
<1> QED
  BY <1>1, <1>2, <1>3, <1>4, <1>5, <1>6, <1>7 DEF Next, WorkerStep

THEOREM Invariance == Spec => []IInv
BY InitIInv, NextIInv, PTL DEF Spec

\* Type correctness of the queue and its workers.
THEOREM TypeCorrect == Spec => []TypeOK
BY Invariance, PTL DEF IInv

\* However sends, stolen wake-ups and rescheduling interleave, a runnable of
\* src/src/queue.rs is in one place, and no two workers run the same one.
THEOREM RunsOnce == Spec => []RunOnce
BY Invariance, PTL DEF IInv

\* send followed by notify_one loses no wake-up: while something is queued, not
\* all the workers wait in the condition variable.
THEOREM NeverLost == Spec => []NoLostWakeup
BY Invariance, PTL DEF IInv

\* Stolen wake-ups end workers, but never the last: receiver_count does not fall
\* to zero while the dispatcher lives, so dispatch does not panic.
THEOREM LastWorkerStays == Spec => []OneWorkerLeft
BY Invariance, PTL DEF IInv

-----------------------------------------------------------------------------
(* MainLoop.                                                               *)

\* Without a sender, and while its drop is under way, nothing is on its way.
NothingAfterDrop ==
  sender # "there" =>
    /\ owed = {}
    /\ \A r \in Runnables : sent[r] \in {"new", "done"}

MainInv == MainTypeOK /\ NothingAfterDrop /\ InOnePlace /\ NoLostPing /\ RemovedWhenOver

-----------------------------------------------------------------------------
LEMMA MainInitInv == MainInit => MainInv
<1> SUFFICES ASSUME MainInit PROVE MainInv
  OBVIOUS
<1>1. MainTypeOK
  <2>1. idle \in Seq(Runnables)
    BY DEF MainInit
  <2> QED BY <2>1 DEF MainInit, MainTypeOK, InTask
<1>2. NothingAfterDrop /\ NoLostPing /\ RemovedWhenOver
  BY DEF MainInit, NothingAfterDrop, NoLostPing, RemovedWhenOver
<1>3. QueueExact /\ OneRuns
  BY DEF MainInit, QueueExact, OneRuns, InTask
<1>4. IdleExact
  <2>1. DOMAIN idle = {} /\ \A r \in Runnables : sent[r] # "idle"
    BY DEF MainInit
  <2> QED BY <2>1 DEF IdleExact
<1> QED BY <1>1, <1>2, <1>3, <1>4 DEF MainInv, InOnePlace

LEMMA CurrentRuns ==
  ASSUME MainInv, main \in InTask
  PROVE  Current \in Runnables /\ sent[Current] = "running"
BY DEF MainInv, InOnePlace, OneRuns, Current

-----------------------------------------------------------------------------
(* What senders do.                                                        *)

LEMMA SendSteps ==
  ASSUME MainInv, NEW r \in Runnables, DispatchAfter(r) \/ SendStep(r)
  PROVE  MainInv'
<1> USE DEF queueVars, loopVars, blockVars
<1>1. MainTypeOK'
  <2>1. CASE DispatchAfter(r)
    BY <2>1 DEF DispatchAfter, MainInv, MainTypeOK, InTask
  <2>2. CASE SendCheckMain(r)
    BY <2>2 DEF SendCheckMain, MainInv, MainTypeOK, InTask
  <2>3. CASE PushMain(r)
    BY <2>3 DEF PushMain, MainInv, MainTypeOK, InTask
  <2>4. CASE Ping(r)
    BY <2>4 DEF Ping, MainInv, MainTypeOK, InTask
  <2> QED BY <2>1, <2>2, <2>3, <2>4 DEF SendStep
<1>2. CASE DispatchAfter(r)
  BY <1>1, <1>2 DEF DispatchAfter, MainInv, MainTypeOK, NothingAfterDrop, InOnePlace, QueueExact,
                    IdleExact, OneRuns, NoLostPing, RemovedWhenOver
<1>3. CASE SendCheckMain(r)
  BY <1>1, <1>3 DEF SendCheckMain, MainInv, MainTypeOK, NothingAfterDrop, InOnePlace, QueueExact,
                    IdleExact, OneRuns, NoLostPing, RemovedWhenOver
<1>4. CASE PushMain(r)
  <2>1. NothingAfterDrop' /\ NoLostPing' /\ RemovedWhenOver'
    BY <1>4 DEF PushMain, MainInv, MainTypeOK, NothingAfterDrop, NoLostPing, RemovedWhenOver
  <2>2. InOnePlace'
    BY <1>4 DEF PushMain, MainInv, MainTypeOK, InOnePlace, QueueExact, IdleExact, OneRuns
  <2> QED BY <1>1, <2>1, <2>2 DEF MainInv
<1>5. CASE Ping(r)
  BY <1>1, <1>5 DEF Ping, MainInv, MainTypeOK, NothingAfterDrop, InOnePlace, QueueExact,
                    IdleExact, OneRuns, NoLostPing, RemovedWhenOver
<1> QED BY <1>2, <1>3, <1>4, <1>5 DEF SendStep

LEMMA DropSteps ==
  ASSUME MainInv, DropMainSender \/ SenderGone
  PROVE  MainInv'
<1> USE DEF DropMainSender, SenderGone, loopVars, blockVars
<1>1. MainTypeOK'
  BY ZenonT(30) DEF MainInv, MainTypeOK, InTask
<1>2. NothingAfterDrop'
  BY DEF MainInv, NothingAfterDrop
<1>3. InOnePlace'
  BY DEF MainInv, InOnePlace, QueueExact, IdleExact, OneRuns
<1>4. NoLostPing' /\ RemovedWhenOver'
  BY DEF MainInv, NoLostPing, RemovedWhenOver
<1> QED BY <1>1, <1>2, <1>3, <1>4 DEF MainInv

-----------------------------------------------------------------------------
(* The main thread.                                                        *)

LEMMA TakeRunnableStep ==
  ASSUME MainInv, NEW r \in Runnables, TakeRunnable(r) PROVE MainInv'
<1>1. sent[r] = "queued"
  BY DEF TakeRunnable, MainInv, InOnePlace, QueueExact
<1>2. MainTypeOK'
  <2>1. idle' \in Seq(Runnables)
    BY DEF TakeRunnable, MainInv, MainTypeOK
  <2> QED BY <2>1 DEF TakeRunnable, MainInv, MainTypeOK, InTask, blockVars
<1>3. NothingAfterDrop' /\ NoLostPing' /\ RemovedWhenOver'
  BY <1>1 DEF TakeRunnable, MainInv, MainTypeOK, NothingAfterDrop, NoLostPing, RemovedWhenOver
<1>4. QueueExact' /\ OneRuns'
  BY <1>1 DEF TakeRunnable, MainInv, MainTypeOK, InOnePlace, QueueExact, OneRuns, InTask
<1>5. IdleExact'
  <2>1. /\ idle \in Seq(Runnables)
        /\ idle' = Append(idle, r)
        /\ \A n \in DOMAIN idle : idle[n] # r
    BY <1>1 DEF TakeRunnable, MainInv, MainTypeOK, InOnePlace, IdleExact
  <2>2. /\ DOMAIN idle' = DOMAIN idle \cup {Len(idle) + 1}
        /\ \A n \in DOMAIN idle : idle'[n] = idle[n]
        /\ idle'[Len(idle) + 1] = r
        /\ Len(idle) + 1 \notin DOMAIN idle
    BY <2>1
  <2>3. \A q \in Runnables : sent'[q] = IF q = r THEN "idle" ELSE sent[q]
    BY DEF TakeRunnable, MainInv, MainTypeOK
  <2> QED
    BY <2>1, <2>2, <2>3 DEF MainInv, InOnePlace, IdleExact
<1> QED BY <1>2, <1>3, <1>4, <1>5 DEF MainInv, InOnePlace

LEMMA RunIdleStep ==
  ASSUME MainInv, RunIdle PROVE MainInv'
<1> DEFINE r == Head(idle)
<1>1. /\ idle \in Seq(Runnables) /\ idle # <<>>
      /\ r = idle[1] /\ r \in Runnables
      /\ 1 \in DOMAIN idle
  BY DEF RunIdle, MainInv, MainTypeOK
<1>2. sent[r] = "idle"
  BY <1>1 DEF MainInv, InOnePlace, IdleExact
<1>3. \A q \in Runnables : sent'[q] = IF q = r THEN "running" ELSE sent[q]
  BY <1>1 DEF RunIdle, MainInv, MainTypeOK
<1>4. MainTypeOK'
  BY <1>1 DEF RunIdle, MainInv, MainTypeOK, InTask, blockVars
<1>5. NothingAfterDrop' /\ NoLostPing' /\ RemovedWhenOver'
  BY <1>1, <1>2, <1>3 DEF RunIdle, MainInv, NothingAfterDrop, NoLostPing, RemovedWhenOver
<1>6. QueueExact' /\ OneRuns'
  BY <1>1, <1>2, <1>3 DEF RunIdle, MainInv, InOnePlace, QueueExact, OneRuns, InTask
<1>7. IdleExact'
  <2>1. /\ idle' = Tail(idle)
        /\ \A n \in DOMAIN idle' : n + 1 \in DOMAIN idle /\ idle'[n] = idle[n + 1]
        /\ \A n \in DOMAIN idle : n = 1 \/ (n - 1 \in DOMAIN idle' /\ idle'[n - 1] = idle[n])
        /\ \A n \in DOMAIN idle' : n \in Nat \ {0}
    BY <1>1 DEF RunIdle
  <2>2. \A m, n \in DOMAIN idle : idle[m] = idle[n] => m = n
    BY DEF MainInv, InOnePlace, IdleExact
  <2>3. \A n \in DOMAIN idle' : idle'[n] # r
    BY <1>1, <2>1, <2>2
  <2>4. ASSUME NEW m \in DOMAIN idle', NEW n \in DOMAIN idle', idle'[m] = idle'[n]
        PROVE  m = n
    BY <2>1, <2>2, <2>4
  <2>5. ASSUME NEW q \in Runnables
        PROVE  sent'[q] = "idle" <=> \E n \in DOMAIN idle' : idle'[n] = q
    <3>1. sent'[q] = "idle" <=> q # r /\ sent[q] = "idle"
      BY <1>3
    <3>2. sent[q] = "idle" <=> \E n \in DOMAIN idle : idle[n] = q
      BY DEF MainInv, InOnePlace, IdleExact
    <3>3. ASSUME q # r, NEW n \in DOMAIN idle, idle[n] = q
          PROVE  \E k \in DOMAIN idle' : idle'[k] = q
      BY <1>1, <2>1, <3>3
    <3>4. ASSUME NEW n \in DOMAIN idle', idle'[n] = q
          PROVE  q # r /\ \E k \in DOMAIN idle : idle[k] = q
      BY <2>1, <2>3, <3>4
    <3> HIDE DEF r
    <3> QED BY <3>1, <3>2, <3>3, <3>4
  <2> QED BY <2>4, <2>5 DEF IdleExact
<1> QED BY <1>4, <1>5, <1>6, <1>7 DEF MainInv, InOnePlace

LEMMA LoopSteps ==
  ASSUME MainInv, ProcessEvents \/ EndProcess \/ EndTurn \/ Return \/ Quit
  PROVE  MainInv'
<1> USE DEF queueVars, loopVars, blockVars
<1>1. CASE ProcessEvents
  BY <1>1 DEF ProcessEvents, MainInv, MainTypeOK, NothingAfterDrop, InOnePlace, QueueExact,
              IdleExact, OneRuns, NoLostPing, RemovedWhenOver, InTask
<1>2. CASE EndProcess
  BY <1>2 DEF EndProcess, MainInv, MainTypeOK, NothingAfterDrop, InOnePlace, QueueExact,
              IdleExact, OneRuns, NoLostPing, RemovedWhenOver, InTask
<1>3. CASE EndTurn
  BY <1>3 DEF EndTurn, MainInv, MainTypeOK, NothingAfterDrop, InOnePlace, QueueExact,
              IdleExact, OneRuns, NoLostPing, RemovedWhenOver, InTask
<1>4. CASE Return
  BY <1>4, CurrentRuns DEF Return, MainInv, MainTypeOK, NothingAfterDrop, InOnePlace, QueueExact,
              IdleExact, OneRuns, NoLostPing, RemovedWhenOver, InTask
<1>5. CASE Quit
  BY <1>5 DEF Quit, MainInv, MainTypeOK, NothingAfterDrop, InOnePlace, QueueExact,
              IdleExact, OneRuns, NoLostPing, RemovedWhenOver, InTask
<1> QED BY <1>1, <1>2, <1>3, <1>4, <1>5

\* Blocking moves no runnable.
LEMMA BlockSteps ==
  ASSUME MainInv,
         Block \/ BlockOk \/ BlockPending \/ Unpark \/ ParkTimeout
           \/ Tick \/ Answer \/ WakeParked
  PROVE  MainInv'
<1> USE DEF queueVars, loopVars, blockVars
<1>1. /\ UNCHANGED <<sent, queue, owed, sender, pinged, source, idle, empty>>
      /\ main' = main \/ (main \in InTask /\ main' \in InTask)
  BY DEF Block, BlockOk, BlockPending, Unpark, ParkTimeout, Tick, Answer, WakeParked, InTask
<1>2. MainTypeOK'
  BY DEF Block, BlockOk, BlockPending, Unpark, ParkTimeout, Tick, Answer, WakeParked,
         InTask, MainInv, MainTypeOK
<1> QED
  BY <1>1, <1>2 DEF MainInv, NothingAfterDrop, InOnePlace, QueueExact,
              IdleExact, OneRuns, NoLostPing, RemovedWhenOver, InTask

LEMMA MainNextInv == MainInv /\ [MainNext]_mainVars => MainInv'
<1> SUFFICES ASSUME MainInv, [MainNext]_mainVars PROVE MainInv'
  OBVIOUS
<1>1. CASE UNCHANGED mainVars
  BY <1>1 DEF mainVars, MainInv, MainTypeOK, NothingAfterDrop, InOnePlace, QueueExact,
              IdleExact, OneRuns, NoLostPing, RemovedWhenOver, InTask
<1>2. CASE MainNext
  BY <1>2, SendSteps, DropSteps, TakeRunnableStep, RunIdleStep, LoopSteps, BlockSteps
     DEF MainNext, MainStep
<1> QED BY <1>1, <1>2

-----------------------------------------------------------------------------
\* The inductive invariant of the main loop of src/src/platform/linux holds.
THEOREM MainInvariance == MainSpec => []MainInv
BY MainInitInv, MainNextInv, PTL DEF MainSpec

\* Type correctness of the main loop.
THEOREM MainTypeCorrect == MainSpec => []MainTypeOK
BY MainInvariance, PTL DEF MainInv

\* The queue, the idle callbacks and the running task share no runnable of
\* src/src/platform/linux/dispatcher.rs, and one task runs at a time.
THEOREM OnePlace == MainSpec => []InOnePlace
BY MainInvariance, PTL DEF MainInv

\* However pushes, pings and process_events interleave, what is queued is found.
THEOREM PingsArrive == MainSpec => []NoLostPing
BY MainInvariance, PTL DEF MainInv

\* The source of the main queue leaves the loop when nothing can come any more.
THEOREM RemovedLast == MainSpec => []RemovedWhenOver
BY MainInvariance, PTL DEF MainInv

\* The three together: what the run of the main loop checks of its queue.
THEOREM Served == MainSpec => []QueueServed
BY MainInvariance, PTL DEF MainInv, QueueServed

-----------------------------------------------------------------------------
(* ScopedTasks.                                                            *)

\* A child that is being polled, or is about to notify, is so on one thread.
PolledByOne ==
  /\ \A t \in Threads, p \in Parents :
       doing[t] = <<"child", p>> => child[p] \in {"running", "notifying"}
  /\ \A s, t \in Threads, p \in Parents :
       doing[s] = <<"child", p>> /\ doing[t] = <<"child", p>> => s = t

\* The parent is told that it may go on only when the future of the child and what
\* it borrowed are gone.
ToldLast ==
  \A p \in done : child[p] = "gone" \/ (child[p] = "notifying" /\ p \notin InScope)

\* A child that may be polled again has polls left.
PollsLeft ==
  \A p \in Parents : child[p] \in {"none", "scheduled", "idle"} => polls[p] < MaxPolls

ScopeInv == ScopeTypeOK /\ PollsLeft /\ PolledByOne /\ ToldLast /\ EnvironmentOutlives

-----------------------------------------------------------------------------
LEMMA ScopeInitInv == ScopeInit => ScopeInv
<1> SUFFICES ASSUME ScopeInit PROVE ScopeInv
  OBVIOUS
<1>1. ScopeTypeOK
  BY MaxPollsAssumption DEF ScopeInit, ScopeTypeOK
<1>2. PollsLeft /\ PolledByOne /\ ToldLast /\ EnvironmentOutlives
  <2>1. \A p : Idle # <<"child", p>>
    BY NothingAssumption DEF Idle
  <2> QED
    BY <2>1, MaxPollsAssumption DEF ScopeInit, PollsLeft, PolledByOne, ToldLast, EnvironmentOutlives
<1> QED
  BY <1>1, <1>2 DEF ScopeInv

\* The steps of a parent neither begin nor end a poll: PolledByOne stays.
LEMMA ParentSteps ==
  ASSUME ScopeInv, NEW t \in Threads, NEW p \in Parents,
         \/ StartChild(t, p) \/ Resume(t, p)
         \/ DropParent(t, p) \/ Sleep(t, p) \/ EndWait(t, p)
  PROVE  ScopeInv'
<1> USE NothingAssumption DEF ScopeInv, ScopeTypeOK, PollsLeft, PolledByOne, ToldLast, EnvironmentOutlives, Idle
<1>1. CASE StartChild(t, p)
  BY <1>1 DEF StartChild
<1>2. CASE Resume(t, p)
  BY <1>2 DEF Resume
<1>3. CASE DropParent(t, p) /\ child[p] = "none"
  BY <1>3 DEF DropParent
<1>4. CASE DropParent(t, p) /\ child[p] # "none"
  <2>1. ScopeTypeOK'
    BY <1>4 DEF DropParent
  <2>2. PolledByOne'
    <3>1. doing' = [doing EXCEPT ![t] = <<"wait", p>>] /\ t \in DOMAIN doing
      BY <1>4 DEF DropParent
    <3>2. \A u \in Threads, q \in Parents :
            doing'[u] = <<"child", q>> => doing[u] = <<"child", q>>
      BY <3>1
    <3>3. \A q \in Parents : child[q] \in {"running", "notifying"} => child'[q] = child[q]
      BY <1>4 DEF DropParent
    <3> QED
      BY <3>2, <3>3
  <2>3. PollsLeft' /\ ToldLast' /\ EnvironmentOutlives'
    BY <1>4 DEF DropParent
  <2> QED
    BY <2>1, <2>2, <2>3
<1>5. CASE Sleep(t, p)
  BY <1>5 DEF Sleep
<1>6. CASE EndWait(t, p)
  <2>1. child[p] = "gone" \/ (child[p] = "notifying" /\ p \notin InScope)
    BY <1>6 DEF EndWait
  <2> QED
    BY <1>6, <2>1 DEF EndWait
<1> QED
  BY <1>1, <1>2, <1>3, <1>4, <1>5, <1>6 DEF DropParent

\* A child that ends on the one thread that has it may tell its parent.
LEMMA FinishStep ==
  ASSUME ScopeInv, NEW t \in Threads, NEW p \in Parents, Finish(t, p),
         UNCHANGED <<closed, dismissed, polls>>,
         \/ doing[t] = <<"child", p>> /\ child[p] = "running"
         \/ doing[t] = Idle /\ child[p] = "scheduled"
  PROVE  ScopeInv'
<1> USE NothingAssumption DEF ScopeInv, ScopeTypeOK, PollsLeft, PolledByOne, ToldLast, EnvironmentOutlives, Idle
<1>1. \A u \in Threads : doing[u] = <<"child", p>> => u = t
  OBVIOUS
<1>2. CASE p \in InScope
  BY <1>1, <1>2 DEF Finish
<1>3. CASE p \notin InScope
  <2>1. /\ child' = [child EXCEPT ![p] = "notifying"]
        /\ doing' = [doing EXCEPT ![t] = <<"child", p>>]
        /\ done' = done \cup {p}
        /\ parent' = parent
    BY <1>3 DEF Finish
  <2>2. ScopeTypeOK'
    BY <2>1
  <2>3. PolledByOne'
    BY <1>1, <2>1
  <2>4. PollsLeft' /\ ToldLast' /\ EnvironmentOutlives'
    BY <1>3, <2>1
  <2> QED
    BY <2>2, <2>3, <2>4
<1> QED
  BY <1>2, <1>3

LEMMA PoolSteps ==
  ASSUME ScopeInv, NEW t \in PoolThreads, NEW p \in Parents,
         BeginPoll(t, p) \/ EndPoll(t, p) \/ DropChild(t, p) \/ Notify(t, p)
  PROVE  ScopeInv'
<1> USE NothingAssumption DEF ScopeInv, ScopeTypeOK, PollsLeft, PolledByOne, ToldLast, EnvironmentOutlives, Idle
<1>1. t \in Threads
  BY DEF Threads
<1>2. CASE BeginPoll(t, p)
  <2>1. polls[p] + 1 \in 0..MaxPolls
    BY <1>2, MaxPollsAssumption DEF BeginPoll
  <2> QED
    BY <1>1, <1>2, <2>1 DEF BeginPoll
<1>3. CASE EndPoll(t, p)
  <2>1. CASE Finish(t, p)
    BY <1>1, <1>3, <2>1, FinishStep DEF EndPoll
  <2>2. CASE ~Finish(t, p)
    BY <1>1, <1>3, <2>2 DEF EndPoll
  <2> QED
    BY <2>1, <2>2
<1>4. CASE DropChild(t, p)
  <2>1. CASE Finish(t, p)
    BY <1>1, <1>4, <2>1, FinishStep DEF DropChild
  <2>2. CASE Vanish(p)
    BY <1>1, <1>4, <2>2 DEF DropChild, Vanish
  <2> QED
    BY <1>4, <2>1, <2>2 DEF DropChild
<1>5. CASE Notify(t, p)
  BY <1>1, <1>5 DEF Notify
<1> QED
  BY <1>2, <1>3, <1>4, <1>5

LEMMA ScopeNextInv == ScopeInv /\ [ScopeNext]_scopeVars => ScopeInv'
<1> SUFFICES ASSUME ScopeInv, [ScopeNext]_scopeVars PROVE ScopeInv'
  OBVIOUS
<1>1. ASSUME NEW p \in Parents, Cancel(p) PROVE ScopeInv'
  BY <1>1 DEF Cancel, ScopeInv, ScopeTypeOK, PollsLeft, PolledByOne, ToldLast, EnvironmentOutlives
<1>2. ASSUME NEW p \in Parents, WakeChild(p) PROVE ScopeInv'
  BY <1>2 DEF WakeChild, ScopeInv, ScopeTypeOK, PollsLeft, PolledByOne, ToldLast, EnvironmentOutlives
<1>3. ASSUME NEW t \in Threads, ThreadStep(t) PROVE ScopeInv'
  BY <1>3, ParentSteps DEF ThreadStep
<1>4. ASSUME NEW t \in PoolThreads, PoolStep(t) PROVE ScopeInv'
  BY <1>4, PoolSteps DEF PoolStep
<1>5. CASE UNCHANGED scopeVars
  BY <1>5 DEF scopeVars, ScopeInv, ScopeTypeOK, PollsLeft, PolledByOne, ToldLast, EnvironmentOutlives
<1> QED
  BY <1>1, <1>2, <1>3, <1>4, <1>5 DEF ScopeNext

THEOREM ScopeInvariance == ScopeSpec => []ScopeInv
BY ScopeInitInv, ScopeNextInv, PTL DEF ScopeSpec

\* Type correctness of the tasks and the threads.
THEOREM ScopeTypeCorrect == ScopeSpec => []ScopeTypeOK
BY ScopeInvariance, PTL DEF ScopeInv

\* However polls, cancellations, drops and notifications interleave, what
\* await_on_background and scoped lend is kept until the future that borrows it is
\* gone; of the frame of await_on_background a child that notifies has the Condvar.
THEOREM ScopeSound == ScopeSpec => []EnvironmentOutlives
BY ScopeInvariance, PTL DEF ScopeInv
=============================================================================

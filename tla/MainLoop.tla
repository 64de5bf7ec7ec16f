------------------------------- MODULE MainLoop -------------------------------
(***************************************************************************)
(* Work for the main thread on Linux: PriorityQueueCalloopSender and        *)
(* PriorityQueueCalloopReceiver (src/src/platform/linux/dispatcher.rs), the *)
(* idle callbacks its clients turn runnables into, the timer thread, and    *)
(* block_with_timeout (src/src/executor.rs) on the main thread.             *)
(*                                                                         *)
(* Calloop is external: a ping makes its source ready until the source is   *)
(* processed, and idle callbacks run in order when the sources of one turn   *)
(* have been.                                                              *)
(***************************************************************************)
EXTENDS Integers, Sequences, FiniteSets

CONSTANTS
  Runnables,  \* what is scheduled, each once
  Delayed,    \* those that go through dispatch_after and the timer thread
  Blocking    \* those whose task blocks, with a timeout, on a background future

ASSUME RunnablesAssumption == Delayed \subseteq Runnables /\ Blocking \subseteq Runnables

VARIABLES
  sent,      \* where each runnable is
  queue,     \* the runnables in the priority queue
  owed,      \* those whose sender has not pinged yet
  pinged,    \* calloop's ping
  sender,    \* the one PriorityQueueCalloopSender: its drop is two steps
  source,    \* whether the receiver is registered; it is gone after the loop
  main,      \* what the main thread does
  idle,      \* calloop's idle callbacks
  empty,     \* process_events: is_empty
  answer,    \* the future that is blocked on: pending, then ready
  token,     \* the parker was unparked
  clock,     \* the time, against the deadline
  result     \* what the last block_with_timeout returned

queueVars == <<sent, queue, owed, sender>>
loopVars == <<source, idle, empty>>
blockVars == <<answer, token, clock, result>>
mainVars == <<sent, queue, owed, sender, pinged, source, idle, empty, main,
          answer, token, clock, result>>

MainInit ==
  /\ sent = [r \in Runnables |-> "new"]
  /\ queue = {} /\ owed = {}
  /\ pinged = FALSE
  /\ sender = "there"
  /\ source = "registered"
  /\ main = "polling"
  /\ idle = <<>>
  /\ empty = TRUE
  /\ answer = "pending" /\ token = FALSE /\ clock = "before" /\ result = "none"

-----------------------------------------------------------------------------
(* Any thread: a task is woken, and its runnable scheduled.                 *)

\* dispatch_after hands the runnable to the timer thread.
DispatchAfter(r) ==
  /\ sent[r] = "new" /\ r \in Delayed
  /\ sender = "there"
  /\ sent' = [sent EXCEPT ![r] = "timing"]
  /\ UNCHANGED <<queue, owed, sender, pinged, main, loopVars, blockVars>>

\* send looks at receiver_count before it takes the lock.  Without a receiver the
\* runnable is forgotten, not dropped.
SendCheckMain(r) ==
  /\ sent[r] = IF r \in Delayed THEN "timing" ELSE "new"
  /\ sender = "there"
  /\ sent' = [sent EXCEPT ![r] = IF source = "gone" THEN "forgotten" ELSE "checked"]
  /\ UNCHANGED <<queue, owed, sender, pinged, main, loopVars, blockVars>>

PushMain(r) ==
  /\ sent[r] = "checked"
  /\ sent' = [sent EXCEPT ![r] = "queued"]
  /\ queue' = queue \cup {r}
  /\ owed' = owed \cup {r}
  /\ UNCHANGED <<sender, pinged, main, loopVars, blockVars>>

Ping(r) ==
  /\ r \in owed
  /\ owed' = owed \ {r}
  /\ pinged' = TRUE
  /\ UNCHANGED <<sent, queue, sender, main, loopVars, blockVars>>

\* The last reference to the dispatcher goes: every runnable has one until its task
\* is done, and so has every send.  Its drop pings before sender_count is decremented.
DropMainSender ==
  /\ sender = "there"
  /\ \A r \in Runnables : sent[r] \in {"new", "done"}
  /\ owed = {}
  /\ sender' = "pinged"
  /\ pinged' = TRUE
  /\ UNCHANGED <<sent, queue, owed, main, loopVars, blockVars>>

SenderGone ==
  /\ sender = "pinged"
  /\ sender' = "gone"
  /\ UNCHANGED <<sent, queue, owed, pinged, main, loopVars, blockVars>>

-----------------------------------------------------------------------------
(* The main thread.                                                        *)

\* Calloop finds the source ready, takes the ping and calls process_events.
ProcessEvents ==
  /\ main = "polling"
  /\ source = "registered"
  /\ pinged
  /\ pinged' = FALSE
  /\ main' = "draining"
  /\ empty' = TRUE
  /\ UNCHANGED <<queueVars, source, idle, blockVars>>

\* TryIter takes a runnable; the client makes it an idle callback.
TakeRunnable(r) ==
  /\ main = "draining"
  /\ r \in queue
  /\ queue' = queue \ {r}
  /\ sent' = [sent EXCEPT ![r] = "idle"]
  /\ idle' = Append(idle, r)
  /\ empty' = FALSE
  /\ UNCHANGED <<owed, sender, pinged, main, source, blockVars>>

\* Mutant of EndProcess: one runnable per event, without another ping.
EndProcessAfterOne ==
  /\ main = "draining"
  /\ queue # {} => ~empty
  /\ source' = IF queue = {} /\ sender = "gone" THEN "removed" ELSE "registered"
  /\ main' = "idling"
  /\ UNCHANGED <<queueVars, pinged, idle, empty, blockVars>>

\* TryIter ends, by an error if there is no sender: then the source is removed.
\* Otherwise it is pinged again unless nothing was found.
EndProcess ==
  /\ main = "draining"
  /\ queue = {}
  /\ source' = IF sender = "gone" THEN "removed" ELSE "registered"
  /\ pinged' = (pinged \/ (sender # "gone" /\ ~empty))
  /\ main' = "idling"
  /\ UNCHANGED <<queueVars, idle, empty, blockVars>>

\* An idle callback runs the runnable: its task is polled.
RunIdle ==
  /\ main = "idling"
  /\ idle # <<>>
  /\ idle' = Tail(idle)
  /\ sent' = [sent EXCEPT ![Head(idle)] = "running"]
  /\ main' = "running"
  /\ UNCHANGED <<queue, owed, sender, pinged, source, empty, blockVars>>

EndTurn ==
  /\ main = "idling"
  /\ idle = <<>>
  /\ main' = "polling"
  /\ UNCHANGED <<queueVars, pinged, loopVars, blockVars>>

\* The runnable that runs.
Current == CHOOSE r \in Runnables : sent[r] = "running"

\* It returns.
Return ==
  /\ main = "running"
  /\ sent' = [sent EXCEPT ![Current] = "done"]
  /\ main' = "idling"
  /\ UNCHANGED <<queue, owed, sender, pinged, loopVars, blockVars>>

\* The loop was stopped; the receiver goes with it.
Quit ==
  /\ main = "polling"
  /\ main' = "ended"
  /\ source' = "gone"
  /\ UNCHANGED <<queueVars, pinged, idle, empty, blockVars>>

-----------------------------------------------------------------------------
(* block_internal with a timeout, called by the runnable that runs.         *)

Block ==
  /\ main = "running" /\ Current \in Blocking
  /\ result = "none"
  /\ main' = "polled"
  /\ UNCHANGED <<queueVars, pinged, loopVars, blockVars>>

\* The future is ready.
BlockOk ==
  /\ main = "polled" /\ answer # "pending"
  /\ result' = "ok"
  /\ main' = "running"
  /\ UNCHANGED <<queueVars, pinged, loopVars, answer, token, clock>>

\* It is not; its waker is set, and the thread about to park.
BlockPending ==
  /\ main = "polled" /\ answer = "pending"
  /\ main' = "parked"
  /\ UNCHANGED <<queueVars, pinged, loopVars, blockVars>>

\* park_timeout returns true, and the future is polled again.
Unpark ==
  /\ main = "parked" /\ token
  /\ token' = FALSE
  /\ main' = "polled"
  /\ UNCHANGED <<queueVars, pinged, loopVars, answer, clock, result>>

\* Mutant of ParkTimeout: park without a timeout.
ParkForever ==
  /\ main = "parked" /\ token
  /\ token' = FALSE
  /\ main' = "polled"
  /\ UNCHANGED <<queueVars, pinged, loopVars, answer, clock, result>>

\* park_timeout returns false: the future is returned if the deadline is past, and
\* polled again otherwise.
ParkTimeout ==
  /\ main = "parked" /\ ~token
  /\ clock # "before"
  /\ \/ clock = "after" /\ main' = "running" /\ result' = "timeout"
     \/ clock = "at" /\ main' = "polled" /\ UNCHANGED result
  /\ UNCHANGED <<queueVars, pinged, loopVars, answer, token, clock>>

Tick ==
  /\ main \in {"polled", "parked"}
  /\ \/ clock = "before" /\ clock' = "at"
     \/ clock = "at" /\ clock' = "after"
  /\ UNCHANGED <<queueVars, pinged, main, loopVars, answer, token, result>>

\* A background thread completes the future, then wakes who waits for it.
Answer ==
  /\ answer = "pending"
  /\ answer' = "ready"
  /\ UNCHANGED <<queueVars, pinged, main, loopVars, token, clock, result>>

WakeParked ==
  /\ answer = "ready"
  /\ answer' = "told"
  /\ token' = (main = "parked")
  /\ UNCHANGED <<queueVars, pinged, main, loopVars, clock, result>>

-----------------------------------------------------------------------------
MainStep ==
  \/ ProcessEvents \/ EndProcess \/ RunIdle \/ EndTurn \/ Return
  \/ \E r \in Runnables : TakeRunnable(r)
  \/ BlockOk \/ BlockPending \/ Unpark \/ ParkTimeout

SendStep(r) == SendCheckMain(r) \/ PushMain(r) \/ Ping(r)

MainNext ==
  \/ \E r \in Runnables : DispatchAfter(r) \/ SendStep(r)
  \/ DropMainSender \/ SenderGone
  \/ MainStep
  \/ Quit
  \/ Block
  \/ Tick \/ Answer \/ WakeParked

\* Threads that are in the middle of something go on, delays pass, and so does time.
MainFairness ==
  /\ WF_mainVars(MainStep)
  /\ WF_mainVars(Tick)
  /\ \A r \in Runnables :
       /\ WF_mainVars(PushMain(r)) /\ WF_mainVars(Ping(r))
       /\ WF_mainVars(sent[r] = "timing" /\ SendCheckMain(r))

MainSpec == MainInit /\ [][MainNext]_mainVars
MainFairSpec == MainSpec /\ MainFairness

-----------------------------------------------------------------------------
InTask == {"running", "polled", "parked"}

\* Every variable keeps its type, and the source of runnables leaves the event loop
\* (its receiver dropped) exactly when the run loop ends.
MainTypeOK ==
  /\ sent \in [Runnables -> {"new", "timing", "checked", "forgotten", "queued",
                             "idle", "running", "done"}]
  /\ queue \subseteq Runnables /\ owed \subseteq Runnables
  /\ pinged \in BOOLEAN /\ empty \in BOOLEAN /\ token \in BOOLEAN
  /\ sender \in {"there", "pinged", "gone"}
  /\ source \in {"registered", "removed", "gone"}
  /\ main \in {"polling", "draining", "idling", "ended"} \cup InTask
  /\ idle \in Seq(Runnables)
  /\ answer \in {"pending", "ready", "told"}
  /\ clock \in {"before", "at", "after"}
  /\ result \in {"none", "ok", "timeout"}
  /\ source = "gone" <=> main = "ended"

QueueExact == queue = {r \in Runnables : sent[r] = "queued"}
IdleExact ==
  /\ \A r \in Runnables : sent[r] = "idle" <=> \E n \in DOMAIN idle : idle[n] = r
  /\ \A m, n \in DOMAIN idle : idle[m] = idle[n] => m = n
OneRuns ==
  /\ \A q, r \in Runnables : sent[q] = "running" /\ sent[r] = "running" => q = r
  /\ main \in InTask <=> \E r \in Runnables : sent[r] = "running"

\* A runnable is in the queue, or in one idle callback, or it runs, and never two
\* run: the main thread blocked in one task polls no other.
InOnePlace == QueueExact /\ IdleExact /\ OneRuns

\* What is queued is found: the source is ready, or being processed, or every
\* sender of what is there has yet to ping.
NoLostPing ==
  queue \subseteq owed \/ pinged \/ main = "draining"

\* The receiver is taken off the loop only when nothing can come any more: the
\* sender is gone, and all that was sent has left the queue.
RemovedWhenOver ==
  source = "removed" =>
    sender = "gone" /\ queue = {} /\ \A r \in Runnables : sent[r] # "checked"

\* The main queue of src/src/queue.rs serves the loop: a runnable is in one
\* place, what is queued is found whatever the order of push, ping and take,
\* and the source leaves the loop only when nothing can come any more.
QueueServed == InOnePlace /\ NoLostPing /\ RemovedWhenOver

\* Every runnable that was sent runs, unless the loop is stopped, though tasks block
\* the main thread on futures that may never be ready.
EveryRunnableRuns ==
  \A r \in Runnables :
    sent[r] \in {"timing", "checked"} ~> sent[r] = "done" \/ main = "ended"
=============================================================================

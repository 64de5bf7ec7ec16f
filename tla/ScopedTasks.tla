----------------------------- MODULE ScopedTasks ------------------------------
(***************************************************************************)
(* BackgroundExecutor::await_on_background and ::scoped of                  *)
(* src/src/executor.rs: a parent task lends its environment to a child that *)
(* runs in the background, and when the parent is cancelled its drop has to  *)
(* wait until the child no longer uses what it borrowed.                    *)
(*                                                                         *)
(* The tasks are async_task's: a runnable is scheduled, a thread runs it (a *)
(* poll, or the drop of the future when the task was closed), and dropping a *)
(* Task closes it and schedules it once more if it was idle.                *)
(*                                                                         *)
(* A Scope hears of the end of its child through a channel, which both share. *)
(* await_on_background lends the child a Condvar and a Mutex<bool> of its own *)
(* frame: NotifyOnDrop sets the flag under the mutex and only then, unlocked, *)
(* calls notify_all, so the child ends in two steps there.                  *)
(***************************************************************************)
EXTENDS Integers, FiniteSets

CONSTANTS
  Parents,   \* the tasks that await, each with one child
  PoolThreads, \* the background threads
  Main,      \* the main thread
  OnMain,    \* the parents that were spawned on the main thread
  InScope,   \* the parents that call scoped; the others await_on_background
  Nothing,   \* what an idle thread does
  MaxPolls   \* bound: how often a child is polled before it completes

ASSUME MainAssumption == Main \notin PoolThreads
ASSUME ParentsAssumption == OnMain \subseteq Parents /\ InScope \subseteq Parents
ASSUME NothingAssumption == Nothing \notin {"child", "wait"}
ASSUME MaxPollsAssumption == MaxPolls \in Nat \ {0}

Threads == PoolThreads \cup {Main}
ThreadsOf(p) == IF p \in OnMain THEN {Main} ELSE PoolThreads

VARIABLES
  parent,   \* async_task state of each parent
  child,    \* and of its child
  closed,   \* the parents that were cancelled
  dismissed,\* the parents whose child was cancelled, by dropping its Task
  polls,    \* how often each child was polled
  done,     \* the parents that may go on: the Mutex<bool>, or the closed channel
  doing     \* what each thread does: <<"parent" or "child" or "wait", p>>

scopeVars == <<parent, child, closed, dismissed, polls, done, doing>>

Idle == <<Nothing, Nothing>>

ScopeInit ==
  /\ parent = [p \in Parents |-> "scheduled"]
  /\ child = [p \in Parents |-> "none"]
  /\ closed = {}
  /\ dismissed = {}
  /\ polls = [p \in Parents |-> 0]
  /\ done = {}
  /\ doing = [t \in Threads |-> Idle]

-----------------------------------------------------------------------------
\* The Task of the parent is dropped.
Cancel(p) ==
  /\ p \notin closed
  /\ parent[p] # "gone"
  /\ closed' = closed \cup {p}
  /\ parent' = [parent EXCEPT ![p] = IF @ = "idle" THEN "scheduled" ELSE @]
  /\ UNCHANGED <<child, dismissed, polls, done, doing>>

\* The first poll of the parent schedules the child and awaits it.  With the
\* Scope the child holds its sender from here on; with await_on_background its
\* NotifyOnDrop exists only when it is polled.
StartChild(t, p) ==
  /\ doing[t] = Idle
  /\ t \in ThreadsOf(p)
  /\ parent[p] = "scheduled" /\ child[p] = "none" /\ p \notin closed
  /\ child' = [child EXCEPT ![p] = "scheduled"]
  /\ parent' = [parent EXCEPT ![p] = "idle"]
  /\ UNCHANGED <<closed, dismissed, polls, done, doing>>

\* The parent was woken by its child, which is gone: it returns.
Resume(t, p) ==
  /\ doing[t] = Idle
  /\ t \in ThreadsOf(p)
  /\ parent[p] = "scheduled" /\ child[p] = "gone" /\ p \notin closed
  /\ parent' = [parent EXCEPT ![p] = "gone"]
  /\ UNCHANGED <<child, closed, dismissed, polls, done, doing>>

\* Mutant of DropParent: the drop does not wait for the child.
DropParentAtOnce(t, p) ==
  /\ doing[t] = Idle
  /\ t \in ThreadsOf(p)
  /\ parent[p] = "scheduled" /\ p \in closed
  /\ dismissed' = dismissed \cup {p}
  /\ child' = [child EXCEPT ![p] = IF @ = "idle" THEN "scheduled" ELSE @]
  /\ parent' = [parent EXCEPT ![p] = "gone"]
  /\ UNCHANGED <<closed, polls, done, doing>>

\* A cancelled parent is dropped: first its Task of the child, then WaitOnDrop or
\* the Scope, which blocks the thread.
DropParent(t, p) ==
  /\ doing[t] = Idle
  /\ t \in ThreadsOf(p)
  /\ parent[p] = "scheduled" /\ p \in closed
  /\ \/ /\ child[p] = "none"
        /\ parent' = [parent EXCEPT ![p] = "gone"]
        /\ UNCHANGED <<child, dismissed, doing>>
     \/ /\ child[p] # "none"
        /\ dismissed' = dismissed \cup {p}
        /\ child' = [child EXCEPT ![p] = IF @ = "idle" THEN "scheduled" ELSE @]
        /\ parent' = [parent EXCEPT ![p] = "dropping"]
        /\ doing' = [doing EXCEPT ![t] = <<"wait", p>>]
  /\ UNCHANGED <<closed, polls, done>>

\* WaitOnDrop holds the mutex and finds the flag false: Condvar::wait.
Sleep(t, p) ==
  /\ doing[t] = <<"wait", p>>
  /\ p \notin InScope /\ p \notin done
  /\ parent[p] = "dropping"
  /\ parent' = [parent EXCEPT ![p] = "waiting"]
  /\ UNCHANGED <<child, closed, dismissed, polls, done, doing>>

\* The wait is over, or there was nothing to wait for: the frame of the parent
\* goes, and with it what it lent.
EndWait(t, p) ==
  /\ doing[t] = <<"wait", p>>
  /\ parent[p] = "dropping" /\ p \in done
  /\ parent' = [parent EXCEPT ![p] = "gone"]
  /\ doing' = [doing EXCEPT ![t] = Idle]
  /\ UNCHANGED <<child, closed, dismissed, polls, done>>

-----------------------------------------------------------------------------
\* A worker polls the child.
BeginPoll(t, p) ==
  /\ doing[t] = Idle
  /\ child[p] = "scheduled" /\ p \notin dismissed
  /\ child' = [child EXCEPT ![p] = "running"]
  /\ polls' = [polls EXCEPT ![p] = @ + 1]
  /\ doing' = [doing EXCEPT ![t] = <<"child", p>>]
  /\ UNCHANGED <<parent, closed, dismissed, done>>

\* The future of the child is dropped, with what it borrowed, and then what tells
\* the parent: the Scope's sender, or NotifyOnDrop, whose flag is set first.
Finish(t, p) ==
  /\ done' = done \cup {p}
  /\ \/ /\ p \in InScope
        /\ child' = [child EXCEPT ![p] = "gone"]
        /\ parent' = [parent EXCEPT ![p] = IF @ = "idle" THEN "scheduled" ELSE @]
        /\ doing' = [doing EXCEPT ![t] = Idle]
     \/ /\ p \notin InScope
        /\ child' = [child EXCEPT ![p] = "notifying"]
        /\ doing' = [doing EXCEPT ![t] = <<"child", p>>]
        /\ UNCHANGED parent

\* The poll returns: the child is ready, or was closed meanwhile and is dropped,
\* or is pending.
EndPoll(t, p) ==
  /\ doing[t] = <<"child", p>> /\ child[p] = "running"
  /\ \/ Finish(t, p)
     \/ /\ p \notin dismissed
        /\ polls[p] < MaxPolls
        /\ child' = [child EXCEPT ![p] = "idle"]
        /\ doing' = [doing EXCEPT ![t] = Idle]
        /\ UNCHANGED <<done, parent>>
  /\ UNCHANGED <<closed, dismissed, polls>>

\* notify_all: it wakes the WaitOnDrop that sleeps.  After it the child is
\* complete, and the parent that awaits its Task is woken.
Notify(t, p) ==
  /\ doing[t] = <<"child", p>> /\ child[p] = "notifying"
  /\ child' = [child EXCEPT ![p] = "gone"]
  /\ parent' = [parent EXCEPT ![p] = CASE @ = "idle" -> "scheduled"
                                       [] @ = "waiting" -> "dropping"
                                       [] OTHER -> @]
  /\ doing' = [doing EXCEPT ![t] = Idle]
  /\ UNCHANGED <<closed, dismissed, polls, done>>

\* What the child waits for happens.
WakeChild(p) ==
  /\ child[p] = "idle"
  /\ child' = [child EXCEPT ![p] = "scheduled"]
  /\ UNCHANGED <<parent, closed, dismissed, polls, done, doing>>

\* The child goes without telling anybody.
Vanish(p) ==
  /\ child' = [child EXCEPT ![p] = "gone"]
  /\ UNCHANGED <<parent, done, doing>>

\* Mutant of DropChild: the Scope's sender, too, is made in the first poll.
DropChildUntold(t, p) ==
  /\ doing[t] = Idle
  /\ child[p] = "scheduled" /\ p \in dismissed
  /\ IF polls[p] > 0 THEN Finish(t, p) ELSE Vanish(p)
  /\ UNCHANGED <<closed, dismissed, polls>>

\* A worker drops a child that was closed.  NotifyOnDrop is there to tell the
\* parent only if the child was ever polled.
DropChild(t, p) ==
  /\ doing[t] = Idle
  /\ child[p] = "scheduled" /\ p \in dismissed
  /\ IF p \in InScope \/ polls[p] > 0 THEN Finish(t, p) ELSE Vanish(p)
  /\ UNCHANGED <<closed, dismissed, polls>>

-----------------------------------------------------------------------------
PoolStep(t) ==
  \E p \in Parents :
    \/ BeginPoll(t, p) \/ EndPoll(t, p) \/ DropChild(t, p) \/ Notify(t, p)
ThreadStep(t) ==
  \E p \in Parents :
    \/ StartChild(t, p) \/ Resume(t, p)
    \/ DropParent(t, p) \/ Sleep(t, p) \/ EndWait(t, p)

ScopeNext ==
  \/ \E p \in Parents : Cancel(p) \/ WakeChild(p)
  \/ \E t \in Threads : ThreadStep(t)
  \/ \E t \in PoolThreads : PoolStep(t)

ScopeFairness ==
  /\ \A t \in Threads : WF_scopeVars(ThreadStep(t))
  /\ \A t \in PoolThreads : WF_scopeVars(PoolStep(t))
  /\ \A p \in Parents : WF_scopeVars(WakeChild(p))

ScopeSpec == ScopeInit /\ [][ScopeNext]_scopeVars
ScopeFairSpec == ScopeSpec /\ ScopeFairness

-----------------------------------------------------------------------------
ScopeTypeOK ==
  /\ parent \in [Parents -> {"scheduled", "idle", "dropping", "waiting", "gone"}]
  /\ child \in [Parents -> {"none", "scheduled", "running", "idle", "notifying", "gone"}]
  /\ closed \subseteq Parents
  /\ dismissed \subseteq closed
  /\ polls \in [Parents -> 0..MaxPolls]
  /\ done \subseteq Parents
  /\ doing \in [Threads -> {Idle} \cup ({"child", "wait"} \X Parents)]

\* What a parent lent is not gone before the future that borrows it: what makes
\* the unsafe spawn_unchecked and transmute sound.  A child "notifying" has
\* dropped its future and the flag says so; all that await_on_background's child
\* still has of the parent's frame is the Condvar it is about to notify.
EnvironmentOutlives ==
  \A p \in Parents : parent[p] = "gone" =>
    \/ child[p] \in {"none", "gone"}
    \/ child[p] = "notifying" /\ p \notin InScope

\* Every scope ends, cancelled or not: dropping a Scope "blocks until all of the
\* futures have resolved", and they are as long as the drops leave the pool a
\* thread to resolve them on.
ScopesEnd == \A p \in InScope : <>(parent[p] = "gone")

-----------------------------------------------------------------------------
(* What the comments of executor.rs say.                                   *)

\* The whole frame outlives the child, the Condvar included: "cancellation of the
\* parent task does not drop the environment before the our own task has
\* completed or got cancelled".  A WaitOnDrop that looks between the flag and
\* notify_all sees the flag and does not wait.
FrameOutlives ==
  \A p \in Parents : parent[p] = "gone" => child[p] \in {"none", "gone"}

\* Every parent ends: what is passed to await_on_background "will run to
\* completion before the current task is resumed, even if the current task is
\* slated for cancellation".
ParentsEnd == \A p \in Parents : <>(parent[p] = "gone")
=============================================================================

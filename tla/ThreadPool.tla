----------------------------- MODULE ThreadPool -----------------------------
(***************************************************************************)
(* cortono::util::threadpool (src/util/threadpool.hpp): the workers, the   *)
(* queue of tasks and quit().                                              *)
(*                                                                         *)
(* A worker evaluates the predicate of cond_.wait and goes to sleep under  *)
(* mutex_, but quit() takes no lock: the predicate and the sleep are two   *)
(* steps, between which quit() may store quit_ and notify.  What a task    *)
(* does is the business of the module that extends this one.               *)
(***************************************************************************)
EXTENDS Integers, FiniteSets

CONSTANT Workers    \* the threads that start() creates

VARIABLES
    tasks,      \* tasks_: how many tasks wait
    poolQuit,   \* quit_
    wpc,        \* each worker's place
    missed      \* history: workers that were about to sleep when quit() notified

poolVars == <<tasks, poolQuit, wpc, missed>>

\* none: not created yet; pred: about to lock mutex_; sleep: the predicate was false, still
\* holding mutex_; waiting: in cond_.wait; task: in task().
WorkerPC == {"none", "check", "pred", "sleep", "waiting", "task", "done"}

PoolInit ==
    /\ tasks = 0
    /\ poolQuit = FALSE
    /\ wpc = [w \in Workers |-> "none"]
    /\ missed = {}

Goto(w, pc) == wpc' = [wpc EXCEPT ![w] = pc]

Asleep == {w \in Workers : wpc[w] = "waiting"}

AboutToSleep == {w \in Workers : wpc[w] = "sleep"}

\* mutex_ is held by a worker that is about to sleep.
Locked == AboutToSleep # {}

\* async(): emplace and notify_one under mutex_.
Async ==
    /\ ~Locked
    /\ tasks' = tasks + 1
    /\ IF Asleep = {}
       THEN UNCHANGED wpc
       ELSE \E w \in Asleep : Goto(w, "pred")
    /\ UNCHANGED <<poolQuit, missed>>

\* start(): one more thread.
StartThread ==
    /\ \E w \in Workers : wpc[w] = "none" /\ Goto(w, "check")
    /\ UNCHANGED <<tasks, poolQuit, missed>>

\* while(!quit_)
CheckQuit(w) ==
    /\ wpc[w] = "check"
    /\ Goto(w, IF poolQuit THEN "done" ELSE "pred")
    /\ UNCHANGED <<tasks, poolQuit, missed>>

MutNoPredicate(w) ==
    /\ wpc[w] = "pred"
    /\ ~Locked
    /\ \/ poolQuit /\ Goto(w, "done") /\ UNCHANGED tasks
       \/ ~poolQuit /\ Goto(w, "task") /\ tasks' = tasks - 1
    /\ UNCHANGED <<poolQuit, missed>>

\* Lock mutex_, evaluate the predicate; quit_ is tested before a task is taken.
Pred(w) ==
    /\ wpc[w] = "pred"
    /\ ~Locked
    /\ \/ poolQuit /\ Goto(w, "done") /\ UNCHANGED tasks
       \/ ~poolQuit /\ tasks > 0 /\ Goto(w, "task") /\ tasks' = tasks - 1
       \/ ~poolQuit /\ tasks = 0 /\ Goto(w, "sleep") /\ UNCHANGED tasks
    /\ UNCHANGED <<poolQuit, missed>>

Sleep(w) ==
    /\ wpc[w] = "sleep"
    /\ Goto(w, "waiting")
    /\ UNCHANGED <<tasks, poolQuit, missed>>

TaskReturns(w) ==
    /\ wpc[w] = "task"
    /\ Goto(w, "check")
    /\ UNCHANGED <<tasks, poolQuit, missed>>

WorkerStep(w) == CheckQuit(w) \/ Pred(w) \/ Sleep(w)

(***************************************************************************)
(* quit(): quit_ = true, notify_all(), join() of every thread.             *)
(***************************************************************************)
SetQuit == poolQuit' = TRUE /\ UNCHANGED <<tasks, wpc, missed>>

MutNotifyOne ==
    /\ IF Asleep = {}
       THEN UNCHANGED wpc
       ELSE \E w \in Asleep : Goto(w, "pred")
    /\ missed' = AboutToSleep
    /\ UNCHANGED <<tasks, poolQuit>>

NotifyAll ==
    /\ wpc' = [w \in Workers |-> IF w \in Asleep THEN "pred" ELSE wpc[w]]
    /\ missed' = AboutToSleep
    /\ UNCHANGED <<tasks, poolQuit>>

Joined == \A w \in Workers : wpc[w] \in {"none", "done"}
=============================================================================

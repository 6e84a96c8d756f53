----------------------------- MODULE EventLoop -----------------------------
(***************************************************************************)
(* cortono::net::EventLoop (src/net/eventloop.hpp), its Watcher pipe       *)
(* (src/net/watcher.hpp) and the part of EventPoller::wait                 *)
(* (src/net/poller.hpp) that the pipe goes through.                        *)
(*                                                                         *)
(* One thread runs loop().  Other threads (Producers) hand it functors     *)
(* with safe_call() and stop it with quit().  Both calls have two steps    *)
(* between which every other thread may run: the shared state is changed   *)
(* first (pending_functors_ under mutex_, the atomic quit_), the byte that *)
(* wakes epoll_wait up is written to the pipe afterwards.                  *)
(*                                                                         *)
(* The critical sections under mutex_ are single steps.  What timers_      *)
(* holds is left to module TimerQueue; here expired timers may call quit() *)
(* in either of the two places where loop_once() runs them, and timers_    *)
(* decides whether epoll_wait is given a timeout.                          *)
(***************************************************************************)
EXTENDS Integers, Sequences

CONSTANTS
    Producers,      \* threads other than the loop's own
    MaxCalls,       \* bound: safe_call()s per producer
    ClearSize,      \* bytes one Watcher::clear() reads (1024 in the code)
    PipeCap,        \* bytes the pipe holds before write() blocks
    EdgeTriggered,  \* EPOLLET set in READ_EVENT (set_level_trigger clears it)
    EveryWriteWakes \* kernel: a write to a non-empty pipe is an edge as well

ASSUME BoundsAssumption ==
    /\ MaxCalls \in Nat
    /\ ClearSize \in Nat \ {0}
    /\ PipeCap \in Nat \ {0}
    /\ EdgeTriggered \in BOOLEAN
    /\ EveryWriteWakes \in BOOLEAN

\* clear() reads once and may leave bytes behind.  Under EPOLLET that is sound
\* only if the kernel reports later writes all the same, or if the pipe can never
\* hold more than clear() reads.
ASSUME EdgeAssumption ==
    EdgeTriggered => EveryWriteWakes \/ PipeCap <= ClearSize

VARIABLES
    pc,         \* the loop thread's place in loop()
    batch,      \* the local pending_functors of handle_pending_func
    pending,    \* pending_functors_
    quit,       \* quit_
    asked,      \* history: quit_ was stored elsewhere than in a timer that
                \* loop_once() runs before epoll_wait
    timeout,    \* epoll_wait was given a timeout: timers_ held a timer to come
    pipe,       \* bytes in the Watcher's pipe
    edge,       \* the pipe is on the epoll ready list
    ppc,        \* each producer's place in safe_call() or quit()
    calls,      \* safe_call()s each producer has made
    submitted,  \* history: functors in the order they were pushed
    executed    \* history: functors in the order they were run

loopVars == <<pc, batch, timeout>>
callVars == <<ppc, calls>>
quitVars == <<quit, asked>>
vars == <<pc, batch, pending, quit, asked, timeout, pipe, edge, ppc, calls,
          submitted, executed>>

\* The n-th functor that producer p submits.
Functor == Producers \X (1..MaxCalls)

PC == {"check", "timers", "wait", "clear", "swap", "run", "done"}

----------------------------------------------------------------------------
Init ==
    /\ pc = "check"
    /\ batch = <<>>
    /\ pending = <<>>
    /\ quit = FALSE
    /\ asked = FALSE
    /\ timeout = FALSE
    /\ pipe = 0
    /\ edge = FALSE
    /\ ppc = [p \in Producers |-> "idle"]
    /\ calls = [p \in Producers |-> 0]
    /\ submitted = <<>>
    /\ executed = <<>>

(***************************************************************************)
(* The producers.                                                          *)
(***************************************************************************)

\* safe_call() from another thread: emplace_back under mutex_ ...
MutPushNoWake(p) ==
    /\ ppc[p] = "idle"
    /\ calls[p] < MaxCalls
    /\ LET f == <<p, calls[p] + 1>>
       IN  /\ pending' = Append(pending, f)
           /\ submitted' = Append(submitted, f)
    /\ calls' = [calls EXCEPT ![p] = @ + 1]
    /\ UNCHANGED <<loopVars, quitVars, pipe, edge, ppc, executed>>

Push(p) ==
    /\ ppc[p] = "idle"
    /\ calls[p] < MaxCalls
    /\ LET f == <<p, calls[p] + 1>>
       IN  /\ pending' = Append(pending, f)
           /\ submitted' = Append(submitted, f)
    /\ calls' = [calls EXCEPT ![p] = @ + 1]
    /\ ppc' = [ppc EXCEPT ![p] = "notify"]
    /\ UNCHANGED <<loopVars, quitVars, pipe, edge, executed>>

\* ... and quit() from another thread: quit_.store(true) ...
MutQuitNoWake(p) ==
    /\ ppc[p] = "idle"
    /\ quit' = TRUE
    /\ asked' = TRUE
    /\ UNCHANGED <<loopVars, callVars, pending, pipe, edge, submitted, executed>>

Quit(p) ==
    /\ ppc[p] = "idle"
    /\ quit' = TRUE
    /\ asked' = TRUE
    /\ ppc' = [ppc EXCEPT ![p] = "notify"]
    /\ UNCHANGED <<loopVars, pending, pipe, edge, calls, submitted, executed>>

\* ... then wake_up(): Watcher::notify() writes one byte to the blocking pipe,
\* and the kernel puts the read end on the ready list: always, or only when the
\* pipe was empty.
Notify(p) ==
    /\ ppc[p] = "notify"
    /\ pipe < PipeCap
    /\ pipe' = pipe + 1
    /\ edge' = (edge \/ EveryWriteWakes \/ pipe = 0)
    /\ ppc' = [ppc EXCEPT ![p] = "idle"]
    /\ UNCHANGED <<loopVars, quitVars, pending, calls, submitted, executed>>

(***************************************************************************)
(* The loop thread.                                                        *)
(***************************************************************************)

\* while(!quit_): loop() returns, or loop_once() starts.  quit_ is never reset.
MutCheckResets ==
    /\ pc = "check"
    /\ pc' = IF quit THEN "done" ELSE "timers"
    /\ quit' = FALSE
    /\ UNCHANGED <<asked, batch, pending, timeout, pipe, edge, callVars, submitted, executed>>

Check ==
    /\ pc = "check"
    /\ pc' = IF quit THEN "done" ELSE "timers"
    /\ UNCHANGED <<batch, pending, quitVars, timeout, pipe, edge, callVars,
                   submitted, executed>>

\* loop_once() first runs the timers that have expired.  One of them may call
\* quit() on its own loop: no byte is written, and while(!quit_) is behind it.
\* The timeout is then taken from the timers that are left: none, or a negative
\* one if another timer has just expired, makes epoll_wait wait for an event.
RunTimers ==
    /\ pc = "timers"
    /\ quit' \in {quit, TRUE}
    /\ timeout' \in BOOLEAN
    /\ pc' = "wait"
    /\ UNCHANGED <<asked, batch, pending, pipe, edge, callVars, submitted, executed>>

\* epoll_wait would report the pipe.
Readable == pipe > 0 /\ (EdgeTriggered => edge)

\* epoll_wait reports the pipe: the ready-list entry is consumed, the read
\* callback is about to run.
WaitEvent ==
    /\ pc = "wait"
    /\ Readable
    /\ edge' = FALSE
    /\ pc' = "clear"
    /\ UNCHANGED <<batch, pending, quitVars, timeout, pipe, callVars, submitted, executed>>

\* epoll_wait returns at its timeout, or for some other descriptor: the pipe
\* is not touched.
WaitOther ==
    /\ pc = "wait"
    /\ pc' = "swap"
    /\ UNCHANGED <<batch, pending, quitVars, timeout, pipe, edge, callVars,
                   submitted, executed>>

\* The read callback: one read() of at most ClearSize bytes.
Clear ==
    /\ pc = "clear"
    /\ pipe' = IF pipe > ClearSize THEN pipe - ClearSize ELSE 0
    /\ pc' = "swap"
    /\ UNCHANGED <<batch, pending, quitVars, timeout, edge, callVars, submitted, executed>>

\* handle_pending_func: the swap under mutex_.
MutSwapCopies ==
    /\ pc = "swap"
    /\ batch' = pending
    /\ pc' = "run"
    /\ UNCHANGED <<pending, quitVars, timeout, pipe, edge, callVars, submitted, executed>>

Swap ==
    /\ pc = "swap"
    /\ batch' = pending
    /\ pending' = <<>>
    /\ pc' = "run"
    /\ UNCHANGED <<quitVars, timeout, pipe, edge, callVars, submitted, executed>>

\* for(auto& cb : pending_functors) cb().  A functor may call quit() on its own
\* loop (no byte is written then), and safe_call(), which runs its argument on
\* the spot and so is part of the functor.
RunFunctor ==
    /\ pc = "run"
    /\ batch # <<>>
    /\ executed' = Append(executed, Head(batch))
    /\ batch' = Tail(batch)
    /\ asked' \in {asked, TRUE}
    /\ quit' = (quit \/ asked')
    /\ UNCHANGED <<pc, pending, timeout, pipe, edge, callVars, submitted>>

\* The vector is exhausted; handle_time_func runs the expired timers and loop_once
\* returns.  These timers, or the callbacks that epoll_wait's other descriptors had
\* earlier in the round, may also call quit() on their own loop.
FinishOnce ==
    /\ pc = "run"
    /\ batch = <<>>
    /\ asked' \in {asked, TRUE}
    /\ quit' = (quit \/ asked')
    /\ pc' = "check"
    /\ UNCHANGED <<batch, pending, timeout, pipe, edge, callVars, submitted, executed>>

LoopStep ==
    \/ Check
    \/ RunTimers
    \/ WaitEvent
    \/ WaitOther
    \/ Clear
    \/ Swap
    \/ RunFunctor
    \/ FinishOnce

ProducerStep(p) ==
    \/ Push(p)
    \/ Quit(p)
    \/ Notify(p)

Next ==
    \/ LoopStep
    \/ \E p \in Producers : ProducerStep(p)

\* A thread that has entered wake_up() gets to its write(), and the loop thread
\* keeps running.  epoll_wait returns when the pipe is reported and, if it was given
\* a timeout, at the latest then; no other descriptor is assumed to be reported.
Fairness ==
    /\ \A p \in Producers : WF_vars(Notify(p))
    /\ WF_vars(Check)
    /\ WF_vars(RunTimers)
    /\ WF_vars(WaitEvent)
    /\ WF_vars(timeout /\ WaitOther)
    /\ WF_vars(Clear)
    /\ WF_vars(Swap)
    /\ WF_vars(RunFunctor)
    /\ WF_vars(FinishOnce)

Spec == Init /\ [][Next]_vars

FairSpec == Spec /\ Fairness
----------------------------------------------------------------------------
(***************************************************************************)
(* Properties.                                                             *)
(***************************************************************************)

\* Every variable of the loop and of its callers has the type the code gives it, and
\* quit_, once stored, stays stored: loop() never resets it.
TypeOK ==
    /\ pc \in PC
    /\ batch \in Seq(Functor)
    /\ pending \in Seq(Functor)
    /\ quit \in BOOLEAN
    /\ asked \in BOOLEAN
    /\ asked => quit
    /\ timeout \in BOOLEAN
    /\ pipe \in 0..PipeCap
    /\ edge \in BOOLEAN
    /\ ppc \in [Producers -> {"idle", "notify"}]
    /\ calls \in [Producers -> 0..MaxCalls]
    /\ submitted \in Seq(Functor)
    /\ executed \in Seq(Functor)

\* Some thread is between changing the shared state and writing its byte.
Notifying == \E p \in Producers : ppc[p] = "notify"

\* No lost wakeup: when the loop is about to block in epoll_wait while a functor
\* is queued, the pipe is going to be reported or a caller of safe_call still
\* owes its byte.  It fails if Watcher::clear() could swallow the byte of a
\* functor that the swap after it does not see.
NoLostWakeup ==
    (pc = "wait" /\ pending # <<>>) => (Readable \/ Notifying)

\* The same for quit(): a loop that blocks in epoll_wait although quit_ was stored
\* is about to be woken, whether another thread stored it or a callback of the loop
\* itself, whose store while(!quit_) has to see before the next epoll_wait.  The
\* exception is a timer that loop_once() runs before epoll_wait (RunTimers): the loop
\* can go to sleep with the quit_ stored there (QuitReturns).
NoLostQuit ==
    (pc = "wait" /\ asked) => (Readable \/ Notifying)

\* What the example src/example/eventloop/eventloop.cc expects of a timer that calls
\* quit(): loop() returns.  The loop does not promise it.
QuitReturns == quit ~> pc = "done"

\* Every functor that was pushed before the swap is run exactly once and in the
\* order of the pushes: the history, what handle_pending_func still has to run
\* and the queue always add up to what was submitted.
InOrderOnce == submitted = executed \o batch \o pending

\* The loop implements the executor its callers rely on: batch and pending_functors_
\* together are its queue.
Executor == INSTANCE SerialExecutor WITH
                Task <- Functor,
                queue <- batch \o pending,
                done <- executed,
                stopping <- quit,
                heard <- asked,
                stopped <- (pc = "done")

\* Every step of the loop and of its callers is a step of a serial executor: a
\* functor is run once, after those pushed before it, never after loop() returned.
ImplementsExecutor == Executor!Spec

\* Under the scheduler's fairness it also has the executor's liveness: functors
\* are worked off until the loop returns, and a quit() that the loop hears of makes
\* it return.  A quit() called by a timer run before epoll_wait need not be heard of:
\* it takes effect at the next round, if a functor, a timer or another quit() causes
\* one.
ImplementsFairExecutor == Executor!FairSpec
============================================================================

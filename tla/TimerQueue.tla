----------------------------- MODULE TimerQueue -----------------------------
(***************************************************************************)
(* The timers of cortono::net::EventLoop (src/net/eventloop.hpp) and the   *)
(* Timer they are made of (src/net/timer.hpp).                             *)
(*                                                                         *)
(* timers_ is a std::set<Timer> whose order and equality look at the       *)
(* expiry time only, so it is modelled as a function from expiry times to  *)
(* timers; id_to_timers_ is a function from ids to expiry times, the only  *)
(* part of its Timers that is ever used.  The clock advances between any   *)
(* two steps of the loop thread, in ticks of 1/TicksPerMs ms.              *)
(*                                                                         *)
(* User code (functors, socket and timer callbacks) runs on the loop's     *)
(* thread; what it does to timers are the actions SetTimer and Cancel.     *)
(***************************************************************************)
EXTENDS Integers, Functions

CONSTANTS
    TicksPerMs,     \* clock ticks in a millisecond
    MaxTime,        \* bound: the clock stops here
    MaxTimers,      \* bound: timers ever created
    Expiries,       \* expiry times that user code asks for
    Intervals       \* periods in ticks, whole milliseconds; 0 is a one-shot

ASSUME TimerAssumption ==
    /\ TicksPerMs \in Nat \ {0}
    /\ MaxTime \in Nat
    /\ MaxTimers \in Nat
    /\ Expiries \subseteq Nat
    /\ Intervals \subseteq Nat
    /\ \A i \in Intervals : i % TicksPerMs = 0

VARIABLES
    now,        \* steady_clock::now()
    timers,     \* timers_: expiry |-> [id, interval]
    idmap,      \* id_to_timers_: id |-> expiry
    pc,         \* the loop thread's place in loop_once
    cur,        \* t, the timer handle_time_func is running, and where it returns
    until,      \* when epoll_wait gives up
    count,      \* Timer::timer_count
    created,    \* history: id |-> [exp, interval] as first set
    fired,      \* history: id |-> number of runs
    cancelled   \* history: ids cancelled outside their own callback

vars == <<now, timers, idmap, pc, cur, until, count, created, fired, cancelled>>
history == <<created, cancelled>>

Forever == -1   \* the timeout of an empty queue
Overdue == -2   \* a timeout that came out negative: epoll_wait blocks as well
NoTimer == [id |-> -1, exp |-> -1, interval |-> 0, from |-> "top"]

First == CHOOSE e \in DOMAIN timers : \A d \in DOMAIN timers : e <= d

HasTimer == DOMAIN timers # {}

\* erase, emplace (which keeps an entry that is already there) and assignment to
\* operator[] of the containers, for timers_ and id_to_timers_ alike.
Without(f, x) == Restrict(f, DOMAIN f \ {x})
Emplace(f, x, y) == [z \in DOMAIN f \cup {x} |-> IF z \in DOMAIN f THEN f[z] ELSE y]
Assign(f, x, y) == [z \in DOMAIN f \cup {x} |-> IF z = x THEN y ELSE f[z]]

\* duration_cast<milliseconds> truncates towards zero.
MutRoundUp(e) == (e - now + TicksPerMs - 1) \div TicksPerMs

ExpiresMilliseconds(e) ==
    IF e >= now THEN (e - now) \div TicksPerMs
                ELSE -((now - e) \div TicksPerMs)

----------------------------------------------------------------------------
Init ==
    /\ now = 0
    /\ timers = <<>>
    /\ idmap = <<>>
    /\ pc = "pending"           \* timers may be set before loop() is entered
    /\ cur = NoTimer
    /\ until = Forever
    /\ count = 0
    /\ created = <<>>
    /\ fired = <<>>
    /\ cancelled = {}

Tick ==
    /\ now < MaxTime
    /\ now' = now + 1
    /\ UNCHANGED <<timers, idmap, pc, cur, until, count, fired, history>>

\* loop_once: timers that are due, or due in less than a millisecond, first.
Top ==
    /\ pc = "top"
    /\ pc' = IF HasTimer /\ ExpiresMilliseconds(First) <= 0 THEN "early" ELSE "arm"
    /\ UNCHANGED <<now, timers, idmap, cur, until, count, fired, history>>

\* The timeout is computed from a clock read of its own: when the first timer is
\* a millisecond or more overdue by now it is negative.
MutArmForever ==
    /\ pc = "arm"
    /\ until' = Forever
    /\ pc' = "wait"
    /\ UNCHANGED <<now, timers, idmap, cur, count, fired, history>>

Arm ==
    /\ pc = "arm"
    /\ until' = IF ~HasTimer THEN Forever
                ELSE IF ExpiresMilliseconds(First) < 0 THEN Overdue
                ELSE now + ExpiresMilliseconds(First) * TicksPerMs
    /\ pc' = "wait"
    /\ UNCHANGED <<now, timers, idmap, cur, count, fired, history>>

\* epoll_wait reaches its timeout.
WaitTimeout ==
    /\ pc = "wait"
    /\ until \notin {Forever, Overdue}
    /\ now >= until
    /\ pc' = "pending"
    /\ until' = Forever
    /\ UNCHANGED <<now, timers, idmap, cur, count, fired, history>>

\* epoll_wait returns for a descriptor.
WaitEvent ==
    /\ pc = "wait"
    /\ pc' = "pending"
    /\ until' = Forever
    /\ UNCHANGED <<now, timers, idmap, cur, count, fired, history>>

\* The callbacks of poller_->wait and the functors of handle_pending_func are done.
PendingDone ==
    /\ pc = "pending"
    /\ pc' = "late"
    /\ UNCHANGED <<now, timers, idmap, cur, until, count, fired, history>>

(***************************************************************************)
(* handle_time_func, called as "early" (line 41) and as "late" (line 46).  *)
(***************************************************************************)
TakeExpired ==
    /\ pc \in {"early", "late"}
    /\ HasTimer
    /\ First <= now
    /\ cur' = [id |-> timers[First].id, exp |-> First,
               interval |-> timers[First].interval, from |-> pc]
    /\ timers' = Without(timers, First)
    /\ fired' = [fired EXCEPT ![timers[First].id] = @ + 1]
    /\ pc' = "run"
    /\ UNCHANGED <<now, idmap, until, count, history>>

\* After the callback: update_time, emplace (another timer may be there already)
\* and the id's new entry, or the id is forgotten.
MutStaleId ==
    /\ pc = "run"
    /\ IF cur.interval > 0
       THEN /\ timers' = Emplace(timers, cur.exp + cur.interval,
                                  [id |-> cur.id, interval |-> cur.interval])
            /\ UNCHANGED idmap
       ELSE /\ idmap' = Without(idmap, cur.id)
            /\ UNCHANGED timers
    /\ pc' = cur.from
    /\ cur' = NoTimer
    /\ UNCHANGED <<now, until, count, fired, history>>

MutNoUpdateTime ==
    /\ pc = "run"
    /\ IF cur.interval > 0
       THEN /\ timers' = Emplace(timers, cur.exp, [id |-> cur.id, interval |-> cur.interval])
            /\ idmap' = Assign(idmap, cur.id, cur.exp)
       ELSE /\ idmap' = Without(idmap, cur.id)
            /\ UNCHANGED timers
    /\ pc' = cur.from
    /\ cur' = NoTimer
    /\ UNCHANGED <<now, until, count, fired, history>>

FinishRun ==
    /\ pc = "run"
    /\ IF cur.interval > 0
       THEN LET next == cur.exp + cur.interval
            IN  /\ timers' = Emplace(timers, next, [id |-> cur.id, interval |-> cur.interval])
                /\ idmap' = Assign(idmap, cur.id, next)
       ELSE /\ idmap' = Without(idmap, cur.id)
            /\ UNCHANGED timers
    /\ pc' = cur.from
    /\ cur' = NoTimer
    /\ UNCHANGED <<now, until, count, fired, history>>

NoneExpired ==
    /\ pc \in {"early", "late"}
    /\ HasTimer => First > now
    /\ pc' = IF pc = "early" THEN "arm" ELSE "top"
    /\ UNCHANGED <<now, timers, idmap, cur, until, count, fired, history>>

(***************************************************************************)
(* User code on the loop's thread.                                         *)
(***************************************************************************)
UserCode == pc \in {"pending", "run"}

\* run_at, run_after, run_every: set_timer's lambda, called directly or as a
\* functor.
MutKeepsCount(e, i) ==
    /\ UserCode
    /\ count < MaxTimers
    /\ timers' = Emplace(timers, e, [id |-> count, interval |-> i])
    /\ idmap' = Emplace(idmap, count, e)
    /\ created' = Emplace(created, count, [exp |-> e, interval |-> i])
    /\ fired' = Emplace(fired, count, 0)
    /\ UNCHANGED <<now, pc, cur, until, count, cancelled>>

SetTimer(e, i) ==
    /\ UserCode
    /\ count < MaxTimers
    /\ timers' = Emplace(timers, e, [id |-> count, interval |-> i])
    /\ idmap' = Emplace(idmap, count, e)
    /\ created' = Emplace(created, count, [exp |-> e, interval |-> i])
    /\ fired' = Emplace(fired, count, 0)
    /\ count' = count + 1
    /\ UNCHANGED <<now, pc, cur, until, cancelled>>

\* cancel_timer: erase from timers_ what compares equal, that is whatever has the
\* same expiry.  An unknown id is only logged.
MutCancelKeepsTimer(id) ==
    /\ UserCode
    /\ id \in DOMAIN idmap
    /\ idmap' = Without(idmap, id)
    /\ cancelled' = IF cur.id = id THEN cancelled ELSE cancelled \cup {id}
    /\ UNCHANGED <<now, pc, cur, timers, until, count, created, fired>>

Cancel(id) ==
    /\ UserCode
    /\ id \in DOMAIN idmap
    /\ timers' = Without(timers, idmap[id])
    /\ idmap' = Without(idmap, id)
    /\ cancelled' = IF cur.id = id THEN cancelled ELSE cancelled \cup {id}
    /\ UNCHANGED <<now, pc, cur, until, count, created, fired>>

LoopStep ==
    \/ Top
    \/ Arm
    \/ WaitTimeout
    \/ WaitEvent
    \/ PendingDone
    \/ TakeExpired
    \/ FinishRun
    \/ NoneExpired

Next ==
    \/ Tick
    \/ LoopStep
    \/ \E e \in Expiries, i \in Intervals : SetTimer(e, i)
    \/ \E id \in DOMAIN idmap : Cancel(id)

\* The loop thread is scheduled and callbacks return; descriptors need never
\* become ready and the clock may stand still.
Fairness ==
    /\ WF_vars(Top)
    /\ WF_vars(Arm)
    /\ WF_vars(WaitTimeout)
    /\ WF_vars(PendingDone)
    /\ WF_vars(TakeExpired)
    /\ WF_vars(FinishRun)
    /\ WF_vars(NoneExpired)

Spec == Init /\ [][Next]_vars

FairSpec == Spec /\ Fairness
----------------------------------------------------------------------------
Id == 0..(MaxTimers - 1)

\* Every variable of the timer queue has its type; ids are those handed out.
TypeOK ==
    /\ now \in 0..MaxTime
    /\ \A e \in DOMAIN timers : e \in Nat /\ timers[e] \in [id : Id, interval : Intervals]
    /\ DOMAIN idmap \subseteq 0..(count - 1)
    /\ \A id \in DOMAIN idmap : idmap[id] \in Nat
    /\ pc \in {"top", "early", "arm", "wait", "pending", "late", "run"}
    /\ (pc = "run") <=> (cur # NoTimer)
    /\ until \in Nat \cup {Forever, Overdue}
    /\ count \in 0..MaxTimers
    /\ DOMAIN created = 0..(count - 1)
    /\ DOMAIN fired = 0..(count - 1)
    /\ cancelled \subseteq 0..(count - 1)

\* Whatever is in timers_ can be cancelled: its id is known and leads to its own
\* entry, also after periodic timers moved to new expiry times, after two timers
\* met at one expiry time and after callbacks cancelled timers.
Cancellable ==
    \A e \in DOMAIN timers :
        timers[e].id \in DOMAIN idmap /\ idmap[timers[e].id] = e

\* cancel_timer is final, except from the timer's own callback, whose periodic
\* re-insertion follows: a cancelled timer is neither queued nor running again.
CancelledStaysCancelled ==
    /\ \A e \in DOMAIN timers : timers[e].id \notin cancelled
    /\ cur # NoTimer /\ cur.interval > 0 => cur.id \notin cancelled

\* A timer runs at most once per period that has elapsed, and a one-shot once.
NeverTooOften ==
    \A id \in DOMAIN created :
        LET c == created[id]
        IN  fired[id] <= IF now < c.exp THEN 0
                         ELSE IF c.interval = 0 THEN 1
                         ELSE 1 + (now - c.exp) \div c.interval

\* A finite timeout never lets epoll_wait sleep beyond the first expiry: it ends
\* by then, or has ended already.
WakesInTime ==
    pc = "wait" /\ until \notin {Forever, Overdue} =>
        \A e \in DOMAIN timers : until <= e \/ until <= now

\* A queued timer that is due is taken out, by handle_time_func or by a cancel_timer,
\* unless epoll_wait was entered with a negative expires_milliseconds().
DueIsRun ==
    \A e \in 0..MaxTime :
        (e \in DOMAIN timers /\ e <= now)
            ~> (e \notin DOMAIN timers \/ (pc = "wait" /\ until = Overdue))
============================================================================

-------------------------- MODULE TimerQueueProofs --------------------------
(***************************************************************************)
(* Proofs about TimerQueue: for any clock, expiry times and intervals, and *)
(* any number of timers.                                                   *)
(***************************************************************************)
EXTENDS TimerQueue, WellFoundedInduction, TLAPS

(***************************************************************************)
(* The inductive invariant.  TypeOK leaves open what cur and the history   *)
(* hold.  Cancellable says nothing of the timer that is running, which is  *)
(* in no container; CancelledStaysCancelled nothing of id_to_timers_, from *)
(* where FinishRun would bring a cancelled timer back.                     *)
(***************************************************************************)
HistoryTyped ==
    /\ \A id \in DOMAIN created : created[id] \in [exp : Nat, interval : Intervals]
    /\ \A id \in DOMAIN fired : fired[id] \in Nat

CurTyped ==
    \/ cur = NoTimer
    \/ cur \in [id : 0..(count - 1), exp : Nat, interval : Intervals,
                from : {"early", "late"}]

\* Until its callback is done a timer is out of timers_.
RunningIsOut ==
    pc = "run" => \A e \in DOMAIN timers : timers[e].id # cur.id

\* A cancelled timer has no entry in id_to_timers_ and is not running.
CancelledIsGone ==
    /\ DOMAIN idmap \cap cancelled = {}
    /\ cur.id \notin cancelled

\* Expiry times: a timer moves on by its interval with each run.
InStep(id, exp, interval, runs) ==
    /\ interval = created[id].interval
    /\ exp = created[id].exp + runs * interval

QueuedInStep ==
    \A e \in DOMAIN timers :
        LET t == timers[e]
        IN  /\ InStep(t.id, e, t.interval, fired[t.id])
            /\ t.interval = 0 => fired[t.id] = 0

RunningInStep ==
    pc = "run" =>
        InStep(cur.id, cur.exp + cur.interval, cur.interval, fired[cur.id])

\* The last run was due.
RunsWereDue ==
    \A id \in DOMAIN created :
        fired[id] # 0 =>
            /\ created[id].exp + (fired[id] - 1) * created[id].interval <= now
            /\ created[id].interval = 0 => fired[id] = 1

TypeInv == TypeOK /\ HistoryTyped /\ CurTyped
QueueInv == TypeInv /\ Cancellable /\ RunningIsOut
CancelInv == QueueInv /\ CancelledIsGone
RunsInv == QueueInv /\ QueuedInStep /\ RunningInStep /\ RunsWereDue
----------------------------------------------------------------------------
(***************************************************************************)
(* timers_.begin().                                                        *)
(***************************************************************************)

\* A set of expiry times has a least one.
LEMMA LeastExists ==
    ASSUME NEW S \in SUBSET Nat, S # {}
    PROVE  \E e \in S : \A d \in S : e <= d
<1>1. PICK e \in S : \A d \in S : ~(<<d, e>> \in OpToRel(<, Nat))
  BY NatLessThanWellFounded, WFMin
<1>2. ASSUME NEW d \in S PROVE e <= d
  <2>1. <<d, e>> \notin OpToRel(<, Nat)
    BY <1>1
  <2>2. ~(d < e)
    BY <2>1 DEF OpToRel
  <2> QED
    BY <2>2
<1> QED
  BY <1>2

\* timers_.begin() is the timer that expires first.
LEMMA FirstIsLeast ==
    ASSUME TypeOK, HasTimer
    PROVE  /\ First \in DOMAIN timers
           /\ First \in Nat
           /\ \A d \in DOMAIN timers : First <= d
<1>1. DOMAIN timers \in SUBSET Nat
  BY DEF TypeOK
<1>2. \E e \in DOMAIN timers : \A d \in DOMAIN timers : e <= d
  BY <1>1, LeastExists DEF HasTimer
<1>3. First \in DOMAIN timers /\ \A d \in DOMAIN timers : First <= d
  BY <1>2 DEF First
<1> QED
  BY <1>1, <1>3

----------------------------------------------------------------------------
(***************************************************************************)
(* What the steps do to the containers.                                    *)
(***************************************************************************)

\* set_timer adds one entry to each container; an expiry time that is taken
\* keeps its timer.
TimerAdded(e, i) ==
    /\ DOMAIN timers' = DOMAIN timers \cup {e}
    /\ \A z \in DOMAIN timers : timers'[z] = timers[z]
    /\ e \notin DOMAIN timers => timers'[e] = [id |-> count, interval |-> i]
    /\ DOMAIN idmap' = DOMAIN idmap \cup {count}
    /\ \A z \in DOMAIN idmap : idmap'[z] = idmap[z]
    /\ idmap'[count] = e
    /\ DOMAIN created' = DOMAIN created \cup {count}
    /\ \A z \in DOMAIN created : created'[z] = created[z]
    /\ created'[count] = [exp |-> e, interval |-> i]
    /\ DOMAIN fired' = DOMAIN fired \cup {count}
    /\ \A z \in DOMAIN fired : fired'[z] = fired[z]
    /\ fired'[count] = 0

\* set_timer does that, since its id is new.
LEMMA SetTimerEffect ==
    ASSUME TypeOK, NEW e \in Expiries, NEW i \in Intervals, SetTimer(e, i)
    PROVE  TimerAdded(e, i)
<1>1. count \notin DOMAIN created /\ count \notin DOMAIN fired /\ count \notin DOMAIN idmap
  BY TimerAssumption DEF TypeOK
<1>2. timers' = Emplace(timers, e, [id |-> count, interval |-> i])
  BY DEF SetTimer
<1>3. idmap' = Emplace(idmap, count, e)
  BY DEF SetTimer
<1>4. created' = Emplace(created, count, [exp |-> e, interval |-> i])
  BY DEF SetTimer
<1>5. fired' = Emplace(fired, count, 0)
  BY DEF SetTimer
<1>6. /\ DOMAIN timers' = DOMAIN timers \cup {e}
      /\ \A z \in DOMAIN timers : timers'[z] = timers[z]
      /\ e \notin DOMAIN timers => timers'[e] = [id |-> count, interval |-> i]
  BY <1>2 DEF Emplace
<1>7. /\ DOMAIN idmap' = DOMAIN idmap \cup {count}
      /\ \A z \in DOMAIN idmap : idmap'[z] = idmap[z]
      /\ idmap'[count] = e
  BY <1>1, <1>3 DEF Emplace
<1>8. /\ DOMAIN created' = DOMAIN created \cup {count}
      /\ \A z \in DOMAIN created : created'[z] = created[z]
      /\ created'[count] = [exp |-> e, interval |-> i]
  BY <1>1, <1>4 DEF Emplace
<1>9. /\ DOMAIN fired' = DOMAIN fired \cup {count}
      /\ \A z \in DOMAIN fired : fired'[z] = fired[z]
      /\ fired'[count] = 0
  BY <1>1, <1>5 DEF Emplace
<1> QED
  BY <1>6, <1>7, <1>8, <1>9 DEF TimerAdded

\* The end of a callback: a periodic timer is queued again unless its new expiry
\* time is taken, and its id leads there in either case.
RunFinished ==
    \/ /\ cur.interval > 0
       /\ DOMAIN timers' = DOMAIN timers \cup {cur.exp + cur.interval}
       /\ \A z \in DOMAIN timers : timers'[z] = timers[z]
       /\ cur.exp + cur.interval \notin DOMAIN timers =>
              timers'[cur.exp + cur.interval]
                  = [id |-> cur.id, interval |-> cur.interval]
       /\ DOMAIN idmap' = DOMAIN idmap \cup {cur.id}
       /\ \A z \in DOMAIN idmap \ {cur.id} : idmap'[z] = idmap[z]
       /\ idmap'[cur.id] = cur.exp + cur.interval
    \/ /\ ~(cur.interval > 0)
       /\ timers' = timers
       /\ DOMAIN idmap' = DOMAIN idmap \ {cur.id}
       /\ \A z \in DOMAIN idmap' : idmap'[z] = idmap[z]

\* The code after the callback does that.
LEMMA FinishRunEffect ==
    ASSUME FinishRun
    PROVE  RunFinished
<1>1. CASE cur.interval > 0
  <2>1. /\ timers' = Emplace(timers, cur.exp + cur.interval,
                             [id |-> cur.id, interval |-> cur.interval])
        /\ idmap' = Assign(idmap, cur.id, cur.exp + cur.interval)
    BY <1>1 DEF FinishRun
  <2>2. /\ DOMAIN timers' = DOMAIN timers \cup {cur.exp + cur.interval}
        /\ \A z \in DOMAIN timers : timers'[z] = timers[z]
        /\ cur.exp + cur.interval \notin DOMAIN timers =>
               timers'[cur.exp + cur.interval]
                   = [id |-> cur.id, interval |-> cur.interval]
    BY <2>1 DEF Emplace
  <2>3. /\ DOMAIN idmap' = DOMAIN idmap \cup {cur.id}
        /\ \A z \in DOMAIN idmap \ {cur.id} : idmap'[z] = idmap[z]
        /\ idmap'[cur.id] = cur.exp + cur.interval
    BY <2>1 DEF Assign
  <2> QED
    BY <1>1, <2>2, <2>3 DEF RunFinished
<1>2. CASE ~(cur.interval > 0)
  <2>1. timers' = timers /\ idmap' = Without(idmap, cur.id)
    BY <1>2 DEF FinishRun
  <2> QED
    BY <1>2, <2>1 DEF Without, Restrict, RunFinished
<1> QED
  BY <1>1, <1>2

\* cancel_timer takes out the id and whatever its expiry time leads to.
TimerCancelled(id) ==
    /\ DOMAIN timers' = DOMAIN timers \ {idmap[id]}
    /\ \A z \in DOMAIN timers' : timers'[z] = timers[z]
    /\ DOMAIN idmap' = DOMAIN idmap \ {id}
    /\ \A z \in DOMAIN idmap' : idmap'[z] = idmap[z]

\* cancel_timer does that.
LEMMA CancelEffect ==
    ASSUME NEW id \in DOMAIN idmap, Cancel(id)
    PROVE  TimerCancelled(id)
<1>1. timers' = Without(timers, idmap[id]) /\ idmap' = Without(idmap, id)
  BY DEF Cancel
<1> QED
  BY <1>1 DEF Without, Restrict, TimerCancelled

\* handle_time_func takes the first timer out of timers_ and counts a run of it.
ExpiredTaken ==
    /\ First \in DOMAIN timers
    /\ First \in Nat
    /\ timers[First].id \in 0..(count - 1)
    /\ DOMAIN timers' = DOMAIN timers \ {First}
    /\ \A z \in DOMAIN timers' : timers'[z] = timers[z]
    /\ DOMAIN fired' = DOMAIN fired
    /\ \A k \in DOMAIN fired :
          fired'[k] = IF k = timers[First].id THEN fired[k] + 1 ELSE fired[k]

\* A turn of handle_time_func's loop does that.
LEMMA TakeExpiredEffect ==
    ASSUME TypeOK, Cancellable, TakeExpired
    PROVE  ExpiredTaken
<1>1. First \in DOMAIN timers /\ First \in Nat
  BY FirstIsLeast DEF TakeExpired
<1>2. timers[First].id \in 0..(count - 1)
  BY <1>1 DEF Cancellable, TypeOK
<1>3. timers' = Without(timers, First)
  BY DEF TakeExpired
<1>4. /\ DOMAIN timers' = DOMAIN timers \ {First}
      /\ \A z \in DOMAIN timers' : timers'[z] = timers[z]
  BY <1>3 DEF Without, Restrict
<1>5. fired' = [fired EXCEPT ![timers[First].id] = @ + 1]
  BY DEF TakeExpired
<1> QED
  BY <1>1, <1>2, <1>4, <1>5 DEF ExpiredTaken

\* The timer whose callback runs is one that was set.
LEMMA RunningTyped ==
    ASSUME TypeInv, pc = "run"
    PROVE  /\ cur.id \in 0..(count - 1)
           /\ cur.id \in Id
           /\ cur.exp \in Nat
           /\ cur.interval \in Intervals
           /\ cur.interval \in Nat
           /\ cur.from \in {"early", "late"}
<1>1. cur \in [id : 0..(count - 1), exp : Nat, interval : Intervals,
               from : {"early", "late"}]
  BY DEF TypeInv, TypeOK, CurTyped
<1>2. cur.id \in Id
  BY <1>1, TimerAssumption DEF TypeInv, TypeOK, Id
<1> QED
  BY <1>1, <1>2, TimerAssumption

----------------------------------------------------------------------------
\* The constructor's state is well typed.
LEMMA InitTyped == Init => TypeInv
<1> SUFFICES ASSUME Init PROVE TypeInv
  OBVIOUS
<1>1. timers = <<>> /\ idmap = <<>> /\ created = <<>> /\ fired = <<>>
  BY DEF Init
<1>2. /\ DOMAIN timers = {} /\ DOMAIN idmap = {}
      /\ DOMAIN created = {} /\ DOMAIN fired = {}
  BY <1>1
<1>3. 0..(0 - 1) = {}
  OBVIOUS
<1> QED
  BY <1>2, <1>3, TimerAssumption DEF Init, TypeInv, TypeOK, HistoryTyped, CurTyped

\* Every step keeps the types, those of the running timer and of the history too.
LEMMA TypeInductive ==
    ASSUME TypeInv, Cancellable, [Next]_vars
    PROVE  TypeInv'
<1> USE TimerAssumption DEF TypeInv, TypeOK, HistoryTyped, CurTyped, Id
<1>0. HasTimer => First \in DOMAIN timers /\ First \in Nat
  BY FirstIsLeast
<1>1. CASE Tick
  BY <1>1 DEF Tick, history
<1>2. CASE Top
  BY <1>2 DEF Top, history
<1>3. CASE Arm
  <2>1. CASE HasTimer
    <3>1. until' \in Nat \cup {Forever, Overdue}
      BY <1>0, <1>3, <2>1, SMTT(30) DEF Arm, ExpiresMilliseconds
    <3> QED
      BY <1>3, <3>1 DEF Arm, history
  <2>2. CASE ~HasTimer
    BY <1>3, <2>2 DEF Arm, history
  <2> QED
    BY <2>1, <2>2
<1>4. CASE WaitTimeout
  BY <1>4 DEF WaitTimeout, history
<1>5. CASE WaitEvent
  BY <1>5 DEF WaitEvent, history
<1>6. CASE PendingDone
  BY <1>6 DEF PendingDone, history
<1>7. CASE TakeExpired
  <2>1. ExpiredTaken
    BY <1>7, TakeExpiredEffect
  <2>2. cur' \in [id : 0..(count - 1), exp : Nat, interval : Intervals,
                  from : {"early", "late"}]
    BY <1>7, <2>1 DEF TakeExpired, ExpiredTaken
  <2>3. cur' # NoTimer
    BY <2>2 DEF NoTimer
  <2>4. \A e \in DOMAIN timers' : e \in Nat /\ timers'[e] \in [id : Id, interval : Intervals]
    BY <2>1 DEF ExpiredTaken
  <2>5. DOMAIN fired' = DOMAIN fired
    BY <2>1 DEF ExpiredTaken
  <2>6. ASSUME NEW k \in DOMAIN fired PROVE fired'[k] \in Nat
    <3>1. fired[k] \in Nat
      OBVIOUS
    <3>2. fired'[k] \in {fired[k], fired[k] + 1}
      BY <2>1, Zenon DEF ExpiredTaken
    <3> QED
      BY <3>1, <3>2
  <2> QED
    BY <1>7, <2>2, <2>3, <2>4, <2>5, <2>6 DEF TakeExpired, history
<1>8. CASE FinishRun
  <2>1. RunFinished
    BY <1>8, FinishRunEffect
  <2>2. /\ cur.id \in 0..(count - 1) /\ cur.id \in Id
        /\ cur.interval \in Intervals /\ cur.exp + cur.interval \in Nat
        /\ cur.from \in {"early", "late"}
    BY <1>8, RunningTyped DEF FinishRun
  <2>3. \A e \in DOMAIN timers' : e \in Nat /\ timers'[e] \in [id : Id, interval : Intervals]
    BY <2>1, <2>2 DEF RunFinished
  <2>4. /\ DOMAIN idmap' \subseteq 0..(count - 1)
        /\ \A k \in DOMAIN idmap' : idmap'[k] \in Nat
    BY <2>1, <2>2 DEF RunFinished
  <2> QED
    BY <1>8, <2>2, <2>3, <2>4 DEF FinishRun, history
<1>9. CASE NoneExpired
  BY <1>9 DEF NoneExpired, history
<1>10. ASSUME NEW e \in Expiries, NEW i \in Intervals, SetTimer(e, i)
       PROVE  TypeInv'
  <2>1. TimerAdded(e, i)
    BY <1>10, SetTimerEffect
  <2>2. \A d \in DOMAIN timers' : d \in Nat /\ timers'[d] \in [id : Id, interval : Intervals]
    <3>1. e \in Nat /\ [id |-> count, interval |-> i] \in [id : Id, interval : Intervals]
      BY <1>10 DEF SetTimer
    <3>2. \A d \in DOMAIN timers : d \in Nat /\ timers[d] \in [id : Id, interval : Intervals]
      OBVIOUS
    <3>3. \A d \in DOMAIN timers' :
              \/ d \in DOMAIN timers /\ timers'[d] = timers[d]
              \/ d = e /\ timers'[d] = [id |-> count, interval |-> i]
      BY <2>1 DEF TimerAdded
    <3> QED
      BY <3>1, <3>2, <3>3, Zenon
  <2>3. /\ DOMAIN idmap' \subseteq 0..(count' - 1)
        /\ \A k \in DOMAIN idmap' : idmap'[k] \in Nat
    BY <1>10, <2>1 DEF SetTimer, TimerAdded
  <2>4. count' = count + 1 /\ 0..(count - 1) \cup {count} = 0..(count' - 1)
    BY <1>10 DEF SetTimer
  <2>5. DOMAIN created' = 0..(count' - 1) /\ DOMAIN fired' = 0..(count' - 1)
    BY <2>1, <2>4 DEF TimerAdded
  <2>6. [exp |-> e, interval |-> i] \in [exp : Nat, interval : Intervals]
    OBVIOUS
  <2>7. \A k \in DOMAIN created' : created'[k] \in [exp : Nat, interval : Intervals]
    BY <2>1, <2>6, Zenon DEF TimerAdded
  <2>8. \A k \in DOMAIN fired' : fired'[k] \in Nat
    BY <2>1 DEF TimerAdded
  <2> QED
    BY <1>10, <2>2, <2>3, <2>5, <2>7, <2>8 DEF SetTimer
<1>11. ASSUME NEW id \in DOMAIN idmap, Cancel(id)
       PROVE  TypeInv'
  <2>1. TimerCancelled(id)
    BY <1>11, CancelEffect
  <2> QED
    BY <1>11, <2>1 DEF Cancel, TimerCancelled
<1>12. CASE UNCHANGED vars
  BY <1>12 DEF vars
<1> QED
  BY <1>1, <1>2, <1>3, <1>4, <1>5, <1>6, <1>7, <1>8, <1>9, <1>10, <1>11, <1>12
  DEF Next, LoopStep

(***************************************************************************)
(* Most steps move only the clock and the loop's place.                    *)
(***************************************************************************)
Passive ==
    /\ UNCHANGED <<timers, idmap, cur, count, created, fired, cancelled>>
    /\ pc' = "run" <=> pc = "run"
    /\ now <= now'

\* Every step is one of the four that touch the containers, or passive.
LEMMA StepKinds ==
    ASSUME TypeOK, [Next]_vars
    PROVE  \/ Passive
           \/ TakeExpired
           \/ FinishRun
           \/ \E e \in Expiries, i \in Intervals : SetTimer(e, i)
           \/ \E id \in DOMAIN idmap : Cancel(id)
<1> USE TimerAssumption DEF Passive, history
<1>0. now \in Nat
  BY DEF TypeOK
<1>1. Tick => Passive
  BY <1>0 DEF Tick
<1>2. Top => Passive
  BY <1>0 DEF Top
<1>3. Arm => Passive
  BY <1>0 DEF Arm
<1>4. WaitTimeout => Passive
  BY <1>0 DEF WaitTimeout
<1>5. WaitEvent => Passive
  BY <1>0 DEF WaitEvent
<1>6. PendingDone => Passive
  BY <1>0 DEF PendingDone
<1>7. NoneExpired => Passive
  BY <1>0 DEF NoneExpired
<1>8. UNCHANGED vars => Passive
  BY <1>0 DEF vars
<1> HIDE DEF Passive
<1> QED
  BY <1>1, <1>2, <1>3, <1>4, <1>5, <1>6, <1>7, <1>8 DEF Next, LoopStep

----------------------------------------------------------------------------
(***************************************************************************)
(* timers_ and id_to_timers_ agree.                                        *)
(***************************************************************************)

\* Every step keeps the entries of timers_ cancellable.
LEMMA QueueInductive ==
    ASSUME QueueInv, [Next]_vars
    PROVE  QueueInv'
<1>0. TypeInv /\ TypeOK /\ Cancellable /\ RunningIsOut
  BY DEF QueueInv, TypeInv
<1>1. TypeInv'
  BY <1>0, TypeInductive
<1>2. CASE Passive
  BY <1>0, <1>1, <1>2 DEF Passive, QueueInv, Cancellable, RunningIsOut
<1>3. CASE TakeExpired
  <2>1. ExpiredTaken
    BY <1>0, <1>3, TakeExpiredEffect
  <2>2. Cancellable'
    BY <1>0, <1>3, <2>1 DEF TakeExpired, ExpiredTaken, Cancellable
  <2>3. cur'.id = timers[First].id
    BY <1>3 DEF TakeExpired
  <2>4. RunningIsOut'
    BY <1>0, <2>1, <2>3 DEF ExpiredTaken, Cancellable, RunningIsOut
  <2> QED
    BY <1>1, <2>2, <2>4 DEF QueueInv
<1>4. CASE FinishRun
  <2>1. RunFinished
    BY <1>4, FinishRunEffect
  <2>2. pc = "run" /\ cur.from \in {"early", "late"} /\ pc' = cur.from
    BY <1>0, <1>4, RunningTyped DEF FinishRun
  <2>3. RunningIsOut'
    BY <2>2 DEF RunningIsOut
  <2>4. Cancellable'
    BY <1>0, <2>1, <2>2 DEF RunFinished, Cancellable, RunningIsOut
  <2> QED
    BY <1>1, <2>3, <2>4 DEF QueueInv
<1>5. ASSUME NEW e \in Expiries, NEW i \in Intervals, SetTimer(e, i)
      PROVE  QueueInv'
  <2>1. TimerAdded(e, i)
    BY <1>0, <1>5, SetTimerEffect
  <2>2. count \notin DOMAIN idmap
    BY <1>0, TimerAssumption DEF TypeOK
  <2>3. Cancellable'
    BY <1>0, <2>1, <2>2 DEF TimerAdded, Cancellable
  <2>4. pc = "run" => cur.id # count
    BY <1>0, RunningTyped, TimerAssumption DEF TypeOK
  <2>5. pc' = pc /\ cur' = cur
    BY <1>5 DEF SetTimer
  <2>6. RunningIsOut'
    BY <1>0, <2>1, <2>4, <2>5 DEF TimerAdded, RunningIsOut
  <2> QED
    BY <1>1, <2>3, <2>6 DEF QueueInv
<1>6. ASSUME NEW id \in DOMAIN idmap, Cancel(id)
      PROVE  QueueInv'
  <2>1. TimerCancelled(id)
    BY <1>6, CancelEffect
  <2>2. Cancellable'
    BY <1>0, <2>1 DEF TimerCancelled, Cancellable
  <2>3. pc' = pc /\ cur' = cur
    BY <1>6 DEF Cancel
  <2>4. RunningIsOut'
    BY <1>0, <2>1, <2>3 DEF TimerCancelled, RunningIsOut
  <2> QED
    BY <1>1, <2>2, <2>4 DEF QueueInv
<1> QED
  BY <1>0, <1>2, <1>3, <1>4, <1>5, <1>6, StepKinds

\* Before the first timer there is nothing to cancel.
LEMMA InitQueue == Init => QueueInv
<1> SUFFICES ASSUME Init PROVE QueueInv
  OBVIOUS
<1>1. TypeInv
  BY InitTyped
<1>2. DOMAIN timers = {}
  BY DEF Init
<1> QED
  BY <1>1, <1>2 DEF QueueInv, Cancellable, RunningIsOut

\* The queue, its history and the loop's place keep their types.
THEOREM TypeCorrect == Spec => []TypeOK
<1>1. Init => QueueInv
  BY InitQueue
<1>2. QueueInv /\ [Next]_vars => QueueInv'
  BY QueueInductive
<1>3. QueueInv => TypeOK
  BY DEF QueueInv, TypeInv
<1> QED
  BY <1>1, <1>2, <1>3, PTL DEF Spec

\* What is in timers_ can be cancelled: its id leads to its own entry, whatever met it at
\* its expiry time, moved or was cancelled before.
THEOREM QueueCorrect == Spec => []Cancellable
<1>1. Init => QueueInv
  BY InitQueue
<1>2. QueueInv /\ [Next]_vars => QueueInv'
  BY QueueInductive
<1>3. QueueInv => Cancellable
  BY DEF QueueInv
<1> QED
  BY <1>1, <1>2, <1>3, PTL DEF Spec

----------------------------------------------------------------------------
(***************************************************************************)
(* Cancelling is final.                                                    *)
(***************************************************************************)

\* No step brings a cancelled timer back.
LEMMA CancelInductive ==
    ASSUME CancelInv, [Next]_vars
    PROVE  CancelInv'
<1>0. /\ QueueInv /\ TypeInv /\ TypeOK /\ Cancellable /\ RunningIsOut
      /\ CancelledIsGone
  BY DEF CancelInv, QueueInv, TypeInv
<1>1. QueueInv'
  BY <1>0, QueueInductive
<1>2. cancelled \subseteq 0..(count - 1) /\ count \notin cancelled
  BY <1>0, TimerAssumption DEF TypeOK
<1>3. CASE Passive
  BY <1>0, <1>1, <1>3 DEF Passive, CancelInv, CancelledIsGone
<1>4. CASE TakeExpired
  <2>1. ExpiredTaken
    BY <1>0, <1>4, TakeExpiredEffect
  <2>2. cur'.id = timers[First].id /\ cancelled' = cancelled /\ idmap' = idmap
    BY <1>4 DEF TakeExpired, history
  <2>3. cur'.id \in DOMAIN idmap
    BY <1>0, <2>1, <2>2 DEF ExpiredTaken, Cancellable
  <2> QED
    BY <1>0, <1>1, <2>2, <2>3 DEF CancelInv, CancelledIsGone
<1>5. CASE FinishRun
  <2>1. RunFinished
    BY <1>5, FinishRunEffect
  <2>2. cur' = NoTimer /\ cancelled' = cancelled
    BY <1>5 DEF FinishRun, history
  <2>3. DOMAIN idmap' \cap cancelled = {}
    BY <1>0, <2>1 DEF RunFinished, CancelledIsGone
  <2>4. cur'.id \notin cancelled
    BY <1>2, <2>2 DEF NoTimer
  <2> QED
    BY <1>1, <2>2, <2>3, <2>4 DEF CancelInv, CancelledIsGone
<1>6. ASSUME NEW e \in Expiries, NEW i \in Intervals, SetTimer(e, i)
      PROVE  CancelInv'
  <2>1. TimerAdded(e, i)
    BY <1>0, <1>6, SetTimerEffect
  <2>2. cancelled' = cancelled /\ cur' = cur
    BY <1>6 DEF SetTimer
  <2> QED
    BY <1>0, <1>1, <1>2, <2>1, <2>2 DEF CancelInv, CancelledIsGone, TimerAdded
<1>7. ASSUME NEW id \in DOMAIN idmap, Cancel(id)
      PROVE  CancelInv'
  <2>1. TimerCancelled(id)
    BY <1>7, CancelEffect
  <2>2. cur' = cur /\ cancelled' = IF cur.id = id THEN cancelled ELSE cancelled \cup {id}
    BY <1>7 DEF Cancel
  <2> QED
    BY <1>0, <1>1, <2>1, <2>2 DEF CancelInv, CancelledIsGone, TimerCancelled
<1> QED
  BY <1>0, <1>3, <1>4, <1>5, <1>6, <1>7, StepKinds

\* cancel_timer is final, except from the timer's own callback: for every number of
\* timers a cancelled one is neither queued nor running again.
THEOREM CancelFinal == Spec => []CancelledStaysCancelled
<1>1. Init => CancelInv
  <2> SUFFICES ASSUME Init PROVE CancelInv
    OBVIOUS
  <2>1. cancelled = {}
    BY DEF Init
  <2> QED
    BY <2>1, InitQueue DEF CancelInv, CancelledIsGone
<1>2. CancelInv /\ [Next]_vars => CancelInv'
  BY CancelInductive
<1>3. CancelInv => CancelledStaysCancelled
  BY DEF CancelInv, QueueInv, Cancellable, CancelledIsGone, CancelledStaysCancelled
<1> QED
  BY <1>1, <1>2, <1>3, PTL DEF Spec

----------------------------------------------------------------------------
(***************************************************************************)
(* Runs and expiry times.                                                  *)
(***************************************************************************)

\* update_time keeps a timer in step with the number of its runs.
LEMMA NextInStep ==
    ASSUME NEW x \in Nat, NEW n \in Nat, NEW i \in Nat
    PROVE  /\ x + n * i + i = x + (n + 1) * i
           /\ n * i \in Nat
           /\ (n + 1) - 1 = n
OBVIOUS

\* What an interval has elapsed n times for.
LEMMA ElapsedPeriods ==
    ASSUME NEW t \in Nat, NEW n \in Nat, NEW i \in Nat, i > 0, n * i <= t
    PROVE  n <= t \div i
<1> DEFINE d == t \div i
<1>1. d \in Nat /\ t < (d + 1) * i
  OBVIOUS
<1> HIDE DEF d
<1>2. CASE n >= d + 1
  <2>1. PICK k \in Nat : n = d + 1 + k
    <3>1. n - (d + 1) \in Nat
      BY <1>1, <1>2
    <3> QED
      BY <1>1, <3>1
  <2>2. n * i = (d + 1) * i + k * i /\ k * i >= 0 /\ (d + 1) * i \in Nat /\ k * i \in Nat
    BY <1>1, <2>1
  <2> QED
    BY <1>1, <2>2
<1> QED
  BY <1>1, <1>2 DEF d

\* Every step keeps the timers in step with their runs.
LEMMA RunsInductive ==
    ASSUME RunsInv, [Next]_vars
    PROVE  RunsInv'
<1>0. /\ QueueInv /\ TypeInv /\ TypeOK /\ HistoryTyped /\ Cancellable
      /\ QueuedInStep /\ RunningInStep /\ RunsWereDue
  BY DEF RunsInv, QueueInv, TypeInv
<1>1. QueueInv' /\ now \in Nat
  BY <1>0, QueueInductive, TimerAssumption DEF TypeOK
<1>2. /\ DOMAIN created = 0..(count - 1) /\ DOMAIN fired = DOMAIN created
      /\ \A id \in DOMAIN created :
            /\ fired[id] \in Nat /\ created[id].exp \in Nat /\ created[id].interval \in Nat
            /\ fired[id] * created[id].interval \in Nat
  BY <1>0, TimerAssumption, NextInStep DEF TypeOK, HistoryTyped
<1>3. \A e \in DOMAIN timers : timers[e].id \in DOMAIN created
  BY <1>0 DEF TypeOK, Cancellable
<1>4. CASE Passive
  <2>1. RunsWereDue'
    <3> SUFFICES ASSUME NEW id \in DOMAIN created, fired[id] # 0
                 PROVE  /\ created[id].exp + (fired[id] - 1) * created[id].interval <= now'
                        /\ created[id].interval = 0 => fired[id] = 1
      BY <1>4 DEF Passive, RunsWereDue
    <3>1. now' \in Nat /\ now <= now'
      BY <1>1, <1>4, TimerAssumption DEF Passive, QueueInv, TypeInv, TypeOK
    <3>2. (fired[id] - 1) * created[id].interval \in Nat
      <4>1. fired[id] - 1 \in Nat
        BY <1>2
      <4> QED
        BY <1>2, <4>1, NextInStep
    <3> QED
      BY <1>0, <1>1, <1>2, <3>1, <3>2 DEF RunsWereDue
  <2> QED
    BY <1>0, <1>1, <1>4, <2>1 DEF Passive, RunsInv, QueuedInStep, RunningInStep, InStep
<1>5. CASE TakeExpired
  <2> DEFINE id == timers[First].id
  <2>1. ExpiredTaken
    BY <1>0, <1>5, TakeExpiredEffect
  <2>2. /\ cur'.id = id /\ cur'.exp = First /\ cur'.interval = timers[First].interval
        /\ created' = created /\ now' = now /\ First <= now
    BY <1>5 DEF TakeExpired, history
  <2>3. /\ id \in DOMAIN created
        /\ timers[First].interval = created[id].interval
        /\ First = created[id].exp + fired[id] * created[id].interval
        /\ created[id].interval = 0 => fired[id] = 0
        /\ fired'[id] = fired[id] + 1
        /\ DOMAIN fired' = DOMAIN fired
        /\ \A k \in DOMAIN fired \ {id} : fired'[k] = fired[k]
    BY <1>0, <1>2, <1>3, <2>1 DEF ExpiredTaken, QueuedInStep, InStep
  <2>4. \A e \in DOMAIN timers' :
            e \in DOMAIN timers /\ timers'[e] = timers[e] /\ timers[e].id # id
    BY <1>0, <2>1 DEF ExpiredTaken, Cancellable
  <2> HIDE DEF id
  <2>5. QueuedInStep'
    <3> SUFFICES ASSUME NEW e \in DOMAIN timers'
                 PROVE  LET t == timers'[e]
                        IN  /\ t.interval = created'[t.id].interval
                            /\ e = created'[t.id].exp + fired'[t.id] * t.interval
                            /\ t.interval = 0 => fired'[t.id] = 0
      BY DEF QueuedInStep, InStep
    <3>1. e \in DOMAIN timers /\ timers'[e] = timers[e] /\ timers[e].id # id
      BY <2>4
    <3>2. fired'[timers[e].id] = fired[timers[e].id]
      BY <1>2, <1>3, <2>3, <3>1
    <3>3. LET t == timers[e]
          IN  /\ t.interval = created[t.id].interval
              /\ e = created[t.id].exp + fired[t.id] * t.interval
              /\ t.interval = 0 => fired[t.id] = 0
      BY <1>0, <3>1 DEF QueuedInStep, InStep
    <3> QED
      BY <2>2, <3>1, <3>2, <3>3, Zenon
  <2>6. RunningInStep'
    <3>1. First + created[id].interval
              = created[id].exp + (fired[id] + 1) * created[id].interval
      <4>1. created[id].exp \in Nat /\ fired[id] \in Nat /\ created[id].interval \in Nat
        BY <1>2, <2>3
      <4>2. created[id].exp + fired[id] * created[id].interval + created[id].interval
                = created[id].exp + (fired[id] + 1) * created[id].interval
        BY <4>1, NextInStep
      <4> QED
        BY <2>3, <4>2
    <3> QED
      BY <2>2, <2>3, <3>1 DEF RunningInStep, InStep
  <2>7. RunsWereDue'
    <3>1. fired'[id] - 1 = fired[id] /\ (created[id].interval = 0 => fired'[id] = 1)
      BY <1>2, <2>3
    <3>2. created[id].exp + (fired'[id] - 1) * created[id].interval <= now
      BY <2>2, <2>3, <3>1
    <3>3. ASSUME NEW k \in DOMAIN created, k # id, fired'[k] # 0
          PROVE  /\ created[k].exp + (fired'[k] - 1) * created[k].interval <= now
                 /\ created[k].interval = 0 => fired'[k] = 1
      <4>1. fired'[k] = fired[k]
        BY <1>2, <2>3, <3>3
      <4> QED
        BY <1>0, <3>3, <4>1 DEF RunsWereDue
    <3> QED
      BY <2>2, <3>1, <3>2, <3>3 DEF RunsWereDue
  <2> QED
    BY <1>1, <2>5, <2>6, <2>7 DEF RunsInv
<1>6. CASE FinishRun
  <2>1. RunFinished
    BY <1>6, FinishRunEffect
  <2>2. /\ cur.id \in DOMAIN created /\ cur.interval \in Nat /\ pc = "run"
        /\ cur.from \in {"early", "late"}
    BY <1>0, <1>2, <1>6, RunningTyped DEF FinishRun
  <2>3. pc' = cur.from /\ created' = created /\ fired' = fired /\ now' = now
    BY <1>6 DEF FinishRun, history
  <2>4. InStep(cur.id, cur.exp + cur.interval, cur.interval, fired[cur.id])
    BY <1>0, <2>2 DEF RunningInStep
  <2>5. QueuedInStep'
    BY <1>0, <2>1, <2>3, <2>4 DEF RunFinished, QueuedInStep, InStep
  <2>6. RunningInStep' /\ RunsWereDue'
    BY <1>0, <2>2, <2>3 DEF RunningInStep, RunsWereDue
  <2> QED
    BY <1>1, <2>5, <2>6 DEF RunsInv
<1>7. ASSUME NEW e \in Expiries, NEW i \in Intervals, SetTimer(e, i)
      PROVE  RunsInv'
  <2>1. TimerAdded(e, i)
    BY <1>0, <1>7, SetTimerEffect
  <2>2. e \in Nat /\ i \in Nat /\ e = e + 0 * i
    BY TimerAssumption
  <2>3. cur' = cur /\ now' = now /\ pc' = pc /\ (pc = "run" => cur.id \in DOMAIN created)
    BY <1>0, <1>2, <1>7, RunningTyped DEF SetTimer
  <2>4. count \notin DOMAIN created
    BY <1>0, TimerAssumption DEF TypeOK
  <2>5. QueuedInStep'
    BY <1>0, <1>2, <1>3, <2>1, <2>2, <2>4 DEF TimerAdded, QueuedInStep, InStep
  <2>6. RunningInStep'
    BY <1>0, <1>2, <2>1, <2>3, <2>4 DEF TimerAdded, RunningInStep, InStep
  <2>7. RunsWereDue'
    BY <1>0, <1>2, <2>1, <2>3, <2>4 DEF TimerAdded, RunsWereDue
  <2> QED
    BY <1>1, <2>5, <2>6, <2>7 DEF RunsInv
<1>8. ASSUME NEW id \in DOMAIN idmap, Cancel(id)
      PROVE  RunsInv'
  <2>1. TimerCancelled(id)
    BY <1>8, CancelEffect
  <2>2. UNCHANGED <<cur, pc, now, created, fired>>
    BY <1>8 DEF Cancel
  <2> QED
    BY <1>0, <1>1, <2>1, <2>2
    DEF TimerCancelled, RunsInv, QueuedInStep, RunningInStep, RunsWereDue, InStep
<1> QED
  BY <1>0, <1>4, <1>5, <1>6, <1>7, <1>8, StepKinds

\* A timer that ran for the n-th time has been due n times.
LEMMA RunsBounded == RunsInv => NeverTooOften
<1> SUFFICES ASSUME RunsInv, NEW id \in DOMAIN created
             PROVE  LET c == created[id]
                    IN  fired[id] <= IF now < c.exp THEN 0
                                     ELSE IF c.interval = 0 THEN 1
                                     ELSE 1 + (now - c.exp) \div c.interval
  BY DEF NeverTooOften
<1> DEFINE x == created[id].exp
           i == created[id].interval
           n == fired[id]
<1>1. x \in Nat /\ i \in Nat /\ n \in Nat /\ now \in Nat
  <2>1. TypeOK /\ HistoryTyped
    BY DEF RunsInv, QueueInv, TypeInv
  <2>2. created[id] \in [exp : Nat, interval : Intervals]
    BY <2>1 DEF HistoryTyped
  <2>3. DOMAIN fired = DOMAIN created /\ now \in Nat
    BY <2>1, TimerAssumption DEF TypeOK
  <2>4. n \in Nat
    BY <2>1, <2>3 DEF HistoryTyped
  <2> QED
    BY <2>2, <2>3, <2>4, TimerAssumption
<1>2. n # 0 => x + (n - 1) * i <= now /\ (i = 0 => n = 1)
  BY DEF RunsInv, RunsWereDue
<1> SUFFICES n <= IF now < x THEN 0 ELSE IF i = 0 THEN 1 ELSE 1 + (now - x) \div i
  OBVIOUS
<1> HIDE DEF x, i, n
<1>3. CASE n = 0
  <2>1. CASE now >= x /\ i # 0
    <3>1. now - x \in Nat /\ (now - x) \div i \in Nat
      BY <1>1, <2>1
    <3> QED
      BY <1>1, <1>3, <2>1, <3>1
  <2> QED
    BY <1>1, <1>3, <2>1
<1>4. CASE n # 0
  <2>1. n - 1 \in Nat /\ (n - 1) * i \in Nat
    BY <1>1, <1>4
  <2>2. x <= now /\ now - x \in Nat /\ (n - 1) * i <= now - x
    BY <1>1, <1>2, <1>4, <2>1
  <2>3. i > 0 => n - 1 <= (now - x) \div i
    BY <1>1, <2>1, <2>2, ElapsedPeriods
  <2>4. i > 0 => (now - x) \div i \in Nat
    BY <1>1, <2>2
  <2> QED
    BY <1>1, <1>2, <1>4, <2>2, <2>3, <2>4
<1> QED
  BY <1>3, <1>4

\* A timer runs at most once per period that has elapsed, and a one-shot once, although
\* periodic timers are queued again from their own expiry time, however late they run.
THEOREM RunsCorrect == Spec => []NeverTooOften
<1>1. Init => RunsInv
  <2> SUFFICES ASSUME Init PROVE RunsInv
    OBVIOUS
  <2>1. DOMAIN timers = {} /\ DOMAIN created = {} /\ pc = "pending"
    BY DEF Init
  <2> QED
    BY <2>1, InitQueue DEF RunsInv, QueuedInStep, RunningInStep, RunsWereDue
<1>2. RunsInv /\ [Next]_vars => RunsInv'
  BY RunsInductive
<1> QED
  BY <1>1, <1>2, RunsBounded, PTL DEF Spec

----------------------------------------------------------------------------
(***************************************************************************)
(* epoll_wait's timeout.  It is computed from the first timer, nothing is  *)
(* queued while epoll_wait sleeps, and a whole number of milliseconds is   *)
(* never more than what is left.                                           *)
(***************************************************************************)

\* duration_cast rounds down.
LEMMA RoundsDown ==
    ASSUME NEW t \in Nat, NEW m \in Nat, m > 0
    PROVE  (t \div m) * m <= t /\ (t \div m) * m \in Nat
OBVIOUS

\* A finite timeout never lets epoll_wait sleep beyond the first expiry time.
THEOREM WakeCorrect == Spec => []WakesInTime
<1> DEFINE Inv == QueueInv /\ WakesInTime
<1>1. Init => Inv
  BY InitQueue DEF Init, WakesInTime
<1>2. Inv /\ [Next]_vars => Inv'
  <2> SUFFICES ASSUME Inv, [Next]_vars PROVE WakesInTime'
    BY QueueInductive
  <2>0. TypeInv /\ TypeOK /\ Cancellable
    BY DEF QueueInv, TypeInv
  <2> USE DEF WakesInTime, history
  <2>1. CASE Tick
    BY <2>0, <2>1, TimerAssumption DEF Tick, TypeOK, Forever, Overdue
  <2>2. CASE Arm
    <3> SUFFICES ASSUME until' \notin {Forever, Overdue}, NEW e \in DOMAIN timers
                 PROVE  until' <= e \/ until' <= now
      BY <2>2 DEF Arm
    <3>1. HasTimer /\ ~(ExpiresMilliseconds(First) < 0)
      BY <2>2 DEF Arm, HasTimer
    <3>2. until' = now + ExpiresMilliseconds(First) * TicksPerMs
      BY <2>2, <3>1 DEF Arm
    <3>3. First \in Nat /\ e \in Nat /\ First <= e /\ now \in Nat /\ TicksPerMs \in Nat /\ TicksPerMs > 0
      BY <2>0, <3>1, FirstIsLeast, TimerAssumption DEF TypeOK
    <3>4. CASE First >= now
      <4>1. First - now \in Nat /\ ExpiresMilliseconds(First) = (First - now) \div TicksPerMs
        BY <3>3, <3>4 DEF ExpiresMilliseconds
      <4>2. until' <= now + (First - now)
        BY <3>2, <3>3, <4>1, RoundsDown
      <4>3. until' \in Nat
        BY <3>2, <3>3, <4>1, RoundsDown
      <4> QED
        BY <3>3, <4>2, <4>3
    <3>5. CASE First < now
      <4>1. now - First \in Nat /\ ExpiresMilliseconds(First) = -((now - First) \div TicksPerMs)
        BY <3>3, <3>5 DEF ExpiresMilliseconds
      <4>2. (now - First) \div TicksPerMs \in Nat
        BY <3>3, <4>1
      <4>3. ExpiresMilliseconds(First) = 0
        BY <3>1, <4>1, <4>2
      <4> QED
        BY <3>2, <3>3, <4>3
    <3> QED
      BY <3>3, <3>4, <3>5
  <2>3. CASE Top
    BY <2>3 DEF Top
  <2>4. CASE WaitTimeout
    BY <2>4 DEF WaitTimeout
  <2>5. CASE WaitEvent
    BY <2>5 DEF WaitEvent
  <2>6. CASE PendingDone
    BY <2>6 DEF PendingDone
  <2>7. CASE TakeExpired
    BY <2>7 DEF TakeExpired
  <2>8. CASE FinishRun
    <3>1. pc' \in {"early", "late"}
      BY <2>0, <2>8, RunningTyped DEF FinishRun
    <3> QED
      BY <3>1
  <2>9. CASE NoneExpired
    BY <2>9 DEF NoneExpired
  <2>10. ASSUME NEW e \in Expiries, NEW i \in Intervals, SetTimer(e, i)
         PROVE  WakesInTime'
    BY <2>10 DEF SetTimer, UserCode
  <2>11. ASSUME NEW id \in DOMAIN idmap, Cancel(id)
         PROVE  WakesInTime'
    BY <2>11 DEF Cancel, UserCode
  <2>12. CASE UNCHANGED vars
    BY <2>12 DEF vars
  <2> QED
    BY <2>1, <2>2, <2>3, <2>4, <2>5, <2>6, <2>7, <2>8, <2>9, <2>10, <2>11, <2>12
    DEF Next, LoopStep
<1> QED
  BY <1>1, <1>2, PTL DEF Spec
=============================================================================

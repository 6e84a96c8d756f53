-------------------------- MODULE EventLoopProofs --------------------------
(***************************************************************************)
(* Proofs about EventLoop, for any set of producers and any sizes.         *)
(***************************************************************************)
EXTENDS EventLoop, SequenceTheorems, TLAPS

\* Typing of every step of the loop and of its callers.
LEMMA TypeInductive ==
    ASSUME TypeOK, [Next]_vars
    PROVE  TypeOK'
<1> USE BoundsAssumption DEF TypeOK, PC
<1>1. ASSUME NEW p \in Producers, Push(p)
      PROVE  TypeOK'
  <2>1. <<p, calls[p] + 1>> \in Functor
    BY <1>1 DEF Push, Functor
  <2> QED
    BY <1>1, <2>1 DEF Push, loopVars, quitVars
<1>2. ASSUME NEW p \in Producers, Quit(p)
      PROVE  TypeOK'
  BY <1>2 DEF Quit, loopVars
<1>3. ASSUME NEW p \in Producers, Notify(p)
      PROVE  TypeOK'
  <2>1. edge' \in BOOLEAN
    BY <1>3, Zenon DEF Notify
  <2>2. pipe' \in 0..PipeCap
    BY <1>3 DEF Notify
  <2> QED
    BY <1>3, <2>1, <2>2 DEF Notify, loopVars, quitVars
<1>4. CASE Check
  BY <1>4 DEF Check, callVars, quitVars
<1>5. CASE WaitEvent
  BY <1>5 DEF WaitEvent, callVars, quitVars
<1>6. CASE WaitOther
  BY <1>6 DEF WaitOther, callVars, quitVars
<1>7. CASE Clear
  BY <1>7 DEF Clear, callVars, quitVars
<1>8. CASE Swap
  BY <1>8 DEF Swap, callVars, quitVars
<1>9. CASE RunFunctor
  <2>1. Head(batch) \in Functor /\ Tail(batch) \in Seq(Functor)
    BY <1>9, HeadTailProperties DEF RunFunctor
  <2>2. quit' \in BOOLEAN /\ asked' \in BOOLEAN /\ (asked' => quit')
    BY <1>9, Zenon DEF RunFunctor
  <2> QED
    BY <1>9, <2>1, <2>2 DEF RunFunctor, callVars
<1>10. CASE FinishOnce
  <2>1. quit' \in BOOLEAN /\ asked' \in BOOLEAN /\ (asked' => quit')
    BY <1>10, Zenon DEF FinishOnce
  <2> QED
    BY <1>10, <2>1 DEF FinishOnce, callVars
<1>11. CASE RunTimers
  <2>1. asked' = asked /\ (quit' = quit \/ quit' = TRUE)
    BY <1>11 DEF RunTimers
  <2>2. quit' \in BOOLEAN /\ asked' \in BOOLEAN /\ (asked' => quit')
    BY <2>1, Zenon
  <2> QED
    BY <1>11, <2>2 DEF RunTimers, callVars
<1>12. CASE UNCHANGED vars
  BY <1>12 DEF vars
<1> QED
  BY <1>1, <1>2, <1>3, <1>4, <1>5, <1>6, <1>7, <1>8, <1>9, <1>10, <1>11, <1>12
  DEF Next, LoopStep, ProducerStep

\* The states the constructors leave are well typed.
LEMMA InitTyped == Init => TypeOK
<1> SUFFICES ASSUME Init PROVE TypeOK
  OBVIOUS
<1>1. <<>> \in Seq(Functor)
  BY EmptySeq
<1>2. calls \in [Producers -> 0..MaxCalls] /\ pipe \in 0..PipeCap
  BY BoundsAssumption DEF Init
<1>3. ppc \in [Producers -> {"idle", "notify"}]
  BY DEF Init
<1> QED
  BY <1>1, <1>2, <1>3, Zenon DEF Init, TypeOK, PC

\* The loop, its pipe and its queue keep their types.
THEOREM TypeCorrect == Spec => []TypeOK
<1>1. Init => TypeOK
  BY InitTyped
<1>2. TypeOK /\ [Next]_vars => TypeOK'
  BY TypeInductive
<1> QED
  BY <1>1, <1>2, PTL DEF Spec

----------------------------------------------------------------------------
(***************************************************************************)
(* Wakeups.  NoLostWakeup speaks of the moment before epoll_wait; what     *)
(* makes it inductive is that it already holds from the swap on, that      *)
(* NoLostQuit already holds once while(!quit_) has been passed, and that   *)
(* an edge is only ever missing for bytes that clear() is about to read.   *)
(***************************************************************************)

\* A functor pushed since the last swap has its wakeup on the way.
Announced ==
    pc \in {"run", "check", "timers", "wait"} /\ pending # <<>> => Readable \/ Notifying

\* A quit() that has come since while(!quit_) has its wakeup on the way.
QuitAnnounced ==
    pc \in {"timers", "wait"} /\ asked => Readable \/ Notifying

\* If later writes raise no edge, bytes in the pipe are on the ready list except
\* while the read callback runs.
ByteHasEdge ==
    EdgeTriggered /\ ~EveryWriteWakes /\ pc # "clear" /\ pipe > 0 => edge

WakeInv == TypeOK /\ ByteHasEdge /\ Announced /\ QuitAnnounced

\* A byte written while the loop is not in its read callback is reported.
LEMMA NotifyMakesReadable ==
    ASSUME TypeOK, ByteHasEdge, NEW p \in Producers, Notify(p), pc # "clear"
    PROVE  Readable'
<1> USE BoundsAssumption DEF TypeOK
<1>1. pipe' > 0
  BY DEF Notify
<1>2. CASE ~EdgeTriggered
  BY <1>1, <1>2 DEF Readable
<1>3. CASE EveryWriteWakes
  <2>1. edge'
    BY <1>3, Zenon DEF Notify
  <2> QED
    BY <1>1, <2>1 DEF Readable
<1>4. CASE EdgeTriggered /\ ~EveryWriteWakes
  <2>1. CASE pipe = 0
    <3>1. edge'
      BY <2>1, Zenon DEF Notify
    <3> QED
      BY <1>1, <3>1 DEF Readable
  <2>2. CASE pipe > 0
    <3>1. edge
      BY <1>4, <2>2 DEF ByteHasEdge
    <3>2. edge'
      BY <3>1, Zenon DEF Notify
    <3> QED
      BY <1>1, <3>2 DEF Readable
  <2> QED
    BY <2>1, <2>2
<1> QED
  BY <1>2, <1>3, <1>4

\* A caller that still owes its byte keeps owing it until its own Notify.
LEMMA NotifyingKept ==
    ASSUME Notifying, ppc' = ppc
    PROVE  Notifying'
BY Zenon DEF Notifying

\* Every step keeps the wakeup invariant.
LEMMA WakeInductive ==
    ASSUME WakeInv, [Next]_vars
    PROVE  WakeInv'
<1> USE BoundsAssumption DEF WakeInv
<1> SUFFICES ByteHasEdge' /\ Announced' /\ QuitAnnounced'
  BY TypeInductive
<1>1. ASSUME NEW p \in Producers, Push(p) \/ Quit(p)
      PROVE  ByteHasEdge' /\ Announced' /\ QuitAnnounced'
  <2>1. Notifying'
    BY <1>1, Zenon DEF Push, Quit, Notifying, TypeOK
  <2>2. ByteHasEdge'
    BY <1>1 DEF Push, Quit, ByteHasEdge, loopVars
  <2> QED
    BY <2>1, <2>2 DEF Announced, QuitAnnounced
<1>2. ASSUME NEW p \in Producers, Notify(p)
      PROVE  ByteHasEdge' /\ Announced' /\ QuitAnnounced'
  <2>1. pc' = pc
    BY <1>2 DEF Notify, loopVars
  <2>2. CASE pc = "clear"
    BY <2>1, <2>2 DEF ByteHasEdge, Announced, QuitAnnounced
  <2>3. CASE pc # "clear"
    <3>1. Readable'
      BY <1>2, <2>3, NotifyMakesReadable
    <3> QED
      BY <3>1 DEF Readable, ByteHasEdge, Announced, QuitAnnounced
  <2> QED
    BY <2>2, <2>3
<1>3. CASE Check
  <2>1. pending' = pending /\ pipe' = pipe /\ edge' = edge /\ ppc' = ppc /\ asked' = asked
    BY <1>3 DEF Check, callVars, quitVars
  <2>2. Readable' = Readable
    BY <2>1 DEF Readable
  <2>3. Notifying' = Notifying
    BY <2>1 DEF Notifying
  <2>4. pc = "check" /\ (pc' = "done" \/ (pc' = "timers" /\ ~asked))
    BY <1>3 DEF Check, TypeOK
  <2>5. Announced'
    BY <2>1, <2>2, <2>3, <2>4 DEF Announced
  <2>6. ByteHasEdge'
    BY <2>1, <2>4 DEF ByteHasEdge
  <2>7. QuitAnnounced'
    BY <2>1, <2>4 DEF QuitAnnounced
  <2> QED
    BY <2>5, <2>6, <2>7
<1>4. CASE WaitEvent
  BY <1>4 DEF WaitEvent, ByteHasEdge, Announced, QuitAnnounced
<1>5. CASE WaitOther
  BY <1>5 DEF WaitOther, ByteHasEdge, Announced, QuitAnnounced
<1>6. CASE Clear
  <2>1. pipe' > 0 /\ EdgeTriggered => EveryWriteWakes
    BY <1>6, EdgeAssumption DEF Clear, TypeOK
  <2> QED
    BY <1>6, <2>1 DEF Clear, ByteHasEdge, Announced, QuitAnnounced
<1>7. CASE Swap
  BY <1>7 DEF Swap, ByteHasEdge, Announced, QuitAnnounced
<1>8. CASE RunFunctor \/ FinishOnce
  <2>1. pending' = pending /\ pipe' = pipe /\ edge' = edge /\ ppc' = ppc
    BY <1>8 DEF RunFunctor, FinishOnce, callVars
  <2>2. Readable' = Readable
    BY <2>1 DEF Readable
  <2>3. Notifying' = Notifying
    BY <2>1 DEF Notifying
  <2>4. pc = "run" /\ pc' \in {"run", "check"}
    BY <1>8 DEF RunFunctor, FinishOnce
  <2>5. Announced'
    BY <2>1, <2>2, <2>3, <2>4 DEF Announced
  <2> QED
    BY <2>1, <2>4, <2>5 DEF ByteHasEdge, QuitAnnounced
<1>9. CASE RunTimers
  <2>1. pending' = pending /\ pipe' = pipe /\ edge' = edge /\ ppc' = ppc /\ asked' = asked
    BY <1>9 DEF RunTimers, callVars
  <2>2. Readable' = Readable
    BY <2>1 DEF Readable
  <2>3. Notifying' = Notifying
    BY <2>1 DEF Notifying
  <2>4. pc = "timers" /\ pc' = "wait"
    BY <1>9 DEF RunTimers
  <2> QED
    BY <2>1, <2>2, <2>3, <2>4 DEF ByteHasEdge, Announced, QuitAnnounced
<1>10. CASE UNCHANGED vars
  <2>1. Notifying' = Notifying /\ Readable' = Readable
    BY <1>10 DEF vars, Notifying, Readable
  <2> QED
    BY <1>10, <2>1 DEF vars, ByteHasEdge, Announced, QuitAnnounced
<1> QED
  BY <1>1, <1>2, <1>3, <1>4, <1>5, <1>6, <1>7, <1>8, <1>9, <1>10
  DEF Next, LoopStep, ProducerStep

\* The inductive invariant holds throughout every behaviour.
LEMMA WakeInvariant == Spec => []WakeInv
<1>1. Init => WakeInv
  <2>1. Init => TypeOK
    BY InitTyped
  <2> QED
    BY <2>1 DEF Init, WakeInv, ByteHasEdge, Announced, QuitAnnounced
<1>2. WakeInv /\ [Next]_vars => WakeInv'
  BY WakeInductive
<1> QED
  BY <1>1, <1>2, PTL DEF Spec

\* safe_call() never loses a wakeup: a loop about to block with a functor queued is
\* going to be woken.
THEOREM WakeupSafe == Spec => []NoLostWakeup
<1>1. WakeInv => NoLostWakeup
  BY DEF WakeInv, Announced, NoLostWakeup
<1> QED
  BY <1>1, WakeInvariant, PTL

\* quit() never loses a wakeup either, except one called by a timer that loop_once()
\* runs before epoll_wait.
THEOREM QuitSafe == Spec => []NoLostQuit
<1>1. WakeInv => NoLostQuit
  BY DEF WakeInv, QuitAnnounced, NoLostQuit
<1> QED
  BY <1>1, WakeInvariant, PTL

----------------------------------------------------------------------------
(***************************************************************************)
(* Order.  Laws of queues of functors, then the refinement of              *)
(* SerialExecutor.                                                         *)
(***************************************************************************)

\* Appending to the second of two sequences appends to their concatenation.
LEMMA ConcatAppend ==
    ASSUME NEW S, NEW s \in Seq(S), NEW t \in Seq(S), NEW e \in S
    PROVE  s \o Append(t, e) = Append(s \o t, e)
<1>1. <<e>> \in Seq(S) /\ s \o t \in Seq(S)
  BY ConcatProperties
<1>2. Append(t, e) = t \o <<e>> /\ Append(s \o t, e) = (s \o t) \o <<e>>
  BY <1>1, AppendIsConcat
<1> QED
  BY <1>1, <1>2, ConcatAssociative

\* The head and the tail of a concatenation come from its first part.
LEMMA HeadTailConcat ==
    ASSUME NEW S, NEW s \in Seq(S), NEW t \in Seq(S), s # <<>>
    PROVE  /\ s \o t # <<>>
           /\ Head(s \o t) = Head(s)
           /\ Tail(s \o t) = Tail(s) \o t
<1> DEFINE h == Head(s)
           r == Tail(s)
<1>1. h \in S /\ r \in Seq(S) /\ Len(r) = Len(s) - 1
  BY HeadTailProperties
<1>2. s = <<h>> \o r
  BY HeadTailProperties, <1>1
<1>3. s \o t \in Seq(S) /\ Len(s \o t) = Len(s) + Len(t) /\ Len(s) > 0
  BY ConcatProperties, EmptySeq, LenProperties
<1>4. s \o t # <<>> /\ Head(s \o t) = h
  BY <1>3, ConcatProperties
<1>5. Tail(s \o t) = r \o t
  <2>1. Tail(s \o t) \in Seq(S) /\ r \o t \in Seq(S)
    BY <1>1, <1>3, <1>4, HeadTailProperties, ConcatProperties
  <2>2. Len(Tail(s \o t)) = Len(r \o t)
    BY <1>1, <1>3, <1>4, HeadTailProperties, ConcatProperties
  <2>3. \A i \in 1..Len(Tail(s \o t)) : Tail(s \o t)[i] = (r \o t)[i]
    BY <1>1, <1>3, <1>4, <2>2, HeadTailProperties, ConcatProperties
  <2> QED
    BY <2>1, <2>2, <2>3, SeqEqual
<1> QED
  BY <1>4, <1>5

\* handle_pending_func's vector is empty whenever the loop is outside of it.
BatchInv == TypeOK /\ (batch # <<>> => pc = "run")

\* Its proof by induction.
LEMMA BatchInvariant == Spec => []BatchInv
<1>1. Init => BatchInv
  BY InitTyped DEF Init, BatchInv
<1>2. BatchInv /\ [Next]_vars => BatchInv'
  <2> SUFFICES ASSUME BatchInv, [Next]_vars
               PROVE  BatchInv'
    OBVIOUS
  <2>1. TypeOK'
    BY TypeInductive DEF BatchInv
  <2>2. batch' # <<>> => pc' = "run"
    BY DEF BatchInv, Next, vars, LoopStep, ProducerStep, loopVars, Push, Quit, Notify,
           Check, RunTimers, WaitEvent, WaitOther, Clear, Swap, RunFunctor, FinishOnce
  <2> QED
    BY <2>1, <2>2 DEF BatchInv
<1> QED
  BY <1>1, <1>2, PTL DEF Spec

\* Each functor is run once and in the order of the pushes.
THEOREM OrderCorrect == Spec => []InOrderOnce
<1>1. Init => InOrderOnce
  BY ConcatEmptySeq, EmptySeq DEF Init, InOrderOnce
<1>2. BatchInv /\ InOrderOnce /\ [Next]_vars => InOrderOnce'
  <2> SUFFICES ASSUME BatchInv, InOrderOnce, [Next]_vars
               PROVE  InOrderOnce'
    OBVIOUS
  <2> USE DEF BatchInv, TypeOK
  <2>1. ASSUME NEW p \in Producers, Push(p)
        PROVE  InOrderOnce'
    <3> DEFINE f == <<p, calls[p] + 1>>
    <3>1. f \in Functor
      BY <2>1, BoundsAssumption DEF Push, Functor
    <3>2. (executed \o batch) \o Append(pending, f) = Append((executed \o batch) \o pending, f)
      <4>1. executed \o batch \in Seq(Functor) /\ pending \in Seq(Functor)
        BY ConcatProperties
      <4> HIDE DEF f
      <4> QED
        BY <3>1, <4>1, ConcatAppend, SMTT(30)
    <3> QED
      BY <2>1, <3>2 DEF Push, InOrderOnce, loopVars
  <2>2. CASE Swap
    <3>1. batch = <<>>
      BY <2>2 DEF Swap
    <3>2. executed \o batch = executed /\ (executed \o pending) \o <<>> = executed \o pending
      BY <3>1, ConcatEmptySeq, ConcatProperties
    <3> QED
      BY <2>2, <3>2 DEF Swap, InOrderOnce
  <2>3. CASE RunFunctor
    <3> DEFINE h == Head(batch)
               r == Tail(batch)
    <3>1. h \in Functor /\ r \in Seq(Functor)
      BY <2>3, HeadTailProperties DEF RunFunctor
    <3>2. batch = <<h>> \o r
      BY <2>3, <3>1, HeadTailProperties DEF RunFunctor
    <3>3. Append(executed, h) = executed \o <<h>>
      BY <3>1, AppendIsConcat
    <3>4. Append(executed, h) \o r = executed \o batch
      <4>1. <<h>> \in Seq(Functor)
        BY <3>1
      <4> HIDE DEF h, r
      <4> QED
        <5>1. executed \in Seq(Functor)
          OBVIOUS
        <5>2. (executed \o <<h>>) \o r = executed \o (<<h>> \o r)
          BY <3>1, <4>1, <5>1, ConcatAssociative, SMTT(30)
        <5> QED
          BY <3>2, <3>3, <5>2
    <3> QED
      BY <2>3, <3>4 DEF RunFunctor, InOrderOnce
  <2>4. CASE UNCHANGED <<submitted, executed, batch, pending>>
    BY <2>4 DEF InOrderOnce
  <2>5. \/ UNCHANGED <<submitted, executed, batch, pending>>
        \/ Swap \/ RunFunctor \/ \E p \in Producers : Push(p)
    BY DEF Next, vars, LoopStep, ProducerStep, loopVars, Quit, Notify,
           Check, RunTimers, WaitEvent, WaitOther, Clear, FinishOnce
  <2> QED
    BY <2>1, <2>2, <2>3, <2>4, <2>5
<1> QED
  BY <1>1, <1>2, BatchInvariant, PTL DEF Spec

\* The loop is a serial executor: the initial states agree and each step is a step
\* of SerialExecutor or leaves its variables alone.
THEOREM RefinesExecutor == Spec => ImplementsExecutor
<1>1. Init => Executor!Init
  BY ConcatEmptySeq, EmptySeq DEF Init, Executor!Init
<1>2. BatchInv /\ [Next]_vars => [Executor!Next]_(Executor!vars)
  <2> SUFFICES ASSUME BatchInv, [Next]_vars
               PROVE  Executor!Next \/ UNCHANGED Executor!vars
    OBVIOUS
  <2> USE DEF BatchInv, TypeOK
  <2>1. ASSUME NEW p \in Producers, Push(p)
        PROVE  Executor!Next
    <3> DEFINE f == <<p, calls[p] + 1>>
    <3>1. f \in Functor
      BY <2>1, BoundsAssumption DEF Push, Functor
    <3>2. batch \o Append(pending, f) = Append(batch \o pending, f)
      <4>1. batch \in Seq(Functor) /\ pending \in Seq(Functor)
        OBVIOUS
      <4> HIDE DEF f
      <4> QED
        BY <3>1, <4>1, ConcatAppend, SMTT(30)
    <3>3. Executor!Submit(f)
      BY <2>1, <3>2 DEF Push, Executor!Submit, loopVars, quitVars
    <3> QED
      BY <3>1, <3>3 DEF Executor!Next
  <2>2. ASSUME NEW p \in Producers, Quit(p)
        PROVE  Executor!Next
    BY <2>2 DEF Quit, Executor!Next, Executor!RequestStop, loopVars
  <2>3. CASE Swap
    <3>1. batch = <<>>
      BY <2>3 DEF Swap
    <3>2. pending \o <<>> = <<>> \o pending
      BY ConcatEmptySeq
    <3> QED
      BY <2>3, <3>1, <3>2 DEF Swap, Executor!vars, quitVars
  <2>4. CASE RunFunctor
    <3>1. /\ batch \o pending # <<>>
          /\ Head(batch \o pending) = Head(batch)
          /\ Tail(batch \o pending) = Tail(batch) \o pending
      BY <2>4, HeadTailConcat DEF RunFunctor
    <3>2. Executor!Execute
      BY <2>4, <3>1 DEF RunFunctor, Executor!Execute
    <3> QED
      BY <3>2 DEF Executor!Next
  <2>5. CASE Check
    <3>1. UNCHANGED <<batch, pending, executed, quit, asked>> /\ pc = "check"
      BY <2>5 DEF Check, quitVars
    <3>2. CASE quit
      BY <2>5, <3>1, <3>2 DEF Check, Executor!Next, Executor!Stop
    <3>3. CASE ~quit
      BY <2>5, <3>1, <3>3 DEF Check, Executor!vars
    <3> QED
      BY <3>2, <3>3
  <2>6. CASE FinishOnce
    <3>1. UNCHANGED <<batch, pending, executed>> /\ pc = "run" /\ pc' = "check"
      BY <2>6 DEF FinishOnce
    <3>2. asked' \in {asked, TRUE} /\ quit' = (quit \/ asked')
      BY <2>6 DEF FinishOnce
    <3>3. CASE asked'
      BY <3>1, <3>2, <3>3 DEF Executor!Next, Executor!RequestStop
    <3>4. CASE ~asked'
      <4>1. asked' = asked /\ quit' = quit
        BY <3>2, <3>4, Zenon
      <4> QED
        BY <3>1, <4>1 DEF Executor!vars
    <3> QED
      BY <3>3, <3>4
  <2>7. CASE RunTimers
    <3>1. UNCHANGED <<batch, pending, executed, asked>> /\ pc = "timers" /\ pc' = "wait"
      BY <2>7 DEF RunTimers
    <3>2. CASE quit' = quit
      BY <3>1, <3>2 DEF Executor!vars
    <3>3. CASE quit' = TRUE
      BY <3>1, <3>3 DEF Executor!Next, Executor!RequestStop
    <3> QED
      BY <2>7, <3>2, <3>3 DEF RunTimers
  <2>8. CASE /\ UNCHANGED <<batch, pending, executed, quit, asked>>
             /\ (pc' = "done") = (pc = "done")
    BY <2>8 DEF Executor!vars
  <2>9. \/ /\ UNCHANGED <<batch, pending, executed, quit, asked>>
           /\ (pc' = "done") = (pc = "done")
        \/ Swap \/ RunFunctor \/ Check \/ RunTimers \/ FinishOnce
        \/ \E p \in Producers : Push(p) \/ Quit(p)
    BY DEF Next, vars, LoopStep, ProducerStep, loopVars, quitVars, Notify,
           WaitEvent, WaitOther, Clear
  <2> QED
    BY <2>1, <2>2, <2>3, <2>4, <2>5, <2>6, <2>7, <2>8, <2>9
<1> QED
  BY <1>1, <1>2, BatchInvariant, PTL DEF Spec, ImplementsExecutor, Executor!Spec
============================================================================

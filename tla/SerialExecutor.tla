--------------------------- MODULE SerialExecutor ---------------------------
(***************************************************************************)
(* What an event loop promises to the threads that call safe_call() and    *)
(* quit(): tasks are executed one at a time, each once, in the order in    *)
(* which they were accepted; a stop request that the executor hears of is  *)
(* honoured, and tasks still queued at that moment, or accepted later, are *)
(* never executed.  A request may also be recorded without being heard of: *)
(* the executor may stop because of it at any later moment, but need not.  *)
(***************************************************************************)
EXTENDS Sequences

CONSTANT Task

VARIABLES
    queue,      \* accepted, not yet executed
    done,       \* executed, oldest first
    stopping,   \* a stop was requested
    heard,      \* one of the requests was made where the executor notices it
    stopped     \* the executor has returned

vars == <<queue, done, stopping, heard, stopped>>

Init ==
    /\ queue = <<>>
    /\ done = <<>>
    /\ stopping = FALSE
    /\ heard = FALSE
    /\ stopped = FALSE

Submit(t) ==
    /\ queue' = Append(queue, t)
    /\ UNCHANGED <<done, stopping, heard, stopped>>

\* A task may itself ask the executor to stop.
Execute ==
    /\ ~stopped
    /\ queue # <<>>
    /\ done' = Append(done, Head(queue))
    /\ queue' = Tail(queue)
    /\ heard' \in {heard, TRUE}
    /\ stopping' = (stopping \/ heard')
    /\ UNCHANGED stopped

RequestStop ==
    /\ stopping' = TRUE
    /\ heard' \in {heard, TRUE}
    /\ UNCHANGED <<queue, done, stopped>>

Stop ==
    /\ stopping
    /\ stopped' = TRUE
    /\ UNCHANGED <<queue, done, stopping, heard>>

Next ==
    \/ \E t \in Task : Submit(t)
    \/ Execute
    \/ RequestStop
    \/ Stop

Spec == Init /\ [][Next]_vars

\* While tasks are queued the executor goes on with them, or stops; a request it has
\* heard of makes it stop.
FairSpec ==
    /\ Spec
    /\ WF_vars(queue # <<>> /\ (Execute \/ Stop))
    /\ WF_vars(heard /\ Stop)
============================================================================

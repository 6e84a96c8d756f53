------------------------------ MODULE Service ------------------------------
(***************************************************************************)
(* cortono::net::Service (src/net/service.hpp) with its TcpAdaptor         *)
(* (src/net/adaptor.hpp), on the thread pool: every task of the pool runs  *)
(* an event loop of its own, the main thread accepts connections and hands *)
(* each of them to a loop, and connections_ holds them by their names.     *)
(*                                                                         *)
(* The loops are those of module EventLoop, of which this module uses that *)
(* functors run in order and that a loop told to quit and woken returns.   *)
(* Loop 0 is the main thread's.  stop() runs on the main thread, from a    *)
(* timer or the destructor, so nothing is accepted while it runs.          *)
(***************************************************************************)
EXTENDS ThreadPool, Sequences, SequencesExt

CONSTANTS
    Names,          \* local and peer endpoints of accepted connections
    Zero,           \* the name of a connection on a descriptor that is not open
    MaxAccepts,     \* bound: connections made
    MaxFds,         \* descriptors for connections, the idle one apart
    MaxEmfile       \* bound: times that accept fails with EMFILE

ASSUME ServiceAssumption ==
    /\ IsFiniteSet(Workers)
    /\ Zero \notin Names
    /\ MaxAccepts \in Nat
    /\ MaxFds \in Nat
    /\ MaxEmfile \in Nat

VARIABLES
    mpc,        \* the main thread's place
    todo,       \* what stop() has still to visit
    registered, \* eventloops_: loops are numbered in the order they registered
    host,       \* the loop that each worker runs, 0 for none
    idx,        \* loop_idx_
    quit,       \* loops whose quit_ is set
    woken,      \* loops woken after that
    conns,      \* the connections made, in order
    registry,   \* connections_: the connection of each name, 0 for none
    replaced,   \* the user's on_conn callback replaces on_close
    emfile,     \* times that accept failed with EMFILE
    crashed     \* undefined behaviour showed

loopVars == <<registered, host, quit, woken>>
connVars == <<idx, conns, registry, replaced, emfile>>
vars == <<poolVars, loopVars, connVars, mpc, todo, crashed>>

N == Cardinality(Workers)
Loops == 0..N
AllNames == Names \cup {Zero}

\* queued: the functor waits in the loop; open: registered; closed: handle_close has run;
\* failed: handle_error has run; phantom: made on a closed descriptor;
\* dropped: destroyed because connections_ no longer refers to it.
ConnStates == {"queued", "open", "closed", "failed", "phantom", "dropped"}

In(st) == {c \in DOMAIN conns : conns[c].st = st}

Init ==
    /\ PoolInit
    /\ mpc = "async"
    /\ todo = <<>>
    /\ registered = 0
    /\ host = [w \in Workers |-> 0]
    /\ idx = -1
    /\ quit = {}
    /\ woken = {}
    /\ conns = <<>>
    /\ registry = [n \in AllNames |-> 0]
    /\ replaced \in BOOLEAN
    /\ emfile = 0
    /\ crashed = FALSE

Main(pc) == ~crashed /\ mpc = pc

\* The loops that exist; the others of eventloops_ are destroyed.
Alive == {host[w] : w \in Workers} \ {0}

----------------------------------------------------------------------------
(***************************************************************************)
(* start_threadpool: a task for each worker, then the workers.             *)
(***************************************************************************)
StartAsync ==
    /\ Main("async")
    /\ IF tasks < N
       THEN Async /\ UNCHANGED mpc
       ELSE mpc' = "threads" /\ UNCHANGED poolVars
    /\ UNCHANGED <<loopVars, connVars, todo, crashed>>

StartThreads ==
    /\ Main("threads")
    /\ IF \E w \in Workers : wpc[w] = "none"
       THEN StartThread /\ UNCHANGED mpc
       ELSE mpc' = "run" /\ UNCHANGED poolVars
    /\ UNCHANGED <<loopVars, connVars, todo, crashed>>

\* The worker between its tasks.
Work(w) ==
    /\ ~crashed
    /\ WorkerStep(w)
    /\ UNCHANGED <<loopVars, connVars, mpc, todo, crashed>>

\* The task: a loop on the stack of the worker, and its address in eventloops_.  If stop()
\* is walking the vector, that may move it away.  A worker whose loop has returned may take
\* another task.
Register(w) ==
    /\ ~crashed
    /\ wpc[w] = "task" /\ host[w] = 0
    /\ registered' = registered + 1
    /\ host' = [host EXCEPT ![w] = registered + 1]
    /\ crashed' \in IF mpc \in {"quit", "wake"} THEN BOOLEAN ELSE {FALSE}
    /\ UNCHANGED <<poolVars, connVars, mpc, todo, quit, woken>>

MutOneTurn(w) ==
    /\ ~crashed
    /\ host[w] # 0
    /\ host' = [host EXCEPT ![w] = 0]
    /\ TaskReturns(w)
    /\ UNCHANGED <<connVars, mpc, todo, registered, quit, woken, crashed>>

\* loop() sees quit_ at its next turn, and the task returns: the loop is destroyed, its
\* address stays in eventloops_.
LoopExit(w) ==
    /\ ~crashed
    /\ host[w] \in quit
    /\ host' = [host EXCEPT ![w] = 0]
    /\ TaskReturns(w)
    /\ UNCHANGED <<connVars, mpc, todo, registered, quit, woken, crashed>>
----------------------------------------------------------------------------
(***************************************************************************)
(* Accepting.                                                              *)
(***************************************************************************)

\* The peer can use an endpoint again once it has reset the connection it had.
Free(n) == \A c \in DOMAIN conns : conns[c].name = n => conns[c].reset

\* A connection holds its descriptor until it is destroyed.
Descriptors == {c \in DOMAIN conns : conns[c].st \in {"queued", "open"} \/
                                     \E n \in Names : registry[n] = c}

\* loop_producer_ of Service.
Producer(l) ==
    IF registered = 0
    THEN l = 0 /\ UNCHANGED idx
    ELSE /\ idx' = idx + 1
         /\ l = 1 + ((idx + 1) % registered)

MutKeepsFirst(cs, c) ==
    LET n == cs[c].name
    IN  /\ registry' = IF registry[n] = 0 THEN [registry EXCEPT ![n] = c] ELSE registry
        /\ conns' = [cs EXCEPT ![c].st = IF n = Zero THEN "phantom" ELSE "open"]

(***************************************************************************)
(* The functor of handle_accept, run in the loop of c: the connection is   *)
(* stored under its name, and the one that was there, if it is still open, *)
(* loses its last reference.                                               *)
(***************************************************************************)
Store(cs, c) ==
    LET n == cs[c].name
        d == registry[n]
        dropped == IF d # 0 /\ cs[d].st = "open"
                   THEN [cs EXCEPT ![d].st = "dropped"] ELSE cs
    IN  /\ registry' = [registry EXCEPT ![n] = c]
        /\ conns' = [dropped EXCEPT ![c].st = IF n = Zero THEN "phantom" ELSE "open"]

Hand(n) ==
    \E l \in Loops :
        /\ Producer(l)
        /\ LET cs == Append(conns, [name |-> n, loop |-> l, st |-> "queued", reset |-> FALSE])
           IN  IF l = 0
               THEN Store(cs, Len(cs))
               ELSE conns' = cs /\ UNCHANGED registry

Accept(n) ==
    /\ Main("run")
    /\ Len(conns) < MaxAccepts
    /\ Cardinality(Descriptors) < MaxFds
    /\ Free(n)
    /\ Hand(n)
    /\ UNCHANGED <<poolVars, loopVars, mpc, todo, replaced, emfile, crashed>>

\* EMFILE: the idle descriptor is given up, the connection accepted and closed, and
\* accept_client returns the number of the closed descriptor, for which handle_accept makes a
\* connection.
AcceptNoFd ==
    /\ Main("run")
    /\ Len(conns) < MaxAccepts
    /\ Cardinality(Descriptors) = MaxFds
    /\ emfile < MaxEmfile
    /\ emfile' = emfile + 1
    /\ Hand(Zero)
    /\ UNCHANGED <<poolVars, loopVars, mpc, todo, replaced, crashed>>

RunFunctor(l) ==
    /\ ~crashed
    /\ l \in Alive
    /\ \E c \in In("queued") :
         /\ conns[c].loop = l
         /\ \A d \in In("queued") : conns[d].loop = l => c <= d
         /\ Store(conns, c)
    /\ UNCHANGED <<poolVars, loopVars, idx, replaced, emfile, mpc, todo, crashed>>
----------------------------------------------------------------------------
(***************************************************************************)
(* Connections, on the threads of their loops.                             *)
(***************************************************************************)
Serving(c) ==
    /\ ~crashed
    /\ conns[c].st = "open"
    /\ IF conns[c].loop = 0 THEN mpc = "run" ELSE conns[c].loop \in Alive

\* remove_connection, by name: whatever is stored there loses its last reference.
Erase(cs, n) ==
    LET d == registry[n]
    IN  /\ registry' = [registry EXCEPT ![n] = 0]
        /\ conns' = IF d # 0 /\ cs[d].st = "open"
                    THEN [cs EXCEPT ![d].st = "dropped"] ELSE cs

MutNoRemove(c) ==
    /\ conns' = [conns EXCEPT ![c].st = "closed"]
    /\ UNCHANGED registry

\* handle_close and the on_close callback of Service, or the one that took its place.
HandleClose(c) ==
    LET cs == [conns EXCEPT ![c].st = "closed"]
    IN  IF replaced
        THEN conns' = cs /\ UNCHANGED registry
        ELSE Erase(cs, cs[c].name)

Closes(c) ==
    /\ Serving(c)
    /\ HandleClose(c)
    /\ UNCHANGED <<poolVars, loopVars, idx, replaced, emfile, mpc, todo, crashed>>

\* handle_error and the on_error callback of Service, which removes nothing.
Fails(c) ==
    /\ Serving(c)
    /\ conns[c].reset
    /\ conns' = [conns EXCEPT ![c].st = "failed"]
    /\ UNCHANGED <<poolVars, loopVars, idx, registry, replaced, emfile, mpc, todo, crashed>>

\* The peer resets its connection.
PeerResets(c) ==
    /\ ~crashed
    /\ conns[c].st \in {"queued", "open"}
    /\ conns[c].name # Zero
    /\ ~conns[c].reset
    /\ conns' = [conns EXCEPT ![c].reset = TRUE]
    /\ UNCHANGED <<poolVars, loopVars, idx, registry, replaced, emfile, mpc, todo, crashed>>
----------------------------------------------------------------------------
(***************************************************************************)
(* stop().                                                                 *)
(***************************************************************************)

\* The walk of connections_, in the order of the map and without mutex_ ...
Stop ==
    /\ Main("run")
    /\ mpc' = "walk"
    /\ todo' \in SetToSeqs({n \in AllNames : registry[n] # 0})
    /\ UNCHANGED <<poolVars, loopVars, connVars, crashed>>

\* ... calls close() of every connection: with nothing to send that changes its state to
\* WaitClosed, otherwise handle_close runs on the main thread.  An entry that a loop
\* erased meanwhile is skipped, or its iterator is followed.
Walk ==
    /\ Main("walk")
    /\ todo # <<>>
    /\ todo' = Tail(todo)
    /\ LET c == registry[Head(todo)]
       IN  \/ UNCHANGED <<conns, registry, crashed>>
           \/ /\ c # 0 /\ conns[c].st = "open"
              /\ HandleClose(c)
              /\ UNCHANGED crashed
           \/ /\ c = 0
              /\ crashed' = TRUE
              /\ UNCHANGED <<conns, registry>>
    /\ UNCHANGED <<poolVars, loopVars, idx, replaced, emfile, mpc>>

\* The loops registered by now are told to quit.
WalkDone ==
    /\ Main("walk")
    /\ todo = <<>>
    /\ mpc' = "quit"
    /\ todo' = [l \in 1..registered |-> l]
    /\ UNCHANGED <<poolVars, loopVars, connVars, crashed>>

\* EventLoop::quit: quit_ is stored, ...
QuitLoop ==
    /\ Main("quit")
    /\ todo # <<>>
    /\ quit' = quit \cup {Head(todo)}
    /\ mpc' = "wake"
    /\ UNCHANGED <<poolVars, connVars, todo, registered, host, woken, crashed>>

\* ... and the loop is woken, which may have returned and be destroyed.
WakeLoop ==
    /\ Main("wake")
    /\ woken' = woken \cup {Head(todo)}
    /\ todo' = Tail(todo)
    /\ mpc' = "quit"
    /\ crashed' \in (IF Head(todo) \in Alive THEN {FALSE} ELSE BOOLEAN)
    /\ UNCHANGED <<poolVars, connVars, registered, host, quit>>

\* threadpool::quit.
QuitPool ==
    /\ Main("quit")
    /\ todo = <<>>
    /\ SetQuit
    /\ mpc' = "notify"
    /\ UNCHANGED <<loopVars, connVars, todo, crashed>>

Notify ==
    /\ Main("notify")
    /\ NotifyAll
    /\ mpc' = "join"
    /\ UNCHANGED <<loopVars, connVars, todo, crashed>>

Join ==
    /\ Main("join")
    /\ Joined
    /\ mpc' = "stopped"
    /\ UNCHANGED <<poolVars, loopVars, connVars, todo, crashed>>

Stopping == Walk \/ WalkDone \/ QuitLoop \/ WakeLoop \/ QuitPool \/ Notify \/ Join

Next ==
    \/ StartAsync \/ StartThreads \/ Stop \/ Stopping \/ AcceptNoFd
    \/ \E n \in Names : Accept(n)
    \/ \E w \in Workers : Work(w) \/ Register(w) \/ LoopExit(w)
    \/ \E l \in 1..N : RunFunctor(l)
    \/ \E c \in DOMAIN conns : Closes(c) \/ Fails(c) \/ PeerResets(c)

Spec == Init /\ [][Next]_vars

\* Threads are scheduled; a loop returns once it has been woken after quit_ was set.
Fairness ==
    /\ WF_vars(StartAsync \/ StartThreads \/ Stopping)
    /\ \A w \in Workers :
         /\ SF_vars(Work(w))
         /\ WF_vars(Register(w))
         /\ WF_vars(host[w] \in woken /\ LoopExit(w))
    /\ \A l \in 1..N : WF_vars(RunFunctor(l))

FairSpec == Spec /\ Fairness
----------------------------------------------------------------------------
TypeOK ==
    /\ tasks \in 0..N
    /\ poolQuit \in BOOLEAN
    /\ wpc \in [Workers -> WorkerPC]
    /\ missed \subseteq Workers
    /\ mpc \in {"async", "threads", "run", "walk", "quit", "wake", "notify", "join", "stopped"}
    /\ todo \in Seq(AllNames \cup Loops)
    /\ registered \in Loops
    /\ \A w \in Workers : host[w] \in 0..registered /\ (host[w] # 0 => wpc[w] = "task")
    /\ \A w, v \in Workers : host[w] = host[v] => host[w] = 0 \/ w = v
    /\ idx \in Int
    /\ woken \subseteq quit /\ quit \subseteq 1..registered
    /\ conns \in Seq([name : AllNames, loop : Loops, st : ConnStates, reset : BOOLEAN])
    /\ \A n \in AllNames : registry[n] \in {0} \cup {c \in DOMAIN conns : conns[c].name = n}
    /\ replaced \in BOOLEAN
    /\ emfile \in 0..MaxEmfile
    /\ crashed \in BOOLEAN

\* connections_ is what keeps a connection alive: one that is open is there, and one that
\* was destroyed while open lost its place to a connection of the same name, which
\* needs a reset that its loop had not noticed.
Held ==
    \A c \in DOMAIN conns :
        /\ conns[c].st = "open" => registry[conns[c].name] = c
        /\ conns[c].st = "dropped" =>
             \E d \in DOMAIN conns \ {c} :
                conns[d].name = conns[c].name /\ (conns[c].reset \/ conns[d].reset)

\* connections_ forgets a connection that ends, with three exceptions: handle_error ended
\* it, the user replaced on_close, or it never had a descriptor.
Released ==
    \A n \in AllNames :
        registry[n] # 0 =>
            \/ conns[registry[n]].st \in {"open", "failed", "phantom"}
            \/ replaced

\* A connection that was accepted is set up by its loop, unless the loop is told to
\* quit first.
Served ==
    \A c \in 1..MaxAccepts :
        c \in DOMAIN conns ~>
            \/ c \in DOMAIN conns /\ conns[c].st # "queued"
            \/ c \in DOMAIN conns /\ conns[c].loop \in quit
            \/ crashed

\* stop() returns, with two exceptions: a worker went to sleep after quit() had notified,
\* having seen quit_ not set, or a loop was registered after stop() walked eventloops_.
Overslept == mpc = "join" /\ missed # {}
LateLoop == mpc = "join" /\ Alive \ quit # {}
StopReturns == (mpc = "walk") ~> (mpc = "stopped" \/ Overslept \/ LateLoop \/ crashed)
=============================================================================

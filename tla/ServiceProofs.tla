--------------------------- MODULE ServiceProofs ----------------------------
(***************************************************************************)
(* Proofs about Service: for any number of workers, any names and any      *)
(* limits on connections and descriptors.                                  *)
(***************************************************************************)
EXTENDS Service, FiniteSetTheorems, SequenceTheorems, TLAPS

(***************************************************************************)
(* The thread pool and the loops.  A task is queued once for each worker   *)
(* and registers one loop, so the tasks that wait, the ones about to       *)
(* register and the loops registered are never more than the workers.      *)
(***************************************************************************)
Pool ==
    /\ tasks \in Nat
    /\ poolQuit \in BOOLEAN
    /\ wpc \in [Workers -> WorkerPC]
    /\ missed \subseteq Workers

Pending == {w \in Workers : wpc[w] = "task" /\ host[w] = 0}

Budget == registered \in Nat /\ tasks + Cardinality(Pending) + registered <= N

Hosts ==
    /\ host \in [Workers -> Nat]
    /\ \A w \in Workers : host[w] <= registered /\ (host[w] # 0 => wpc[w] = "task")
    /\ \A w, v \in Workers : host[w] = host[v] => host[w] = 0 \/ w = v

\* What stop() walks, and what it has told to quit.
MainThread ==
    /\ mpc \in {"async", "threads", "run", "walk", "quit", "wake", "notify", "join", "stopped"}
    /\ mpc = "async" => tasks <= N /\ registered = 0 /\ \A w \in Workers : wpc[w] = "none"
    /\ mpc \notin {"walk", "quit", "wake"} => todo = <<>>
    /\ mpc = "walk" => todo \in Seq(AllNames)
    /\ mpc \in {"quit", "wake"} => todo \in Seq(1..registered)
    /\ mpc = "wake" => todo # <<>> /\ Head(todo) \in quit
    /\ woken \subseteq quit /\ quit \subseteq 1..registered

Rest ==
    /\ idx \in Int
    /\ replaced \in BOOLEAN
    /\ emfile \in 0..MaxEmfile
    /\ crashed \in BOOLEAN

(***************************************************************************)
(* Connections cs under the registry reg.  A name is used again only when  *)
(* the connection that had it was reset: that is how one that is open can  *)
(* lose its place.                                                         *)
(***************************************************************************)
ConnType == [name : AllNames, loop : Loops, st : ConnStates, reset : BOOLEAN]

\* The registry refers to a connection of that name which has not ended, or whose end it
\* was not told of.
RegistryOK(cs, reg) ==
    \A n \in AllNames : reg[n] # 0 =>
        /\ reg[n] \in DOMAIN cs
        /\ cs[reg[n]].name = n
        /\ cs[reg[n]].st \in {"open", "failed", "phantom"} \/ replaced

OpenIsHeld(cs, reg) ==
    \A c \in DOMAIN cs : cs[c].st = "open" => cs[c].name # Zero /\ reg[cs[c].name] = c

DroppedForAnother(cs) ==
    \A c \in DOMAIN cs : cs[c].st = "dropped" =>
        \E d \in DOMAIN cs \ {c} : cs[d].name = cs[c].name /\ (cs[c].reset \/ cs[d].reset)

ReusedAfterReset(cs) ==
    \A c, d \in DOMAIN cs :
        c < d /\ cs[c].name = cs[d].name /\ cs[c].name # Zero => cs[c].reset

ConnsOK(cs, reg) ==
    /\ cs \in Seq(ConnType)
    /\ reg \in [AllNames -> Nat]
    /\ RegistryOK(cs, reg)
    /\ OpenIsHeld(cs, reg)
    /\ DroppedForAnother(cs)
    /\ ReusedAfterReset(cs)

ServiceInv ==
    /\ Pool /\ Budget /\ Hosts /\ MainThread /\ Rest
    /\ ConnsOK(conns, registry)
----------------------------------------------------------------------------
(***************************************************************************)
(* Connections.                                                            *)
(***************************************************************************)

\* Connections are numbered from 1.
LEMMA ConnNumbers ==
    ASSUME NEW cs \in Seq(ConnType)
    PROVE  /\ Len(cs) \in Nat /\ DOMAIN cs = 1..Len(cs)
           /\ \A c \in DOMAIN cs : c \in Nat \ {0} /\ cs[c] \in ConnType /\ cs[c].name \in AllNames
<1>1. Len(cs) \in Nat /\ DOMAIN cs = 1..Len(cs) /\ \A c \in 1..Len(cs) : cs[c] \in ConnType
  BY LenProperties, ElementOfSeq
<1> QED
  BY <1>1 DEF ConnType

\* cs2 is cs but for the state of c, which is s.
Restated(cs, c, s, cs2) ==
    /\ cs2 \in Seq(ConnType)
    /\ DOMAIN cs2 = DOMAIN cs
    /\ \A d \in DOMAIN cs :
          /\ cs2[d].name = cs[d].name /\ cs2[d].reset = cs[d].reset
          /\ cs2[d].st = IF d = c THEN s ELSE cs[d].st

\* A connection changes its state.
LEMMA Restate ==
    ASSUME NEW cs \in Seq(ConnType), NEW c \in DOMAIN cs, NEW s \in ConnStates
    PROVE  Restated(cs, c, s, [cs EXCEPT ![c].st = s])
<1> DEFINE r == [cs[c] EXCEPT !.st = s]
           cs2 == [cs EXCEPT ![c] = r]
<1>1. cs[c] \in ConnType /\ c \in 1..Len(cs)
  BY ConnNumbers
<1>2. r \in ConnType /\ r.name = cs[c].name /\ r.reset = cs[c].reset /\ r.st = s
  BY <1>1 DEF ConnType
<1>3. [cs EXCEPT ![c].st = s] = cs2
  OBVIOUS
<1> HIDE DEF r
<1>4. cs2 \in Seq(ConnType)
  BY <1>1, <1>2, ExceptSeq
<1>5. DOMAIN cs2 = DOMAIN cs /\ \A d \in DOMAIN cs : cs2[d] = IF d = c THEN r ELSE cs[d]
  OBVIOUS
<1> HIDE DEF cs2
<1>6. Restated(cs, c, s, cs2)
  BY <1>2, <1>4, <1>5 DEF Restated
<1> QED
  BY <1>3, <1>6

\* The connection is reset by its peer.
LEMMA ResetOK ==
    ASSUME ConnsOK(conns, registry), NEW c \in DOMAIN conns
    PROVE  ConnsOK([conns EXCEPT ![c].reset = TRUE], registry)
<1> DEFINE r == [conns[c] EXCEPT !.reset = TRUE]
           cs2 == [conns EXCEPT ![c] = r]
<1>0. conns \in Seq(ConnType)
  BY DEF ConnsOK
<1>1. conns[c] \in ConnType /\ c \in 1..Len(conns)
  BY <1>0, ConnNumbers
<1>2. r \in ConnType /\ r.name = conns[c].name /\ r.reset = TRUE /\ r.st = conns[c].st
  BY <1>1 DEF ConnType
<1>3. [conns EXCEPT ![c].reset = TRUE] = cs2
  OBVIOUS
<1> HIDE DEF r
<1>4. cs2 \in Seq(ConnType)
  BY <1>0, <1>1, <1>2, ExceptSeq
<1>5. DOMAIN cs2 = DOMAIN conns /\ \A d \in DOMAIN conns : cs2[d] = IF d = c THEN r ELSE conns[d]
  OBVIOUS
<1> HIDE DEF cs2
<1>6. /\ DOMAIN cs2 = DOMAIN conns
      /\ \A d \in DOMAIN conns :
            /\ cs2[d].name = conns[d].name /\ cs2[d].st = conns[d].st
            /\ conns[d].reset => cs2[d].reset
  BY <1>2, <1>5
<1>7. RegistryOK(conns, registry) => RegistryOK(cs2, registry)
  BY <1>6 DEF RegistryOK
<1>8. OpenIsHeld(conns, registry) => OpenIsHeld(cs2, registry)
  BY <1>6 DEF OpenIsHeld
<1>9. DroppedForAnother(conns) => DroppedForAnother(cs2)
  BY <1>6 DEF DroppedForAnother
<1>10. ReusedAfterReset(conns) => ReusedAfterReset(cs2)
  BY <1>6 DEF ReusedAfterReset
<1> QED
  BY <1>3, <1>4, <1>7, <1>8, <1>9, <1>10 DEF ConnsOK

\* A connection is accepted: its name is free, or it has none.
LEMMA AcceptOK ==
    ASSUME ConnsOK(conns, registry), NEW n \in AllNames, n = Zero \/ Free(n), NEW l \in Loops
    PROVE  LET cs == Append(conns, [name |-> n, loop |-> l, st |-> "queued", reset |-> FALSE])
           IN  /\ ConnsOK(cs, registry) /\ Len(cs) \in DOMAIN cs
               /\ cs[Len(cs)].st = "queued"
<1> DEFINE r == [name |-> n, loop |-> l, st |-> "queued", reset |-> FALSE]
           cs == Append(conns, r)
<1>0. /\ conns \in Seq(ConnType) /\ registry \in [AllNames -> Nat]
      /\ RegistryOK(conns, registry) /\ OpenIsHeld(conns, registry)
      /\ DroppedForAnother(conns) /\ ReusedAfterReset(conns)
  BY DEF ConnsOK
<1>1. r \in ConnType /\ r.name = n /\ r.st = "queued"
  BY DEF ConnType, ConnStates
<1> HIDE DEF r
<1>2. Len(conns) \in Nat /\ DOMAIN conns = 1..Len(conns)
  BY <1>0, ConnNumbers
<1>3. /\ cs \in Seq(ConnType) /\ Len(cs) = Len(conns) + 1 /\ cs[Len(conns) + 1] = r
      /\ \A d \in 1..Len(conns) : cs[d] = conns[d]
  BY <1>0, <1>1, AppendProperties
<1>4. DOMAIN cs = 1..(Len(conns) + 1)
  BY <1>3, LenProperties
<1> HIDE DEF cs
<1>5. RegistryOK(cs, registry)
  BY <1>0, <1>2, <1>3, <1>4 DEF RegistryOK
<1>6. OpenIsHeld(cs, registry)
  <2> SUFFICES ASSUME NEW c \in DOMAIN cs, cs[c].st = "open"
               PROVE  cs[c].name # Zero /\ registry[cs[c].name] = c
    BY DEF OpenIsHeld
  <2>1. c \in DOMAIN conns /\ cs[c] = conns[c]
    BY <1>1, <1>2, <1>3, <1>4
  <2> QED
    BY <1>0, <2>1 DEF OpenIsHeld
<1>7. DroppedForAnother(cs)
  <2> SUFFICES ASSUME NEW c \in DOMAIN cs, cs[c].st = "dropped"
               PROVE  \E d \in DOMAIN cs \ {c} :
                          cs[d].name = cs[c].name /\ (cs[c].reset \/ cs[d].reset)
    BY DEF DroppedForAnother
  <2>1. c \in DOMAIN conns /\ cs[c] = conns[c]
    BY <1>1, <1>2, <1>3, <1>4
  <2>2. PICK d \in DOMAIN conns \ {c} :
            conns[d].name = conns[c].name /\ (conns[c].reset \/ conns[d].reset)
    BY <1>0, <2>1 DEF DroppedForAnother
  <2> QED
    BY <1>2, <1>3, <1>4, <2>1, <2>2
<1>8. ReusedAfterReset(cs)
  <2> SUFFICES ASSUME NEW c \in DOMAIN cs, NEW d \in DOMAIN cs, c < d,
                      cs[c].name = cs[d].name, cs[c].name # Zero
               PROVE  cs[c].reset
    BY DEF ReusedAfterReset
  <2>1. c \in DOMAIN conns /\ cs[c] = conns[c]
    BY <1>2, <1>3, <1>4
  <2>2. CASE d \in DOMAIN conns
    BY <1>0, <1>2, <1>3, <2>1, <2>2 DEF ReusedAfterReset
  <2>3. CASE d = Len(conns) + 1
    BY <1>1, <1>3, <2>1, <2>3 DEF Free
  <2> QED
    BY <1>2, <1>4, <2>2, <2>3
<1>9. ConnsOK(cs, registry) /\ Len(cs) \in DOMAIN cs /\ cs[Len(cs)].st = "queued"
  BY <1>0, <1>1, <1>2, <1>3, <1>4, <1>5, <1>6, <1>7, <1>8 DEF ConnsOK
<1> QED
  BY <1>9 DEF cs, r

\* A connection that was queued takes its place, and one that is open there loses it.
LEMMA StoreOK ==
    ASSUME NEW cs, ConnsOK(cs, registry), NEW c \in DOMAIN cs, cs[c].st = "queued", Store(cs, c)
    PROVE  ConnsOK(conns', registry')
<1>0. /\ cs \in Seq(ConnType) /\ registry \in [AllNames -> Nat]
      /\ RegistryOK(cs, registry) /\ OpenIsHeld(cs, registry)
      /\ DroppedForAnother(cs) /\ ReusedAfterReset(cs)
  BY DEF ConnsOK
<1>1. PICK n \in AllNames : n = cs[c].name
  BY <1>0, ConnNumbers
<1>2. PICK d \in Nat : d = registry[n]
  BY <1>0
<1> DEFINE open == d # 0 /\ cs[d].st = "open"
           s == IF n = Zero THEN "phantom" ELSE "open"
           mid == IF open THEN [cs EXCEPT ![d].st = "dropped"] ELSE cs
<1>3. registry' = [registry EXCEPT ![n] = c] /\ conns' = [mid EXCEPT ![c].st = s]
  BY <1>1, <1>2 DEF Store
<1>4. d # 0 => d \in DOMAIN cs /\ cs[d].name = n
  BY <1>0, <1>2 DEF RegistryOK
<1>5. open => d # c
  OBVIOUS
<1>6. /\ mid \in Seq(ConnType) /\ DOMAIN mid = DOMAIN cs
      /\ \A e \in DOMAIN cs :
            /\ mid[e].name = cs[e].name /\ mid[e].reset = cs[e].reset
            /\ mid[e].st = IF open /\ e = d THEN "dropped" ELSE cs[e].st
  <2>1. CASE open
    <3>1. "dropped" \in ConnStates
      BY DEF ConnStates
    <3>2. Restated(cs, d, "dropped", mid)
      BY <1>0, <1>4, <2>1, <3>1, Restate
    <3> HIDE DEF mid
    <3> QED
      BY <2>1, <3>2 DEF Restated
  <2>2. CASE ~open
    BY <1>0, <2>2
  <2> QED
    BY <2>1, <2>2
<1> HIDE DEF mid
<1>7. /\ conns' \in Seq(ConnType) /\ DOMAIN conns' = DOMAIN cs
      /\ \A e \in DOMAIN cs :
            /\ conns'[e].name = cs[e].name /\ conns'[e].reset = cs[e].reset
            /\ conns'[e].st = IF e = c THEN s ELSE IF open /\ e = d THEN "dropped" ELSE cs[e].st
  <2>1. s \in ConnStates
    BY DEF ConnStates
  <2> HIDE DEF s, open
  <2>2. Restated(mid, c, s, conns')
    BY <1>3, <1>6, <2>1, Restate
  <2> QED
    BY <1>6, <2>2 DEF Restated
<1>8. /\ registry' \in [AllNames -> Nat] /\ registry'[n] = c
      /\ \A m \in AllNames \ {n} : registry'[m] = registry[m]
  <2>1. c \in Nat
    BY <1>0, ConnNumbers
  <2> QED
    BY <1>0, <1>3, <2>1
<1>9. RegistryOK(conns', registry')
  <2> SUFFICES ASSUME NEW m \in AllNames, registry'[m] # 0
               PROVE  /\ registry'[m] \in DOMAIN conns' /\ conns'[registry'[m]].name = m
                      /\ \/ conns'[registry'[m]].st \in {"open", "failed", "phantom"}
                         \/ replaced
    BY DEF RegistryOK
  <2>1. CASE m = n
    BY <1>1, <1>7, <1>8, <2>1
  <2>2. CASE m # n
    <3>1. /\ registry'[m] = registry[m] /\ registry[m] \in DOMAIN cs /\ cs[registry[m]].name = m
          /\ cs[registry[m]].st \in {"open", "failed", "phantom"} \/ replaced
      BY <1>0, <1>8, <2>2 DEF RegistryOK
    <3>2. registry[m] # c /\ (open => registry[m] # d)
      BY <1>1, <1>4, <2>2, <3>1
    <3> QED
      BY <1>7, <3>1, <3>2
  <2> QED
    BY <2>1, <2>2
<1>10. OpenIsHeld(conns', registry')
  <2> SUFFICES ASSUME NEW e \in DOMAIN cs, conns'[e].st = "open"
               PROVE  conns'[e].name # Zero /\ registry'[conns'[e].name] = e
    BY <1>7 DEF OpenIsHeld
  <2>1. CASE e = c
    BY <1>1, <1>7, <1>8, <2>1
  <2>2. CASE e # c
    <3>1. cs[e].st = "open" /\ ~(open /\ e = d)
      BY <1>7, <2>2
    <3>2. cs[e].name # Zero /\ registry[cs[e].name] = e /\ cs[e].name \in AllNames /\ e # 0
      BY <1>0, <3>1, ConnNumbers DEF OpenIsHeld
    <3>3. cs[e].name # n
      BY <1>2, <3>1, <3>2
    <3> QED
      BY <1>7, <1>8, <3>2, <3>3
  <2> QED
    BY <2>1, <2>2
<1>11. DroppedForAnother(conns')
  <2> SUFFICES ASSUME NEW e \in DOMAIN cs, conns'[e].st = "dropped"
               PROVE  \E x \in DOMAIN cs \ {e} :
                          /\ conns'[x].name = conns'[e].name
                          /\ conns'[e].reset \/ conns'[x].reset
    BY <1>7 DEF DroppedForAnother
  <2>1. e # c
    BY <1>7
  <2>2. CASE open /\ e = d
    <3>1. cs[e].name = n /\ n # Zero /\ e \in Nat /\ c \in Nat
      BY <1>0, <1>4, <2>2, ConnNumbers DEF OpenIsHeld
    <3>2. cs[e].reset \/ cs[c].reset
      BY <1>0, <1>1, <2>1, <3>1 DEF ReusedAfterReset
    <3> QED
      BY <1>1, <1>7, <2>1, <3>1, <3>2
  <2>3. CASE ~(open /\ e = d)
    <3>1. cs[e].st = "dropped"
      BY <1>7, <2>1, <2>3
    <3>2. PICK x \in DOMAIN cs \ {e} : cs[x].name = cs[e].name /\ (cs[e].reset \/ cs[x].reset)
      BY <1>0, <3>1 DEF DroppedForAnother
    <3> QED
      BY <1>7, <3>2
  <2> QED
    BY <2>2, <2>3
<1>12. ReusedAfterReset(conns')
  BY <1>0, <1>7 DEF ReusedAfterReset
<1> QED
  BY <1>7, <1>8, <1>9, <1>10, <1>11, <1>12 DEF ConnsOK

\* A connection that is open ends: closed, or failed and left where it is.
LEMMA EndOK ==
    ASSUME ConnsOK(conns, registry), NEW c \in DOMAIN conns, conns[c].st = "open",
           NEW s \in {"closed", "failed"}, conns' = [conns EXCEPT ![c].st = s],
           \/ registry' = registry /\ (s = "failed" \/ replaced)
           \/ registry' = [registry EXCEPT ![conns[c].name] = 0]
    PROVE  ConnsOK(conns', registry')
<1>0. /\ conns \in Seq(ConnType) /\ registry \in [AllNames -> Nat]
      /\ RegistryOK(conns, registry) /\ OpenIsHeld(conns, registry)
      /\ DroppedForAnother(conns) /\ ReusedAfterReset(conns)
  BY DEF ConnsOK
<1>1. PICK n \in AllNames : n = conns[c].name
  BY <1>0, ConnNumbers
<1>2. Restated(conns, c, s, conns')
  <2>1. s \in ConnStates
    BY DEF ConnStates
  <2>2. Restated(conns, c, s, [conns EXCEPT ![c].st = s])
    BY <1>0, <2>1, Restate, Zenon
  <2> QED
    BY <2>2
<1>3. /\ conns' \in Seq(ConnType) /\ DOMAIN conns' = DOMAIN conns
      /\ \A e \in DOMAIN conns :
            /\ conns'[e].name = conns[e].name /\ conns'[e].reset = conns[e].reset
            /\ conns'[e].st = IF e = c THEN s ELSE conns[e].st
  BY <1>2 DEF Restated
<1>4. /\ registry' \in [AllNames -> Nat]
      /\ \A m \in AllNames \ {n} : registry'[m] = registry[m]
      /\ registry'[n] = 0 \/ (registry'[n] = registry[n] /\ (s = "failed" \/ replaced))
  BY <1>0, <1>1
<1>5. RegistryOK(conns', registry')
  <2> SUFFICES ASSUME NEW m \in AllNames, registry'[m] # 0
               PROVE  /\ registry'[m] \in DOMAIN conns' /\ conns'[registry'[m]].name = m
                      /\ \/ conns'[registry'[m]].st \in {"open", "failed", "phantom"}
                         \/ replaced
    BY DEF RegistryOK
  <2>1. registry'[m] = registry[m] /\ (m = n => s = "failed" \/ replaced)
    BY <1>4
  <2>2. /\ registry[m] \in DOMAIN conns /\ conns[registry[m]].name = m
        /\ conns[registry[m]].st \in {"open", "failed", "phantom"} \/ replaced
    BY <1>0, <2>1 DEF RegistryOK
  <2>3. registry[m] = c => m = n
    BY <1>1, <2>2
  <2> QED
    BY <1>3, <2>1, <2>2, <2>3
<1>6. OpenIsHeld(conns', registry')
  <2> SUFFICES ASSUME NEW e \in DOMAIN conns, conns'[e].st = "open"
               PROVE  conns'[e].name # Zero /\ registry'[conns'[e].name] = e
    BY <1>3 DEF OpenIsHeld
  <2>1. e # c /\ conns[e].st = "open"
    BY <1>3
  <2>2. conns[e].name # Zero /\ registry[conns[e].name] = e /\ conns[e].name \in AllNames
    BY <1>0, <2>1, ConnNumbers DEF OpenIsHeld
  <2>3. registry[n] = c
    BY <1>0, <1>1 DEF OpenIsHeld
  <2> QED
    BY <1>3, <1>4, <2>1, <2>2, <2>3
<1>7. DroppedForAnother(conns')
  <2> SUFFICES ASSUME NEW e \in DOMAIN conns, conns'[e].st = "dropped"
               PROVE  \E x \in DOMAIN conns \ {e} :
                          /\ conns'[x].name = conns'[e].name
                          /\ conns'[e].reset \/ conns'[x].reset
    BY <1>3 DEF DroppedForAnother
  <2>1. conns[e].st = "dropped"
    BY <1>3
  <2>2. PICK x \in DOMAIN conns \ {e} :
            conns[x].name = conns[e].name /\ (conns[e].reset \/ conns[x].reset)
    BY <1>0, <2>1 DEF DroppedForAnother
  <2> QED
    BY <1>3, <2>2
<1>8. ReusedAfterReset(conns')
  BY <1>0, <1>3 DEF ReusedAfterReset
<1> QED
  BY <1>3, <1>4, <1>5, <1>6, <1>7, <1>8 DEF ConnsOK

\* handle_close erases the entry of the connection itself: nothing else is stored under
\* the name of one that is open.
LEMMA HandleCloseOK ==
    ASSUME ConnsOK(conns, registry), NEW c \in DOMAIN conns, conns[c].st = "open", HandleClose(c)
    PROVE  ConnsOK(conns', registry')
<1> DEFINE cs == [conns EXCEPT ![c].st = "closed"]
<1>0. conns \in Seq(ConnType) /\ registry[conns[c].name] = c
  BY DEF ConnsOK, OpenIsHeld
<1>1. Restated(conns, c, "closed", cs)
  BY <1>0, Restate DEF ConnStates
<1>2. cs[c].name = conns[c].name /\ cs[c].st = "closed"
  BY <1>1 DEF Restated
<1>3. CASE replaced
  BY <1>3, EndOK DEF HandleClose
<1>4. CASE ~replaced
  <2>1. Erase(cs, conns[c].name)
    BY <1>2, <1>4 DEF HandleClose
  <2>2. registry' = [registry EXCEPT ![conns[c].name] = 0] /\ conns' = cs
    BY <1>0, <1>2, <2>1 DEF Erase
  <2> QED
    BY <2>2, EndOK
<1> QED
  BY <1>3, <1>4

\* What is accepted is queued, or stored at once in the main loop.
LEMMA HandOK ==
    ASSUME ConnsOK(conns, registry), NEW n \in AllNames, n = Zero \/ Free(n), Hand(n)
    PROVE  ConnsOK(conns', registry')
<1>1. PICK l \in Loops :
          LET cs == Append(conns, [name |-> n, loop |-> l, st |-> "queued", reset |-> FALSE])
          IN  IF l = 0 THEN Store(cs, Len(cs)) ELSE conns' = cs /\ UNCHANGED registry
  BY DEF Hand
<1> DEFINE cs == Append(conns, [name |-> n, loop |-> l, st |-> "queued", reset |-> FALSE])
<1>2. ConnsOK(cs, registry) /\ Len(cs) \in DOMAIN cs /\ cs[Len(cs)].st = "queued"
  BY AcceptOK
<1>3. (l = 0 /\ Store(cs, Len(cs))) \/ (conns' = cs /\ registry' = registry)
  BY <1>1
<1> HIDE DEF cs
<1> QED
  BY <1>2, <1>3, StoreOK

\* The connections of every step.
LEMMA ConnsStep ==
    ASSUME MainThread, ConnsOK(conns, registry), [Next]_vars
    PROVE  ConnsOK(conns, registry)'
<1>0. replaced' = replaced => (ConnsOK(conns', registry') <=> ConnsOK(conns, registry)')
  BY DEF ConnsOK, RegistryOK, OpenIsHeld, DroppedForAnother, ReusedAfterReset, ConnType
<1>1. CASE UNCHANGED <<conns, registry, replaced>>
  BY <1>0, <1>1
<1>2. ASSUME NEW n \in Names, Accept(n) PROVE ConnsOK(conns, registry)'
  BY <1>0, <1>2, HandOK DEF Accept, AllNames
<1>3. CASE AcceptNoFd
  BY <1>0, <1>3, HandOK DEF AcceptNoFd, AllNames
<1>4. ASSUME NEW l \in 1..N, RunFunctor(l) PROVE ConnsOK(conns, registry)'
  <2>1. PICK c \in DOMAIN conns : conns[c].st = "queued" /\ Store(conns, c)
    BY <1>4 DEF RunFunctor, In
  <2> QED
    BY <1>0, <1>4, <2>1, StoreOK DEF RunFunctor
<1>5. ASSUME NEW c \in DOMAIN conns, Closes(c) PROVE ConnsOK(conns, registry)'
  BY <1>0, <1>5, HandleCloseOK DEF Closes, Serving
<1>6. ASSUME NEW c \in DOMAIN conns, Fails(c) PROVE ConnsOK(conns, registry)'
  <2>1. /\ conns[c].st = "open" /\ conns' = [conns EXCEPT ![c].st = "failed"]
        /\ registry' = registry /\ replaced' = replaced
    BY <1>6 DEF Fails, Serving
  <2> QED
    BY <1>0, <2>1, EndOK
<1>7. ASSUME NEW c \in DOMAIN conns, PeerResets(c) PROVE ConnsOK(conns, registry)'
  BY <1>0, <1>7, ResetOK DEF PeerResets
<1>8. CASE Walk
  <2>1. CASE UNCHANGED <<conns, registry>>
    BY <1>1, <1>8, <2>1 DEF Walk
  <2>2. CASE ~UNCHANGED <<conns, registry>>
    <3> DEFINE c == registry[Head(todo)]
    <3>1. Head(todo) \in AllNames
      BY <1>8, HeadTailProperties DEF Walk, Main, MainThread
    <3>2. c # 0 /\ conns[c].st = "open" /\ HandleClose(c) /\ replaced' = replaced
      BY <1>8, <2>2 DEF Walk
    <3>3. c \in DOMAIN conns
      BY <3>1, <3>2 DEF ConnsOK, RegistryOK
    <3> HIDE DEF c
    <3> QED
      BY <1>0, <3>2, <3>3, HandleCloseOK
  <2> QED
    BY <2>1, <2>2
<1>9. CASE StartAsync \/ StartThreads \/ Stop
  BY <1>1, <1>9 DEF StartAsync, StartThreads, Stop, connVars
<1>10. CASE WalkDone \/ QuitLoop \/ WakeLoop \/ QuitPool \/ Notify \/ Join
  BY <1>1, <1>10 DEF WalkDone, QuitLoop, WakeLoop, QuitPool, Notify, Join, connVars
<1>11. ASSUME NEW w \in Workers, Work(w) \/ Register(w) \/ LoopExit(w)
       PROVE  ConnsOK(conns, registry)'
  BY <1>1, <1>11 DEF Work, Register, LoopExit, connVars
<1>12. CASE UNCHANGED vars
  BY <1>1, <1>12 DEF vars, connVars
<1> QED
  BY <1>2, <1>3, <1>4, <1>5, <1>6, <1>7, <1>8, <1>9, <1>10, <1>11, <1>12 DEF Next, Stopping
----------------------------------------------------------------------------
(***************************************************************************)
(* The pool, the loops and the main thread.                                *)
(***************************************************************************)

\* The workers that are about to register can be counted.
LEMMA PendingFinite ==
    /\ IsFiniteSet(Pending) /\ Cardinality(Pending) \in Nat
    /\ N \in Nat
<1>1. IsFiniteSet(Workers) /\ Pending \subseteq Workers
  BY ServiceAssumption DEF Pending
<1>2. IsFiniteSet(Pending)
  BY <1>1, FS_Subset
<1> QED
  BY <1>1, <1>2, FS_CardinalityType DEF N

\* The steps that leave the pool and the loops alone.
Elsewhere ==
    \/ Stop \/ Walk \/ WalkDone \/ QuitLoop \/ WakeLoop \/ Join \/ AcceptNoFd
    \/ \E n \in Names : Accept(n)
    \/ \E l \in 1..N : RunFunctor(l)
    \/ \E c \in DOMAIN conns : Closes(c) \/ Fails(c) \/ PeerResets(c)
    \/ UNCHANGED vars

\* That they do.
LEMMA ElsewhereKeeps ==
    ASSUME Elsewhere
    PROVE  UNCHANGED <<poolVars, registered, host>>
<1>1. CASE Stop \/ Walk \/ WalkDone \/ QuitLoop \/ WakeLoop \/ Join
  BY <1>1 DEF Stop, Walk, WalkDone, QuitLoop, WakeLoop, Join, loopVars
<1>2. CASE AcceptNoFd \/ \E n \in Names : Accept(n)
  BY <1>2 DEF AcceptNoFd, Accept, loopVars
<1>3. CASE \E l \in 1..N : RunFunctor(l)
  BY <1>3 DEF RunFunctor, loopVars
<1>4. CASE \E c \in DOMAIN conns : Closes(c) \/ Fails(c) \/ PeerResets(c)
  BY <1>4 DEF Closes, Fails, PeerResets, loopVars
<1>5. CASE UNCHANGED vars
  BY <1>5 DEF vars, loopVars
<1> QED
  BY <1>1, <1>2, <1>3, <1>4, <1>5 DEF Elsewhere

\* All the others.
LEMMA StepKinds ==
    ASSUME [Next]_vars
    PROVE  \/ Elsewhere \/ StartAsync \/ StartThreads \/ QuitPool \/ Notify
           \/ \E w \in Workers : Work(w) \/ Register(w) \/ LoopExit(w)
BY DEF Next, Stopping, Elsewhere

PoolInv == Pool /\ Budget /\ Hosts

\* A worker goes on, other than to a task or from one.
LEMMA WorkerMoves ==
    ASSUME PoolInv, NEW w \in Workers, wpc[w] # "task", NEW pc \in WorkerPC \ {"task"},
           Goto(w, pc), UNCHANGED <<tasks, registered, host, poolQuit, missed>>
    PROVE  PoolInv'
<1>1. wpc' \in [Workers -> WorkerPC] /\ wpc'[w] = pc /\ \A v \in Workers \ {w} : wpc'[v] = wpc[v]
  BY DEF PoolInv, Pool, Goto
<1>2. Pending' = Pending
  BY <1>1 DEF Pending
<1>3. Pool'
  BY <1>1 DEF PoolInv, Pool
<1>4. Budget'
  BY <1>2 DEF PoolInv, Budget
<1>5. Hosts'
  BY <1>1 DEF PoolInv, Hosts
<1> QED
  BY <1>3, <1>4, <1>5 DEF PoolInv

\* The pool and the loops of every step.
LEMMA PoolStep ==
    ASSUME PoolInv, MainThread, [Next]_vars
    PROVE  PoolInv'
<1>0. /\ Pool /\ Budget /\ Hosts
      /\ tasks \in Nat /\ registered \in Nat /\ tasks + Cardinality(Pending) + registered <= N
      /\ IsFiniteSet(Pending) /\ Cardinality(Pending) \in Nat /\ N \in Nat
  BY PendingFinite DEF PoolInv, Pool, Budget
<1>1. CASE UNCHANGED <<poolVars, registered, host>>
  <2>1. UNCHANGED <<tasks, poolQuit, wpc, missed, registered, host>>
    BY <1>1 DEF poolVars
  <2>2. Pending' = Pending
    BY <2>1 DEF Pending
  <2> QED
    BY <1>0, <2>1, <2>2 DEF PoolInv, Pool, Budget, Hosts
<1>2. CASE StartAsync
  <2>1. CASE tasks < N
    <3>1. \A w \in Workers : wpc[w] = "none"
      BY <1>2 DEF StartAsync, Main, MainThread
    <3>2. registered = 0
      BY <1>2 DEF StartAsync, Main, MainThread
    <3>3. Asleep = {}
      BY <3>1 DEF Asleep
    <3>4. tasks' = tasks + 1 /\ UNCHANGED <<wpc, poolQuit, missed, registered, host>>
      BY <1>2, <2>1, <3>3 DEF StartAsync, Async, loopVars
    <3>5. Pending' = {}
      BY <3>1, <3>4 DEF Pending
    <3>6. Cardinality(Pending') = 0
      BY <3>5, FS_EmptySet
    <3>7. Budget'
      BY <1>0, <2>1, <3>2, <3>4, <3>6 DEF Budget
    <3> QED
      BY <1>0, <3>4, <3>7 DEF PoolInv, Pool, Hosts
  <2>2. CASE ~(tasks < N)
    BY <1>1, <1>2, <2>2 DEF StartAsync, loopVars
  <2> QED
    BY <2>1, <2>2
<1>3. CASE StartThreads
  <2>1. CASE \E w \in Workers : wpc[w] = "none"
    <3>1. PICK w \in Workers : wpc[w] = "none" /\ Goto(w, "check")
      BY <1>3, <2>1 DEF StartThreads, StartThread
    <3>2. UNCHANGED <<tasks, registered, host, poolQuit, missed>>
      BY <1>3, <2>1 DEF StartThreads, StartThread, loopVars
    <3> QED
      BY <3>1, <3>2, WorkerMoves DEF WorkerPC
  <2>2. CASE ~\E w \in Workers : wpc[w] = "none"
    BY <1>1, <1>3, <2>2 DEF StartThreads, loopVars
  <2> QED
    BY <2>1, <2>2
<1>4. CASE QuitPool
  <2>1. poolQuit' = TRUE /\ UNCHANGED <<tasks, wpc, missed, registered, host>>
    BY <1>4 DEF QuitPool, SetQuit, loopVars
  <2>2. Pending' = Pending
    BY <2>1 DEF Pending
  <2>3. Pool'
    BY <1>0, <2>1, Zenon DEF Pool
  <2> QED
    BY <1>0, <2>1, <2>2, <2>3 DEF PoolInv, Budget, Hosts
<1>5. CASE Notify
  <2>1. /\ wpc' = [w \in Workers |-> IF w \in Asleep THEN "pred" ELSE wpc[w]]
        /\ missed' = AboutToSleep /\ UNCHANGED <<tasks, poolQuit, registered, host>>
    BY <1>5 DEF Notify, NotifyAll, loopVars
  <2>2. \A w \in Workers : wpc'[w] = "task" <=> wpc[w] = "task"
    BY <2>1 DEF Asleep
  <2>3. Pending' = Pending
    BY <2>1, <2>2 DEF Pending
  <2>4. Pool'
    BY <1>0, <2>1 DEF Pool, WorkerPC, AboutToSleep
  <2>5. Hosts'
    BY <1>0, <2>1, <2>2 DEF Hosts
  <2> QED
    BY <1>0, <2>1, <2>3, <2>4, <2>5 DEF PoolInv, Budget
<1>6. ASSUME NEW w \in Workers, Work(w) PROVE PoolInv'
  <2>0. UNCHANGED <<registered, host>>
    BY <1>6 DEF Work, loopVars
  <2>1. CASE CheckQuit(w) \/ Sleep(w)
    <3>1. PICK pc \in {"done", "pred", "waiting"} : Goto(w, pc)
      BY <2>1 DEF CheckQuit, Sleep
    <3>2. wpc[w] # "task" /\ UNCHANGED <<tasks, poolQuit, missed>>
      BY <2>1 DEF CheckQuit, Sleep
    <3> QED
      BY <2>0, <3>1, <3>2, WorkerMoves DEF WorkerPC
  <2>2. CASE Pred(w) /\ tasks' = tasks /\ (Goto(w, "done") \/ Goto(w, "sleep"))
    <3>1. wpc[w] # "task" /\ UNCHANGED <<tasks, poolQuit, missed>>
      BY <2>2 DEF Pred
    <3> QED
      BY <2>0, <2>2, <3>1, WorkerMoves DEF WorkerPC
  <2>3. CASE Pred(w) /\ tasks > 0 /\ Goto(w, "task") /\ tasks' = tasks - 1
    <3>1. wpc[w] = "pred" /\ UNCHANGED <<poolQuit, missed>>
      BY <2>3 DEF Pred
    <3>2. /\ wpc' \in [Workers -> WorkerPC] /\ wpc'[w] = "task"
          /\ \A v \in Workers \ {w} : wpc'[v] = wpc[v]
      BY <1>0, <2>3 DEF Pool, Goto, WorkerPC
    <3>3. host[w] = 0
      BY <1>0, <3>1 DEF Hosts
    <3>4. Pending' = Pending \cup {w} /\ w \notin Pending
      BY <2>0, <3>1, <3>2, <3>3 DEF Pending
    <3>5. Cardinality(Pending') = Cardinality(Pending) + 1
      BY <1>0, <3>4, FS_AddElement
    <3>6. Budget'
      BY <1>0, <2>0, <2>3, <3>5 DEF Budget
    <3>7. Pool'
      BY <1>0, <2>3, <3>1, <3>2 DEF Pool
    <3>8. Hosts'
      BY <1>0, <2>0, <3>2 DEF Hosts
    <3> QED
      BY <3>6, <3>7, <3>8 DEF PoolInv
  <2> QED
    BY <1>6, <2>1, <2>2, <2>3 DEF Work, WorkerStep, Pred
<1>7. ASSUME NEW w \in Workers, Register(w) PROVE PoolInv'
  <2>1. /\ wpc[w] = "task" /\ host[w] = 0 /\ registered' = registered + 1
        /\ host' = [host EXCEPT ![w] = registered + 1]
        /\ UNCHANGED <<tasks, poolQuit, wpc, missed>>
    BY <1>7 DEF Register, poolVars
  <2>2. /\ host' \in [Workers -> Nat] /\ host'[w] = registered + 1
        /\ \A v \in Workers \ {w} : host'[v] = host[v]
    BY <1>0, <2>1 DEF Hosts
  <2>3. Pending' = Pending \ {w} /\ w \in Pending
    BY <1>0, <2>1, <2>2 DEF Pending
  <2>4. Cardinality(Pending') = Cardinality(Pending) - 1
    BY <1>0, <2>3, FS_RemoveElement
  <2>5. Budget'
    BY <1>0, <2>1, <2>4 DEF Budget
  <2>6. Pool'
    BY <1>0, <2>1 DEF Pool
  <2>7. Hosts'
    <3>1. \A v \in Workers : host[v] \in Nat /\ host[v] <= registered
      BY <1>0 DEF Hosts
    <3>2. \A v \in Workers : host'[v] <= registered' /\ (host'[v] # 0 => wpc'[v] = "task")
      BY <1>0, <2>1, <2>2, <3>1 DEF Hosts
    <3>3. \A v, u \in Workers : host'[v] = host'[u] => host'[v] = 0 \/ v = u
      BY <1>0, <2>2, <3>1 DEF Hosts
    <3> QED
      BY <2>2, <3>2, <3>3 DEF Hosts
  <2> QED
    BY <2>5, <2>6, <2>7 DEF PoolInv
<1>8. ASSUME NEW w \in Workers, LoopExit(w) PROVE PoolInv'
  <2>1. /\ wpc[w] = "task" /\ host[w] \in quit /\ Goto(w, "check")
        /\ host' = [host EXCEPT ![w] = 0]
        /\ UNCHANGED <<tasks, poolQuit, missed, registered>>
    BY <1>8 DEF LoopExit, TaskReturns
  <2>2. /\ host' \in [Workers -> Nat] /\ host'[w] = 0
        /\ \A v \in Workers \ {w} : host'[v] = host[v]
    BY <1>0, <2>1 DEF Hosts
  <2>3. /\ wpc' \in [Workers -> WorkerPC] /\ wpc'[w] = "check"
        /\ \A v \in Workers \ {w} : wpc'[v] = wpc[v]
    BY <1>0, <2>1 DEF Pool, Goto, WorkerPC
  <2>4. host[w] # 0
    BY <1>0, <2>1 DEF MainThread
  <2>5. Pending' = Pending
    BY <2>2, <2>3, <2>4 DEF Pending
  <2>6. Hosts'
    BY <1>0, <2>1, <2>2, <2>3 DEF Hosts
  <2>7. Pool' /\ Budget'
    BY <1>0, <2>1, <2>3, <2>5 DEF Pool, Budget
  <2> QED
    BY <2>6, <2>7 DEF PoolInv
<1> QED
  BY <1>1, <1>2, <1>3, <1>4, <1>5, <1>6, <1>7, <1>8, StepKinds, ElsewhereKeeps

\* The names under which something is stored are no more than the connections, so that
\* they can be put in order.
LEMMA StoredNames ==
    ASSUME ConnsOK(conns, registry)
    PROVE  SetToSeqs({n \in AllNames : registry[n] # 0}) \subseteq Seq(AllNames)
<1> DEFINE S == {n \in AllNames : registry[n] # 0}
           f == [n \in S |-> registry[n]]
<1>1. \A n \in S : registry[n] \in DOMAIN conns /\ conns[registry[n]].name = n
  BY DEF ConnsOK, RegistryOK
<1>2. f \in [S -> DOMAIN conns] /\ \A a, b \in S : f[a] = f[b] => a = b
  BY <1>1
<1>3. f \in Injection(S, DOMAIN conns)
  BY <1>2 DEF Injection, IsInjective
<1>4. Len(conns) \in Nat /\ DOMAIN conns = 1..Len(conns)
  BY ConnNumbers DEF ConnsOK
<1>5. IsFiniteSet(DOMAIN conns)
  BY <1>4, FS_Interval
<1> HIDE DEF f
<1>6. Cardinality(S) \in Nat
  BY <1>3, <1>5, FS_Injection, FS_CardinalityType
<1>7. S \subseteq AllNames
  OBVIOUS
<1> HIDE DEF S
<1>8. [1..Cardinality(S) -> S] \subseteq [1..Cardinality(S) -> AllNames]
  BY <1>7
<1>9. [1..Cardinality(S) -> AllNames] \subseteq Seq(AllNames)
  BY <1>6, SeqDef
<1>10. SetToSeqs(S) \subseteq Seq(AllNames)
  BY <1>8, <1>9 DEF SetToSeqs
<1> QED
  BY <1>10 DEF S

\* What a step of the workers may do to the main thread's view: loops are added.
LEMMA MoreLoops ==
    ASSUME PoolInv, MainThread, mpc # "async", UNCHANGED <<mpc, todo, quit, woken>>,
           registered' \in {registered, registered + 1}
    PROVE  MainThread'
<1>1. registered \in Nat
  BY DEF PoolInv, Budget
<1>2. 1..registered \subseteq 1..registered'
  BY <1>1
<1>3. mpc \in {"quit", "wake"} => todo' \in Seq(1..registered')
  <2>1. SUFFICES ASSUME mpc \in {"quit", "wake"} PROVE todo \in Seq(1..registered')
    OBVIOUS
  <2>2. todo \in Seq(1..registered)
    BY <2>1 DEF MainThread
  <2> QED
    BY <1>2, <2>2, SeqMonotonic
<1> QED
  BY <1>2, <1>3 DEF MainThread

\* The main thread of every step.
LEMMA MainThreadStep ==
    ASSUME PoolInv, MainThread, ConnsOK(conns, registry), [Next]_vars
    PROVE  MainThread'
<1>0. registered \in Nat /\ tasks \in Nat /\ N \in Nat
  BY PendingFinite DEF PoolInv, Pool, Budget
<1>1. CASE UNCHANGED <<mpc, todo, registered, quit, woken, tasks, wpc>>
  BY <1>1 DEF MainThread
<1>2. CASE StartAsync
  <2>1. CASE tasks < N
    <3>1. Asleep = {}
      BY <1>2 DEF StartAsync, Main, MainThread, Asleep
    <3>2. /\ mpc = "async" /\ tasks' = tasks + 1
          /\ UNCHANGED <<mpc, todo, registered, quit, woken, wpc>>
      BY <1>2, <2>1, <3>1 DEF StartAsync, Main, Async, loopVars
    <3>3. tasks' <= N
      BY <1>0, <2>1, <3>2
    <3> QED
      BY <3>2, <3>3 DEF MainThread
  <2>2. CASE ~(tasks < N)
    BY <1>2, <2>2 DEF StartAsync, Main, loopVars, MainThread
  <2> QED
    BY <2>1, <2>2
<1>3. CASE StartThreads
  BY <1>3 DEF StartThreads, Main, loopVars, MainThread
<1>4. CASE Stop
  <2>1. todo' \in Seq(AllNames)
    BY <1>4, StoredNames DEF Stop
  <2> QED
    BY <1>4, <2>1 DEF Stop, loopVars, MainThread
<1>5. CASE Walk
  <2>1. todo' \in Seq(AllNames) /\ mpc' = "walk" /\ UNCHANGED <<registered, quit, woken>>
    BY <1>5, HeadTailProperties DEF Walk, Main, loopVars, MainThread
  <2> QED
    BY <2>1 DEF MainThread
<1>6. CASE WalkDone
  <2>1. /\ mpc' = "quit" /\ todo' = [l \in 1..registered |-> l]
        /\ UNCHANGED <<registered, quit, woken>>
    BY <1>6 DEF WalkDone, loopVars
  <2>2. todo' \in [1..registered -> 1..registered]
    BY <2>1
  <2>3. todo' \in Seq(1..registered)
    BY <1>0, <2>2, SeqDef
  <2> QED
    BY <2>1, <2>3 DEF MainThread
<1>7. CASE QuitLoop
  <2>1. /\ mpc = "quit" /\ mpc' = "wake" /\ todo # <<>> /\ todo' = todo
        /\ quit' = quit \cup {Head(todo)} /\ UNCHANGED <<registered, woken>>
    BY <1>7 DEF QuitLoop, Main
  <2>2. todo \in Seq(1..registered)
    BY <2>1 DEF MainThread
  <2>3. Head(todo) \in 1..registered
    BY <2>1, <2>2, HeadTailProperties
  <2> QED
    BY <2>1, <2>2, <2>3 DEF MainThread
<1>8. CASE WakeLoop
  <2>1. /\ mpc = "wake" /\ mpc' = "quit" /\ todo' = Tail(todo)
        /\ woken' = woken \cup {Head(todo)} /\ UNCHANGED <<registered, quit>>
    BY <1>8 DEF WakeLoop, Main
  <2>2. todo \in Seq(1..registered) /\ todo # <<>> /\ Head(todo) \in quit
    BY <2>1 DEF MainThread
  <2>3. Tail(todo) \in Seq(1..registered)
    BY <2>2, HeadTailProperties
  <2> QED
    BY <2>1, <2>2, <2>3 DEF MainThread
<1>9. CASE QuitPool \/ Notify \/ Join
  BY <1>9 DEF QuitPool, Notify, Join, Main, loopVars, MainThread
<1>10. CASE AcceptNoFd \/ \E n \in Names : Accept(n)
  BY <1>1, <1>10 DEF AcceptNoFd, Accept, loopVars, poolVars
<1>11. CASE \E l \in 1..N : RunFunctor(l)
  BY <1>1, <1>11 DEF RunFunctor, loopVars, poolVars
<1>12. CASE \E c \in DOMAIN conns : Closes(c) \/ Fails(c) \/ PeerResets(c)
  BY <1>1, <1>12 DEF Closes, Fails, PeerResets, loopVars, poolVars
<1>13. ASSUME NEW w \in Workers, Work(w) PROVE MainThread'
  <2>1. wpc[w] # "none" /\ UNCHANGED <<mpc, todo, registered, quit, woken>>
    BY <1>13 DEF Work, WorkerStep, CheckQuit, Pred, Sleep, loopVars
  <2>2. mpc # "async"
    BY <2>1 DEF MainThread
  <2> QED
    BY <2>1, <2>2, MoreLoops
<1>14. ASSUME NEW w \in Workers, Register(w) \/ LoopExit(w) PROVE MainThread'
  <2>1. /\ wpc[w] # "none" /\ registered' \in {registered, registered + 1}
        /\ UNCHANGED <<mpc, todo, quit, woken>>
    BY <1>14 DEF Register, LoopExit, TaskReturns
  <2>2. mpc # "async"
    BY <2>1 DEF MainThread
  <2> QED
    BY <2>1, <2>2, MoreLoops
<1>15. CASE UNCHANGED vars
  BY <1>1, <1>15 DEF vars, loopVars, poolVars
<1> QED
  BY <1>2, <1>3, <1>4, <1>5, <1>6, <1>7, <1>8, <1>9, <1>10, <1>11, <1>12, <1>13, <1>14, <1>15
     DEF Next, Stopping

\* The rest of the state of every step.
LEMMA RestStep ==
    ASSUME PoolInv, Rest, [Next]_vars
    PROVE  Rest'
<1>0. /\ registered \in Nat /\ idx \in Int /\ emfile \in 0..MaxEmfile
      /\ replaced \in BOOLEAN /\ crashed \in BOOLEAN
  BY DEF PoolInv, Budget, Rest
<1>1. CASE UNCHANGED <<idx, replaced, emfile>> /\ crashed' \in BOOLEAN
  BY <1>0, <1>1, Zenon DEF Rest
<1>2. ASSUME NEW n, Hand(n) PROVE idx' \in Int
  BY <1>0, <1>2 DEF Hand, Producer
<1>3. ASSUME NEW n \in Names, Accept(n) PROVE Rest'
  <2>1. UNCHANGED <<replaced, emfile, crashed>> /\ idx' \in Int
    BY <1>2, <1>3 DEF Accept
  <2> QED
    BY <1>0, <2>1, Zenon DEF Rest
<1>4. CASE AcceptNoFd
  <2>1. UNCHANGED <<replaced, crashed>> /\ idx' \in Int
    BY <1>2, <1>4 DEF AcceptNoFd
  <2>2. emfile' \in 0..MaxEmfile
    BY <1>0, <1>4, ServiceAssumption DEF AcceptNoFd
  <2> QED
    BY <1>0, <2>1, <2>2, Zenon DEF Rest
<1>5. CASE StartAsync \/ StartThreads \/ Stop \/ WalkDone \/ QuitLoop \/ QuitPool \/ Notify \/ Join
  <2>1. UNCHANGED <<idx, replaced, emfile, crashed>>
    BY <1>5 DEF StartAsync, StartThreads, Stop, WalkDone, QuitLoop, QuitPool, Notify, Join, connVars
  <2> QED
    BY <1>0, <1>1, <2>1, Zenon
<1>6. CASE WakeLoop
  <2>1. /\ UNCHANGED <<idx, replaced, emfile>>
        /\ crashed' \in (IF Head(todo) \in Alive THEN {FALSE} ELSE BOOLEAN)
    BY <1>6 DEF WakeLoop, connVars
  <2>2. crashed' \in BOOLEAN
    BY <2>1, Zenon
  <2> QED
    BY <1>1, <2>1, <2>2, Zenon
<1>7. CASE Walk
  <2>1. UNCHANGED <<idx, replaced, emfile>> /\ (crashed' = crashed \/ crashed' = TRUE)
    BY <1>7 DEF Walk
  <2> QED
    BY <1>0, <1>1, <2>1, Zenon
<1>8. ASSUME NEW w \in Workers, Register(w) PROVE Rest'
  <2>1. /\ UNCHANGED <<idx, replaced, emfile>>
        /\ crashed' \in IF mpc \in {"quit", "wake"} THEN BOOLEAN ELSE {FALSE}
    BY <1>8 DEF Register, connVars
  <2>2. crashed' \in BOOLEAN
    BY <2>1, Zenon
  <2> QED
    BY <1>1, <2>1, <2>2, Zenon
<1>9. ASSUME NEW w \in Workers, Work(w) \/ LoopExit(w) PROVE Rest'
  <2>1. UNCHANGED <<idx, replaced, emfile, crashed>>
    BY <1>9 DEF Work, LoopExit, connVars
  <2> QED
    BY <1>0, <1>1, <2>1, Zenon
<1>10. ASSUME NEW l \in 1..N, RunFunctor(l) PROVE Rest'
  <2>1. UNCHANGED <<idx, replaced, emfile, crashed>>
    BY <1>10 DEF RunFunctor
  <2> QED
    BY <1>0, <1>1, <2>1, Zenon
<1>11. ASSUME NEW c \in DOMAIN conns, Closes(c) \/ Fails(c) \/ PeerResets(c) PROVE Rest'
  <2>1. UNCHANGED <<idx, replaced, emfile, crashed>>
    BY <1>11 DEF Closes, Fails, PeerResets
  <2> QED
    BY <1>0, <1>1, <2>1, Zenon
<1>12. CASE UNCHANGED vars
  <2>1. UNCHANGED <<idx, replaced, emfile, crashed>>
    BY <1>12 DEF vars, connVars
  <2> QED
    BY <1>0, <1>1, <2>1, Zenon
<1> QED
  BY <1>3, <1>4, <1>5, <1>6, <1>7, <1>8, <1>9, <1>10, <1>11, <1>12 DEF Next, Stopping
----------------------------------------------------------------------------
(***************************************************************************)
(* The theorems.                                                           *)
(***************************************************************************)

\* Nothing is queued, registered or stored at first.
LEMMA InitService ==
    ASSUME Init
    PROVE  ServiceInv
<1>0. N \in Nat /\ MaxEmfile \in Nat
  BY PendingFinite, ServiceAssumption
<1>1. Pending = {}
  BY DEF Init, PoolInit, Pending
<1>2. Cardinality(Pending) = 0
  BY <1>1, FS_EmptySet
<1>3. tasks = 0 /\ registered = 0 /\ poolQuit = FALSE
  BY DEF Init, PoolInit
<1>4. Pool
  <2>1. tasks \in Nat /\ wpc \in [Workers -> WorkerPC] /\ missed \subseteq Workers
    BY DEF Init, PoolInit, WorkerPC
  <2> QED
    BY <1>3, <2>1, Zenon DEF Pool
<1>5. Budget
  BY <1>0, <1>2, <1>3 DEF Budget
<1>6. Hosts
  BY DEF Init, Hosts
<1>7. MainThread
  BY <1>0, <1>3 DEF Init, PoolInit, MainThread
<1>8. Rest
  <2>1. idx \in Int /\ emfile \in 0..MaxEmfile
    BY <1>0 DEF Init
  <2>2. replaced \in BOOLEAN /\ crashed \in BOOLEAN
    BY Zenon DEF Init
  <2> QED
    BY <2>1, <2>2, Zenon DEF Rest
<1>9. ConnsOK(conns, registry)
  <2>1. conns = <<>> /\ registry = [n \in AllNames |-> 0]
    BY DEF Init
  <2>2. conns \in Seq(ConnType) /\ DOMAIN conns = {}
    BY <2>1
  <2>3. registry \in [AllNames -> Nat] /\ \A n \in AllNames : registry[n] = 0
    BY <2>1
  <2> QED
    BY <2>2, <2>3 DEF ConnsOK, RegistryOK, OpenIsHeld, DroppedForAnother, ReusedAfterReset
<1> QED
  BY <1>4, <1>5, <1>6, <1>7, <1>8, <1>9 DEF ServiceInv

\* The invariant is inductive: for any number of workers, whatever the order in which they
\* take tasks, register, serve connections and are told to quit.
THEOREM ServiceInvariant == Spec => []ServiceInv
<1>1. Init => ServiceInv
  BY InitService
<1>2. ServiceInv /\ [Next]_vars => ServiceInv'
  <2> SUFFICES ASSUME ServiceInv, [Next]_vars
               PROVE  ServiceInv'
    OBVIOUS
  <2>1. PoolInv /\ MainThread /\ Rest /\ ConnsOK(conns, registry)
    BY DEF ServiceInv, PoolInv
  <2>2. PoolInv'
    BY <2>1, PoolStep
  <2>3. MainThread'
    BY <2>1, MainThreadStep
  <2>4. Rest'
    BY <2>1, RestStep
  <2>5. ConnsOK(conns, registry)'
    BY <2>1, ConnsStep
  <2> QED
    BY <2>2, <2>3, <2>4, <2>5 DEF ServiceInv, PoolInv
<1> QED
  BY <1>1, <1>2, PTL DEF Spec

\* eventloops_ never holds more loops than the pool has workers, no two workers run the
\* same loop, quit_ and the wake-up reach only loops that registered, and an
\* entry of connections_ refers to a connection that has that name.
THEOREM TypeCorrect == Spec => []TypeOK
<1>1. ServiceInv => TypeOK
  <2> SUFFICES ASSUME ServiceInv
               PROVE  TypeOK
    OBVIOUS
  <2>0. Pool /\ Budget /\ Hosts /\ MainThread /\ Rest /\ ConnsOK(conns, registry)
    BY DEF ServiceInv
  <2>1. tasks \in 0..N /\ registered \in Loops
    BY <2>0, PendingFinite DEF Pool, Budget, Loops
  <2>2. registered \in Nat /\ 1..registered \subseteq Loops
    BY <2>1, PendingFinite DEF Loops
  <2>3. todo \in Seq(AllNames \cup Loops)
    <3>1. CASE mpc = "walk"
      BY <2>0, <3>1, SeqMonotonic DEF MainThread
    <3>2. CASE mpc \in {"quit", "wake"}
      <4>1. todo \in Seq(1..registered) /\ 1..registered \subseteq AllNames \cup Loops
        BY <2>0, <2>2, <3>2 DEF MainThread
      <4> QED
        BY <4>1, SeqMonotonic
    <3>3. CASE mpc \notin {"walk", "quit", "wake"}
      BY <2>0, <3>3 DEF MainThread
    <3> QED
      BY <3>1, <3>2, <3>3
  <2>4. /\ \A w \in Workers : host[w] \in 0..registered /\ (host[w] # 0 => wpc[w] = "task")
        /\ \A w, v \in Workers : host[w] = host[v] => host[w] = 0 \/ w = v
    BY <2>0, <2>2 DEF Hosts
  <2>5. /\ conns \in Seq([name : AllNames, loop : Loops, st : ConnStates, reset : BOOLEAN])
        /\ \A n \in AllNames : registry[n] \in {0} \cup {c \in DOMAIN conns : conns[c].name = n}
    BY <2>0 DEF ConnsOK, RegistryOK, ConnType
  <2>6. /\ mpc \in {"async", "threads", "run", "walk", "quit", "wake", "notify", "join", "stopped"}
        /\ woken \subseteq quit /\ quit \subseteq 1..registered
    BY <2>0 DEF MainThread
  <2> QED
    BY <2>0, <2>1, <2>3, <2>4, <2>5, <2>6, Zenon DEF TypeOK, Pool, Rest
<1> QED
  BY <1>1, ServiceInvariant, PTL

\* A connection that is open is kept by connections_, and one destroyed while open lost its
\* place to another of its name, one of the two having been reset by the peer.
THEOREM HeldCorrect == Spec => []Held
<1>1. ServiceInv => Held
  BY DEF ServiceInv, ConnsOK, OpenIsHeld, DroppedForAnother, Held
<1> QED
  BY <1>1, ServiceInvariant, PTL

\* connections_ forgets a connection that ends, but for the three exceptions.
THEOREM ReleasedCorrect == Spec => []Released
<1>1. ServiceInv => Released
  BY DEF ServiceInv, ConnsOK, RegistryOK, Released
<1> QED
  BY <1>1, ServiceInvariant, PTL
=============================================================================

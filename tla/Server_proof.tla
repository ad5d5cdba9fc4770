---------------------------- MODULE Server_proof ----------------------------
(***************************************************************************)
(* The limits of the accept gate, the handshake slots and the shutdown of  *)
(* Server, for any number of descriptors, workers and readers and any      *)
(* limits.                                                                 *)
(***************************************************************************)
EXTENDS Server, FiniteSetTheorems, TLAPS

Queued == {"queued", "reading"}
Delivered == {"incoming", "batched", "registered"}
Registered == {"registered", "handshaking", "serving"}
Stages == {"free", "accepted"} \cup Queued \cup Delivered \cup Registered
Conns == [stage : Stages, protocol : Protocols, worker : Workers]

Acceptors == [at : {"starting", "listen", "count", "admit", "poke", "pend"},
              fd : Fds \cup {NoFd}, protocol : Protocols, proxied : BOOLEAN,
              counted : 0..(WorkerCount + 2), sum : Nat, max : Nat, worker : Workers]
ReaderStates == [at : {"wait", "read", "poke", "done", "stopped"},
                 fd : Fds \cup {NoFd}, worker : Workers]
WorkerStates == [at : {"poll", "drain", "adopt", "stopped"}, batch : Seq(Fds)]

\* The descriptors in one of some stages, all of them and those of a worker.
In(st) == {f \in Fds : conn[f].stage \in st}
At(w, st) == {f \in Fds : conn[f].worker = w /\ conn[f].stage \in st}

\* A queue that holds each member of a set once.
Lists(q, S) ==
  /\ S = {q[i] : i \in DOMAIN q}
  /\ \A i, j \in DOMAIN q : q[i] = q[j] => i = j

TypeOK ==
  /\ listening \subseteq Protocols /\ maxClients \in Nat
  /\ conn \in [Fds -> Conns]
  /\ acceptor \in Acceptors
  /\ nextWorker \in 0..(WorkerCount - 1)
  /\ proxyQueue \in Seq(Fds) /\ proxyPending \in Int
  /\ reader \in [Readers -> ReaderStates]
  /\ incoming \in [Workers -> Seq(Fds)] /\ pending \in [Workers -> Int]
  /\ worker \in [Workers -> WorkerStates]
  /\ clients \subseteq Fds /\ noiseSlots \in Int
  /\ stopping \in {"no", "readers", "workers"}

\* Only the acceptor holds a descriptor that is accepted and not admitted, and
\* it holds none once it has left its loop.
AcceptorInv ==
  /\ acceptor.at \in {"count", "admit"} =>
       /\ acceptor.fd \in Fds
       /\ conn[acceptor.fd].stage = "accepted"
       /\ conn[acceptor.fd].protocol = acceptor.protocol
       /\ acceptor.proxied => acceptor.protocol = "sv1"
  /\ \A f \in Fds : conn[f].stage = "accepted" =>
       acceptor.at \in {"count", "admit"} /\ acceptor.fd = f
  /\ stopping /= "no" => acceptor.at = "listen"

\* proxy_queue_ holds the queued descriptors, all of them SV1.
QueueInv ==
  /\ Lists(proxyQueue, In({"queued"}))
  /\ Len(proxyQueue) <= ProxyQueueLimit
  /\ \A f \in Fds : conn[f].stage \in Queued => conn[f].protocol = "sv1"

\* Each descriptor whose header is being read is with one reader, and when the
\* workers are told to stop none is queued or read any more.
ReaderInv ==
  /\ \A r \in Readers : reader[r].at = "read" =>
       /\ reader[r].fd \in Fds
       /\ conn[reader[r].fd].stage = "reading"
       /\ conn[reader[r].fd].worker = reader[r].worker
  /\ \A r, s \in Readers :
       reader[r].at = "read" /\ reader[s].at = "read" /\ reader[r].fd = reader[s].fd => r = s
  /\ \A f \in Fds : conn[f].stage = "reading" =>
       \E r \in Readers : reader[r].at = "read" /\ reader[r].fd = f
  /\ stopping = "workers" => /\ proxyQueue = <<>>
                             /\ \A r \in Readers : reader[r].at = "stopped"

\* A worker's queue and its batch hold the descriptors delivered to it.  One
\* that has stopped holds none.
WorkerInv ==
  \A w \in Workers :
    /\ Lists(incoming[w], At(w, {"incoming"}))
    /\ Lists(worker[w].batch, At(w, {"batched", "registered"}))
    /\ worker[w].at = "adopt" <=> worker[w].batch /= <<>>
    /\ worker[w].at = "stopped" =>
         stopping = "workers" /\ At(w, Delivered \cup Registered) = {}

ClientsInv == clients = In(Registered)

\* What the counters of the accept gate count.  proxy_pending_ is late for a
\* descriptor that the acceptor has just queued, and late again for one that a
\* reader is done with.
PendingInv == \A w \in Workers : pending[w] = Cardinality(At(w, Delivered))
ProxyInv ==
  proxyPending + (IF acceptor.at = "pend" THEN 1 ELSE 0) =
    Cardinality(In(Queued)) + Cardinality({r \in Readers : reader[r].at \in {"poke", "done"}})

\* A descriptor that a counter the acceptor has yet to read still counts.
Ahead(f) ==
  \/ acceptor.counted = 0 /\ conn[f].stage \in Queued
  \/ acceptor.counted <= conn[f].worker /\ conn[f].stage \in Delivered
  \/ acceptor.counted <= WorkerCount + 1 /\ conn[f].stage \in Registered
Passed == {f \in Occupied : ~Ahead(f)}

\* Connections move through the counters in the order these are read, so that
\* the sum so far covers every descriptor that is not ahead.
CountingInv ==
  /\ acceptor.at = "count" => Cardinality(Passed) <= acceptor.sum
  /\ acceptor.at = "admit" =>
       /\ Cardinality(Occupied) < acceptor.max
       /\ acceptor.protocol /= "sv1" => Cardinality(Occupied) < Sv2AdmissionLimit(acceptor.max)

Inv ==
  /\ TypeOK /\ AcceptorInv /\ QueueInv /\ ReaderInv /\ WorkerInv /\ ClientsInv
  /\ PendingInv /\ ProxyInv /\ SlotsAreHeld /\ CountingInv

------------------------------------------------------------------------------
\* Queues as sets, and how the sets change when one descriptor moves

\* An append puts a new member into what a queue lists.
LEMMA ListsAppend ==
  ASSUME NEW q \in Seq(Fds), NEW S, Lists(q, S), NEW f \in Fds, f \notin S
  PROVE  Append(q, f) \in Seq(Fds) /\ Lists(Append(q, f), S \cup {f})
  <1>1. /\ Append(q, f) \in Seq(Fds)
        /\ Len(Append(q, f)) = Len(q) + 1
        /\ \A i \in 1..Len(q) : Append(q, f)[i] = q[i]
        /\ Append(q, f)[Len(q) + 1] = f
    OBVIOUS
  <1>2. DOMAIN q = 1..Len(q) /\ DOMAIN Append(q, f) = 1..(Len(q) + 1) /\ Len(q) \in Nat
    BY <1>1
  <1> QED
    BY <1>1, <1>2 DEF Lists

\* Taking the head off a queue takes one member out.
LEMMA ListsTail ==
  ASSUME NEW q \in Seq(Fds), NEW S, Lists(q, S), q /= <<>>
  PROVE  /\ Head(q) \in S
         /\ Tail(q) \in Seq(Fds) /\ Lists(Tail(q), S \ {Head(q)})
         /\ Len(Tail(q)) = Len(q) - 1
  <1>1. /\ Head(q) = q[1] /\ Tail(q) \in Seq(Fds) /\ Len(Tail(q)) = Len(q) - 1
        /\ \A i \in 1..Len(Tail(q)) : Tail(q)[i] = q[i + 1]
        /\ Len(q) \in Nat /\ Len(q) > 0
    OBVIOUS
  <1>2. DOMAIN q = 1..Len(q) /\ DOMAIN Tail(q) = 1..(Len(q) - 1)
    BY <1>1
  <1>3. Head(q) \in S
    BY <1>1, <1>2 DEF Lists
  <1>4. \A i, j \in DOMAIN Tail(q) : Tail(q)[i] = Tail(q)[j] => i = j
    BY <1>1, <1>2 DEF Lists
  <1>5. \A x \in S \ {Head(q)} : \E i \in DOMAIN Tail(q) : x = Tail(q)[i]
    <2> SUFFICES ASSUME NEW x \in S \ {Head(q)} PROVE \E i \in DOMAIN Tail(q) : x = Tail(q)[i]
      BY Zenon
    <2>1. PICK k \in 1..Len(q) : x = q[k]
      BY <1>2, Zenon DEF Lists
    <2>2. k /= 1
      BY <2>1, <1>1, Zenon
    <2>3. k - 1 \in DOMAIN Tail(q) /\ Tail(q)[k - 1] = x
      BY <2>1, <2>2, <1>1, <1>2
    <2> QED BY <2>3, Zenon
  <1>6. \A i \in DOMAIN Tail(q) : Tail(q)[i] \in S \ {Head(q)}
    BY <1>1, <1>2 DEF Lists
  <1>7. S \ {Head(q)} = {Tail(q)[i] : i \in DOMAIN Tail(q)}
    BY <1>5, <1>6, Zenon
  <1> QED
    BY <1>1, <1>3, <1>4, <1>7, Zenon DEF Lists

\* The empty queue lists nothing, and no other does.
LEMMA ListsEmpty ==
  ASSUME NEW q \in Seq(Fds), NEW S, Lists(q, S)
  PROVE  q = <<>> <=> S = {}
  BY DEF Lists

\* An empty queue lists the empty set.
LEMMA EmptyLists == <<>> \in Seq(Fds) /\ Lists(<<>>, {})
  BY DEF Lists

\* There are finitely many descriptors.
LEMMA Finite ==
  ASSUME NEW S, S \subseteq Fds
  PROVE  IsFiniteSet(S) /\ Cardinality(S) \in Nat
  <1>1. IsFiniteSet(Fds)
    BY ServerAssumption, FS_Interval DEF Fds
  <1> QED
    BY <1>1, FS_Subset, FS_CardinalityType, Zenon

\* There are finitely many readers.
LEMMA ReadersFinite ==
  ASSUME NEW S, S \subseteq Readers PROVE IsFiniteSet(S) /\ Cardinality(S) \in Nat
  BY ServerAssumption, FS_Subset, FS_CardinalityType, Zenon

\* One descriptor changes: the sets it leaves and joins.
LEMMA Moved ==
  ASSUME TypeOK, NEW f \in Fds, NEW c \in Conns, conn' = [conn EXCEPT ![f] = c], NEW st
  PROVE  /\ In(st)' = IF c.stage \in st THEN In(st) \cup {f} ELSE In(st) \ {f}
         /\ \A w \in Workers :
              At(w, st)' = IF c.worker = w /\ c.stage \in st
                           THEN At(w, st) \cup {f} ELSE At(w, st) \ {f}
  BY Zenon DEF TypeOK, In, At

\* The sets it neither leaves nor joins.
LEMMA NotMoved ==
  ASSUME TypeOK, NEW f \in Fds, NEW c \in Conns, conn' = [conn EXCEPT ![f] = c], NEW st,
         c.stage \in st <=> conn[f].stage \in st,
         c.stage \in st => c.worker = conn[f].worker
  PROVE  In(st)' = In(st) /\ \A w \in Workers : At(w, st)' = At(w, st)
  <1>1. \A g \in Fds : conn'[g] = IF g = f THEN c ELSE conn[g]
    BY Zenon DEF TypeOK
  <1> QED BY <1>1, Zenon DEF In, At

\* It is not in them before or after.
LEMMA Untouched ==
  ASSUME TypeOK, NEW f \in Fds, NEW c \in Conns, conn' = [conn EXCEPT ![f] = c], NEW st,
         c.stage \notin st, conn[f].stage \notin st
  PROVE  In(st)' = In(st) /\ \A w \in Workers : At(w, st)' = At(w, st)
  BY NotMoved, Zenon

\* The number of descriptors in those sets, and of the handshake slots held.
LEMMA MovedCounts ==
  ASSUME TypeOK, NEW f \in Fds, NEW c \in Conns, conn' = [conn EXCEPT ![f] = c], NEW st
  PROVE  /\ Cardinality(In(st)') = Cardinality(In(st)) + (IF c.stage \in st THEN 1 ELSE 0)
                                     - (IF conn[f].stage \in st THEN 1 ELSE 0)
         /\ \A w \in Workers :
              Cardinality(At(w, st)') =
                Cardinality(At(w, st)) + (IF c.worker = w /\ c.stage \in st THEN 1 ELSE 0)
                  - (IF conn[f].worker = w /\ conn[f].stage \in st THEN 1 ELSE 0)
  <1>1. /\ In(st) \subseteq Fds
        /\ f \in In(st) <=> conn[f].stage \in st
        /\ \A w \in Workers : /\ At(w, st) \subseteq Fds
                              /\ f \in At(w, st) <=> conn[f].worker = w /\ conn[f].stage \in st
    BY Zenon DEF In, At
  <1>2. ASSUME NEW S, S \subseteq Fds
        PROVE  /\ Cardinality(S) \in Nat
               /\ Cardinality(S \cup {f}) = IF f \in S THEN Cardinality(S) ELSE Cardinality(S) + 1
               /\ Cardinality(S \ {f}) = IF f \in S THEN Cardinality(S) - 1 ELSE Cardinality(S)
    BY <1>2, Finite, FS_AddElement, FS_RemoveElement, Zenon
  <1>3. Cardinality(In(st)') = Cardinality(In(st)) + (IF c.stage \in st THEN 1 ELSE 0)
                                 - (IF conn[f].stage \in st THEN 1 ELSE 0)
    <2>1. In(st)' = IF c.stage \in st THEN In(st) \cup {f} ELSE In(st) \ {f}
      BY Moved, Zenon
    <2>2. In(st) \subseteq Fds /\ (f \in In(st) <=> conn[f].stage \in st)
      BY <1>1, Zenon
    <2>3. /\ Cardinality(In(st)) \in Nat
          /\ Cardinality(In(st) \cup {f}) =
               IF f \in In(st) THEN Cardinality(In(st)) ELSE Cardinality(In(st)) + 1
          /\ Cardinality(In(st) \ {f}) =
               IF f \in In(st) THEN Cardinality(In(st)) - 1 ELSE Cardinality(In(st))
      BY <1>2, <2>2, Zenon
    <2> QED BY <2>1, <2>2, <2>3
  <1>4. ASSUME NEW w \in Workers
        PROVE  Cardinality(At(w, st)') =
                Cardinality(At(w, st)) + (IF c.worker = w /\ c.stage \in st THEN 1 ELSE 0)
                  - (IF conn[f].worker = w /\ conn[f].stage \in st THEN 1 ELSE 0)
    <2>1. At(w, st)' = IF c.worker = w /\ c.stage \in st
                       THEN At(w, st) \cup {f} ELSE At(w, st) \ {f}
      BY Moved, Zenon
    <2>2. At(w, st) \subseteq Fds
          /\ (f \in At(w, st) <=> conn[f].worker = w /\ conn[f].stage \in st)
      BY <1>1, Zenon
    <2> QED BY <1>2, <2>1, <2>2
  <1> QED BY <1>3, <1>4, Zenon

\* The stages in which a Noise connection holds a slot.
Slotted == {"incoming", "batched", "registered", "handshaking"}

\* The handshake slots that are held, when one descriptor changes.
LEMMA MovedSlots ==
  ASSUME TypeOK, NEW f \in Fds, NEW c \in Conns, conn' = [conn EXCEPT ![f] = c]
  PROVE  /\ Slots(Fds) \in Nat
         /\ Slots(Fds)' = Slots(Fds)
              + (IF c.protocol = "noise" /\ c.stage \in Slotted THEN 1 ELSE 0)
              - (IF conn[f].protocol = "noise" /\ conn[f].stage \in Slotted THEN 1 ELSE 0)
  <1> DEFINE S == {g \in Fds : HoldsSlot(g)}
  <1>1. S \subseteq Fds /\ (f \in S <=> conn[f].protocol = "noise" /\ conn[f].stage \in Slotted)
    BY Zenon DEF HoldsSlot, Slotted
  <1>2. S' = IF c.protocol = "noise" /\ c.stage \in Slotted THEN S \cup {f} ELSE S \ {f}
    BY Zenon DEF HoldsSlot, Slotted, TypeOK
  <1>3. /\ Cardinality(S) \in Nat
        /\ Cardinality(S \cup {f}) = IF f \in S THEN Cardinality(S) ELSE Cardinality(S) + 1
        /\ Cardinality(S \ {f}) = IF f \in S THEN Cardinality(S) - 1 ELSE Cardinality(S)
    BY <1>1, Finite, FS_AddElement, FS_RemoveElement, Zenon
  <1>4. Slots(Fds) = Cardinality(S) /\ Slots(Fds)' = Cardinality(S')
    BY Zenon DEF Slots
  <1> HIDE DEF S
  <1> QED BY <1>1, <1>2, <1>3, <1>4

\* A connection stays where it is, is closed, or goes on to the next stage.
Forward(f) ==
  \/ conn'[f] = conn[f]
  \/ conn'[f].stage = "free"
  \/ /\ conn'[f].worker = conn[f].worker
     /\ \/ conn[f].stage = "queued" /\ conn'[f].stage = "reading"
        \/ conn[f].stage = "reading" /\ conn'[f].stage = "incoming"
        \/ conn[f].stage = "incoming" /\ conn'[f].stage = "batched"
        \/ conn[f].stage = "batched" /\ conn'[f].stage = "registered"
        \/ conn[f].stage = "registered" /\ conn'[f].stage \in {"handshaking", "serving"}
        \/ conn[f].stage = "handshaking" /\ conn'[f].stage = "serving"

\* Whatever the readers and the workers do while the acceptor counts or admits,
\* what it has counted still covers the descriptors that are not ahead.
LEMMA ForwardCounts ==
  ASSUME TypeOK, CountingInv, acceptor' = acceptor, \A f \in Fds : Forward(f)
  PROVE  CountingInv'
  <1>1. Occupied' \subseteq Occupied /\ Occupied \subseteq Fds
    BY Zenon DEF Occupied, Forward
  <1>2. ASSUME NEW f \in Fds, f \in Passed' PROVE f \in Passed
    <2>1. f \in Occupied' /\ ~Ahead(f)'
      BY <1>2, Zenon DEF Passed
    <2>2. conn'[f].stage /= "free"
      BY <2>1, Zenon DEF Occupied
    <2>3. /\ acceptor.counted \in 0..(WorkerCount + 2) /\ WorkerCount \in Nat
          /\ conn[f].worker \in 1..WorkerCount
      BY <1>2, ServerAssumption, Zenon DEF TypeOK, Acceptors, Conns, Workers
    <2>4. ~Ahead(f)
      BY <2>1, <2>2, <2>3 DEF Ahead, Forward, Queued, Delivered, Registered
    <2> QED BY <2>1, <2>4, <1>1, Zenon DEF Passed
  <1>3. Passed' \subseteq Passed /\ Passed \subseteq Fds
    BY <1>1, <1>2, Zenon DEF Passed
  <1>4. /\ Cardinality(Passed') \in Nat /\ Cardinality(Passed) \in Nat
        /\ Cardinality(Occupied') \in Nat /\ Cardinality(Occupied) \in Nat
        /\ Cardinality(Passed') <= Cardinality(Passed)
        /\ Cardinality(Occupied') <= Cardinality(Occupied)
    BY <1>1, <1>3, Finite, FS_Subset, Zenon
  <1>5. acceptor.sum \in Nat /\ acceptor.max \in Nat /\ Sv2AdmissionLimit(acceptor.max) \in Int
    BY DEF TypeOK, Acceptors, Sv2AdmissionLimit
  <1> QED
    BY <1>4, <1>5 DEF CountingInv

------------------------------------------------------------------------------
\* The inductive invariant, action by action

\* The idle states of a descriptor and of the threads.
LEMMA Idle ==
  /\ Free \in Conns /\ Listen \in Acceptors /\ Waiting \in ReaderStates
  /\ Polling \in WorkerStates /\ 1 \in Workers /\ WorkerCount \in Nat
  BY ServerAssumption, EmptyLists
  DEF Free, Conns, Stages, Listen, Acceptors, Waiting, ReaderStates, Polling, WorkerStates,
      Protocols, Workers

\* run() before the threads start.
LEMMA InitInv == Init => Inv
  <1> SUFFICES ASSUME Init PROVE Inv
    BY Zenon
  <1> USE DEF Init, Listen, Waiting, Polling
  <1>1. Free \in Conns /\ 1 \in Workers /\ 0 \in 0..(WorkerCount - 1) /\ 0 \in 0..(WorkerCount + 2)
    BY ServerAssumption DEF Free, Conns, Stages, Protocols, Workers
  <1>2. TypeOK
    <2>1. [Listen EXCEPT !.at = "starting"] \in Acceptors
      BY <1>1, Zenon DEF Acceptors, Protocols
    <2>2. reader \in [Readers -> ReaderStates] /\ worker \in [Workers -> WorkerStates]
      BY <1>1, EmptyLists, Zenon DEF ReaderStates, WorkerStates
    <2> QED BY <1>1, <2>1, <2>2, ServerAssumption, EmptyLists DEF TypeOK, Protocols
  <1>3. \A f \in Fds : conn[f] = Free
    BY Zenon
  <1>4. ASSUME NEW st, "free" \notin st
        PROVE  In(st) = {} /\ \A w \in Workers : At(w, st) = {}
    BY <1>3, <1>4, Zenon DEF In, At, Free
  <1>5. AcceptorInv BY <1>3, Zenon DEF AcceptorInv, Free
  <1>6. QueueInv
    <2>1. In({"queued"}) = {} BY <1>4, Zenon
    <2>2. Len(proxyQueue) <= ProxyQueueLimit
      BY ServerAssumption
    <2>3. \A f \in Fds : conn[f].stage \notin Queued
      BY <1>3, Zenon DEF Free, Queued
    <2> QED BY <2>1, <2>2, <2>3, EmptyLists, Zenon DEF QueueInv
  <1>7. ReaderInv BY <1>3, Zenon DEF ReaderInv, Free
  <1>8. WorkerInv
    <2>1. \A w \in Workers : /\ At(w, {"incoming"}) = {} /\ At(w, {"batched", "registered"}) = {}
      BY <1>4, Zenon
    <2> QED BY <2>1, EmptyLists, Zenon DEF WorkerInv
  <1>9. ClientsInv BY <1>4, Zenon DEF ClientsInv, Registered
  <1>10. PendingInv BY <1>4, FS_EmptySet, Zenon DEF PendingInv, Delivered
  <1>11. ProxyInv
    <2>1. In(Queued) = {} /\ {r \in Readers : reader[r].at \in {"poke", "done"}} = {}
      BY <1>4, Zenon DEF Queued
    <2> QED BY <2>1, FS_EmptySet, Zenon DEF ProxyInv
  <1>12. SlotsAreHeld
    <2>1. {f \in Fds : HoldsSlot(f)} = {}
      BY <1>3, Zenon DEF HoldsSlot, Free
    <2>2. Slots(Fds) = 0
      BY <2>1, FS_EmptySet, Zenon DEF Slots
    <2> QED BY <2>2 DEF SlotsAreHeld
  <1>13. CountingInv BY Zenon DEF CountingInv
  <1> QED BY <1>2, <1>5, <1>6, <1>7, <1>8, <1>9, <1>10, <1>11, <1>12, <1>13, Zenon DEF Inv

\* What a step leaves alone when it leaves the descriptors alone.
LEMMA SameConn ==
  ASSUME conn' = conn
  PROVE  /\ \A st : In(st)' = In(st)
         /\ \A w, st : At(w, st)' = At(w, st)
         /\ Slots(Fds)' = Slots(Fds) /\ Occupied' = Occupied
  BY Zenon DEF In, At, Slots, HoldsSlot, Occupied

\* The listeners are bound.
LEMMA StartInv == ASSUME Inv, Start PROVE Inv'
  <1> USE DEF Inv, Start
  <1>1. TypeOK'
    <2>2. listening' \subseteq Protocols
      BY Zenon DEF StartAuthenticated, StartPlaintext, Protocols
    <2> QED BY <2>2, Idle, Zenon DEF TypeOK
  <1>2. AcceptorInv' BY Zenon DEF AcceptorInv, Listen
  <1>3. QueueInv' BY SameConn, Zenon DEF QueueInv
  <1>4. ReaderInv' BY Zenon DEF ReaderInv
  <1>5. WorkerInv' BY SameConn, Zenon DEF WorkerInv
  <1>6. ClientsInv' /\ PendingInv' BY SameConn, Zenon DEF ClientsInv, PendingInv
  <1>7. ProxyInv' /\ SlotsAreHeld' BY SameConn, Zenon DEF ProxyInv, SlotsAreHeld, Listen
  <1>8. CountingInv' BY Zenon DEF CountingInv, Listen
  <1> QED BY <1>1, <1>2, <1>3, <1>4, <1>5, <1>6, <1>7, <1>8, Zenon

\* A new max_clients is read by the next decision only.
LEMMA ReloadConfigInv == ASSUME Inv, ReloadConfig PROVE Inv'
  <1> USE DEF Inv, ReloadConfig
  <1>1. TypeOK' BY ServerAssumption, Zenon DEF TypeOK
  <1>2. AcceptorInv' BY Zenon DEF AcceptorInv
  <1>3. QueueInv' BY SameConn, Zenon DEF QueueInv
  <1>4. ReaderInv' BY Zenon DEF ReaderInv
  <1>5. WorkerInv' BY SameConn, Zenon DEF WorkerInv
  <1>6. ClientsInv' /\ PendingInv' BY SameConn, Zenon DEF ClientsInv, PendingInv
  <1>7. ProxyInv' /\ SlotsAreHeld' BY SameConn, Zenon DEF ProxyInv, SlotsAreHeld
  <1>8. CountingInv' BY ForwardCounts, Zenon DEF Forward
  <1> QED BY <1>1, <1>2, <1>3, <1>4, <1>5, <1>6, <1>7, <1>8, Zenon

\* accept() gives the acceptor a descriptor of its own.  At the start of the
\* count every admitted descriptor is ahead.
LEMMA AcceptInv == ASSUME Inv, Accept PROVE Inv'
  <1> USE DEF Inv
  <1>1. PICK f \in Fds, p \in listening, trusted \in BOOLEAN :
          /\ conn[f].stage = "free" /\ (trusted => p = "sv1")
          /\ conn' = [conn EXCEPT ![f] = [Free EXCEPT !.stage = "accepted", !.protocol = p]]
          /\ acceptor' = [Listen EXCEPT !.at = "count", !.fd = f, !.protocol = p,
                                        !.proxied = trusted]
    BY Zenon DEF Accept
  <1>2. /\ acceptor.at = "listen" /\ stopping = "no"
        /\ UNCHANGED <<listening, sv2State, maxClients, nextWorker, proxyQueue, proxyPending,
                       reader, incoming, pending, poked, worker, clients, noiseSlots, stopping>>
    BY Zenon DEF Accept
  <1>3. PICK c : c = [Free EXCEPT !.stage = "accepted", !.protocol = p]
    BY Zenon
  <1>4. /\ c \in Conns /\ c.stage = "accepted" /\ c.protocol = p
        /\ conn' = [conn EXCEPT ![f] = c]
    BY <1>1, <1>3, Idle, Zenon DEF Free, Conns, Stages, TypeOK
  <1>5. \A g \in Fds : conn'[g] = IF g = f THEN c ELSE conn[g]
    BY <1>4, Zenon DEF TypeOK
  <1>6. /\ acceptor'.at = "count" /\ acceptor'.fd = f /\ acceptor'.protocol = p
        /\ acceptor'.proxied = trusted /\ acceptor'.counted = 0 /\ acceptor'.sum = 0
        /\ acceptor' \in Acceptors
    BY <1>1, Idle, Zenon DEF Listen, Acceptors, TypeOK
  <1>7. ASSUME NEW st, "free" \notin st, "accepted" \notin st
        PROVE  In(st)' = In(st) /\ \A w \in Workers : At(w, st)' = At(w, st)
    <2>1. c.stage \notin st /\ conn[f].stage \notin st
      BY <1>1, <1>4, <1>7, Zenon
    <2> QED BY <1>4, <2>1, Untouched, Zenon
  <1>8. TypeOK' BY <1>2, <1>4, <1>6, Zenon DEF TypeOK
  <1>9. AcceptorInv' BY <1>1, <1>2, <1>4, <1>5, <1>6, Zenon DEF AcceptorInv
  <1>10. QueueInv'
    <2>1. In({"queued"})' = In({"queued"}) BY <1>7, Zenon
    <2> QED BY <1>2, <1>4, <1>5, <2>1, Zenon DEF QueueInv, Queued
  <1>11. ReaderInv' BY <1>1, <1>2, <1>4, <1>5 DEF ReaderInv
  <1>12. WorkerInv'
    <2>1. \A w \in Workers : /\ At(w, {"incoming"})' = At(w, {"incoming"})
                             /\ At(w, {"batched", "registered"})' = At(w, {"batched", "registered"})
                             /\ At(w, Delivered \cup Registered)' = At(w, Delivered \cup Registered)
      BY <1>7, Zenon DEF Delivered, Registered
    <2> QED BY <1>2, <2>1, Zenon DEF WorkerInv
  <1>13. ClientsInv'
    <2>1. In(Registered)' = In(Registered) BY <1>7, Zenon DEF Registered
    <2> QED BY <1>2, <2>1, Zenon DEF ClientsInv
  <1>14. PendingInv'
    <2>1. \A w \in Workers : At(w, Delivered)' = At(w, Delivered)
      BY <1>7, Zenon DEF Delivered
    <2> QED BY <1>2, <2>1, Zenon DEF PendingInv
  <1>15. ProxyInv'
    <2>1. In(Queued)' = In(Queued) BY <1>7, Zenon DEF Queued
    <2> QED BY <1>2, <1>6, <2>1, Zenon DEF ProxyInv
  <1>16. SlotsAreHeld'
    <2>1. Slots(Fds) \in Nat
          /\ Slots(Fds)' = Slots(Fds)
              + (IF c.protocol = "noise" /\ c.stage \in Slotted THEN 1 ELSE 0)
              - (IF conn[f].protocol = "noise" /\ conn[f].stage \in Slotted THEN 1 ELSE 0)
      BY <1>4, MovedSlots, Zenon
    <2>2. c.stage \notin Slotted /\ conn[f].stage \notin Slotted
      BY <1>1, <1>4, Zenon DEF Slotted
    <2> QED BY <1>2, <1>6, <2>1, <2>2 DEF SlotsAreHeld
  <1>17. CountingInv'
    <2>1. \A g \in Fds : conn'[g].worker \in Nat
      BY <1>8 DEF TypeOK, Conns, Workers
    <2>2. \A g \in Fds : conn'[g].stage \in Stages
      BY <1>8, Zenon DEF TypeOK, Conns
    <2>3. Passed' = {}
      BY <1>6, <2>1, <2>2, Idle DEF Passed, Occupied, Ahead, Stages
    <2> QED BY <1>6, <2>3, FS_EmptySet DEF CountingInv
  <1> QED
    BY <1>8, <1>9, <1>10, <1>11, <1>12, <1>13, <1>14, <1>15, <1>16, <1>17, Zenon

\* One more counter is read.  What it counts covers the descriptors that are
\* now no longer ahead.
LEMMA CountNextInv == ASSUME Inv, CountNext PROVE Inv'
  <1> USE DEF Inv
  <1>1. /\ acceptor.at = "count" /\ acceptor.counted <= WorkerCount + 1
        /\ acceptor' = [acceptor EXCEPT !.sum = @ + Counter(acceptor.counted), !.counted = @ + 1]
        /\ UNCHANGED <<listening, sv2State, maxClients, conn, nextWorker, proxyQueue,
                       proxyPending, reader, incoming, pending, poked, worker, clients,
                       noiseSlots, stopping>>
    BY Zenon DEF CountNext
  <1>2. PICK i \in 0..(WorkerCount + 1) : i = acceptor.counted
    BY <1>1, Idle DEF TypeOK, Acceptors
  <1> DEFINE Counted == {f \in Fds : \/ i = 0 /\ f \in In(Queued)
                                     \/ i = conn[f].worker /\ f \in At(conn[f].worker, Delivered)
                                     \/ i = WorkerCount + 1 /\ f \in In(Registered)}
  <1>3. Counter(i) \in Nat /\ Cardinality(Counted) <= Counter(i)
    <2>1. CASE i = 0
      <3>1. Counted = In(Queued)
        BY <2>1, Idle DEF In, TypeOK, Conns, Workers
      <3>2. proxyPending = Cardinality(In(Queued))
                 + Cardinality({r \in Readers : reader[r].at \in {"poke", "done"}})
        BY <1>1 DEF ProxyInv, TypeOK
      <3>3. IsFiniteSet({r \in Readers : reader[r].at \in {"poke", "done"}})
        BY ServerAssumption, FS_Subset, Zenon
      <3>4. Cardinality({r \in Readers : reader[r].at \in {"poke", "done"}}) \in Nat
        BY <3>3, FS_CardinalityType, Zenon
      <3>5. Cardinality(In(Queued)) \in Nat
        BY Finite, Zenon DEF In
      <3>6. Counter(i) = proxyPending
        BY <2>1, Idle DEF Counter, Workers
      <3> HIDE DEF Counted
      <3> QED BY <3>1, <3>2, <3>4, <3>5, <3>6
    <2>2. CASE i \in Workers
      <3>1. Counted = At(i, Delivered)
        BY <2>2, Idle DEF At, TypeOK, Conns, Workers
      <3>2. Counter(i) = pending[i]
        BY <2>2, Idle DEF Counter, Workers
      <3>3. Cardinality(At(i, Delivered)) \in Nat
        BY Finite, Zenon DEF At
      <3> HIDE DEF Counted
      <3> QED BY <2>2, <3>1, <3>2, <3>3 DEF PendingInv
    <2>3. CASE i = WorkerCount + 1
      <3>1. Counted = In(Registered)
        BY <2>3, Idle DEF In, TypeOK, Conns, Workers
      <3>2. Counter(i) = Cardinality(clients)
        BY <2>3, Idle DEF Counter, Workers
      <3>3. Cardinality(In(Registered)) \in Nat
        BY Finite, Zenon DEF In
      <3> HIDE DEF Counted
      <3> QED BY <3>1, <3>2, <3>3 DEF ClientsInv
    <2> QED BY <2>1, <2>2, <2>3, Idle DEF Workers
  <1>4. /\ acceptor'.at = "count" /\ acceptor'.counted = i + 1
        /\ acceptor'.sum = acceptor.sum + Counter(i)
        /\ acceptor'.fd = acceptor.fd /\ acceptor'.protocol = acceptor.protocol
        /\ acceptor'.proxied = acceptor.proxied /\ acceptor' \in Acceptors
    <2>1. PICK n \in Nat : n = Counter(i)
      BY <1>3, Zenon
    <2>2. acceptor' = [acceptor EXCEPT !.sum = @ + n, !.counted = @ + 1]
      BY <1>1, <1>2, <2>1, Zenon
    <2>3. acceptor.sum \in Nat /\ acceptor \in Acceptors
      BY Zenon DEF TypeOK, Acceptors
    <2>4. acceptor.sum + n \in Nat /\ acceptor.counted + 1 \in 0..(WorkerCount + 2)
      BY <1>2, <2>1, <2>3, Idle
    <2>5. acceptor' \in Acceptors
      BY <2>2, <2>3, <2>4, Zenon DEF Acceptors
    <2>6. /\ acceptor'.at = acceptor.at /\ acceptor'.counted = acceptor.counted + 1
          /\ acceptor'.sum = acceptor.sum + n
          /\ acceptor'.fd = acceptor.fd /\ acceptor'.protocol = acceptor.protocol
          /\ acceptor'.proxied = acceptor.proxied
      BY <2>2, <2>3, Zenon DEF Acceptors
    <2> QED BY <1>1, <1>2, <2>1, <2>5, <2>6, Zenon
  <1>5. TypeOK' BY <1>1, <1>4, Zenon DEF TypeOK
  <1>6. AcceptorInv' BY <1>1, <1>4, Zenon DEF AcceptorInv
  <1>7. QueueInv' /\ WorkerInv'
    BY <1>1, SameConn, Zenon DEF QueueInv, WorkerInv
  <1>8. ReaderInv' BY <1>1, Zenon DEF ReaderInv
  <1>9. ClientsInv' /\ PendingInv' BY <1>1, SameConn, Zenon DEF ClientsInv, PendingInv
  <1>10. ProxyInv' /\ SlotsAreHeld'
    BY <1>1, <1>4, SameConn, Zenon DEF ProxyInv, SlotsAreHeld
  <1>11. CountingInv'
    <2>1. \A f \in Fds : conn[f].worker \in 1..WorkerCount
      BY Zenon DEF TypeOK, Conns, Workers
    <2>2. Passed' \subseteq Passed \cup Counted
      BY <1>1, <1>2, <1>4, <2>1, Idle DEF Passed, Occupied, Ahead, In, At
    <2>3. Passed \subseteq Fds /\ Counted \subseteq Fds
      BY Zenon DEF Passed, Occupied
    <2> HIDE DEF Counted
    <2>4. /\ IsFiniteSet(Passed) /\ IsFiniteSet(Counted)
          /\ Cardinality(Passed) \in Nat /\ Cardinality(Counted) \in Nat
      BY <2>3, Finite, Zenon
    <2>5. /\ IsFiniteSet(Passed \cup Counted)
          /\ Cardinality(Passed \cup Counted) =
               Cardinality(Passed) + Cardinality(Counted) - Cardinality(Passed \cap Counted)
      BY <2>4, FS_Union, Zenon
    <2>6. Cardinality(Passed \cap Counted) \in Nat /\ Cardinality(Passed') \in Nat
      BY <2>2, <2>3, Finite, Zenon
    <2>7. Cardinality(Passed') <= Cardinality(Passed \cup Counted)
      BY <2>2, <2>5, FS_Subset, Zenon
    <2>8. Cardinality(Passed) <= acceptor.sum /\ acceptor.sum \in Nat
      BY <1>1, Zenon DEF CountingInv, TypeOK, Acceptors
    <2> QED BY <1>3, <1>4, <2>4, <2>5, <2>6, <2>7, <2>8 DEF CountingInv
  <1> QED BY <1>5, <1>6, <1>7, <1>8, <1>9, <1>10, <1>11, Zenon

\* The acceptor closes the descriptor it holds, a Noise one with its slot free.
LEMMA AcceptedCloses ==
  ASSUME Inv, acceptor.at \in {"count", "admit"},
         acceptor.at = "admit" => acceptor.protocol = "sv1",
         conn' = [conn EXCEPT ![acceptor.fd] = Free], acceptor' = Listen,
         nextWorker' \in 0..(WorkerCount - 1),
         UNCHANGED <<listening, maxClients, proxyQueue, proxyPending, reader, incoming,
                     pending, worker, clients, noiseSlots, stopping>>
  PROVE  Inv'
  <1> USE DEF Inv
  <1>1. PICK f \in Fds : f = acceptor.fd /\ conn[f].stage = "accepted"
    BY Zenon DEF AcceptorInv
  <1>2. PICK c \in Conns : c = Free /\ c.stage = "free" /\ conn' = [conn EXCEPT ![f] = c]
    BY <1>1, Idle, Zenon DEF Free
  <1>3. \A g \in Fds : conn'[g] = IF g = f THEN c ELSE conn[g]
    BY <1>2, Zenon DEF TypeOK
  <1>4. acceptor'.at = "listen" /\ acceptor' \in Acceptors
    BY Idle, Zenon DEF Listen
  <1>5. ASSUME NEW st, "free" \notin st, "accepted" \notin st
        PROVE  In(st)' = In(st) /\ \A w \in Workers : At(w, st)' = At(w, st)
    <2>1. c.stage \notin st /\ conn[f].stage \notin st
      BY <1>1, <1>2, <1>5, Zenon
    <2> QED BY <1>2, <2>1, Untouched, Zenon
  <1>6. TypeOK' BY <1>2, <1>4, Zenon DEF TypeOK
  <1>7. AcceptorInv' BY <1>1, <1>2, <1>3, <1>4, Zenon DEF AcceptorInv
  <1>8. QueueInv'
    <2>1. In({"queued"})' = In({"queued"}) BY <1>5, Zenon
    <2> QED BY <1>2, <1>3, <2>1, Zenon DEF QueueInv, Queued
  <1>9. ReaderInv' BY <1>1, <1>2, <1>3 DEF ReaderInv
  <1>10. WorkerInv'
    <2>1. \A w \in Workers : /\ At(w, {"incoming"})' = At(w, {"incoming"})
                             /\ At(w, {"batched", "registered"})' = At(w, {"batched", "registered"})
                             /\ At(w, Delivered \cup Registered)' = At(w, Delivered \cup Registered)
      BY <1>5, Zenon DEF Delivered, Registered
    <2> QED BY <2>1, Zenon DEF WorkerInv
  <1>11. ClientsInv'
    <2>1. In(Registered)' = In(Registered) BY <1>5, Zenon DEF Registered
    <2> QED BY <2>1, Zenon DEF ClientsInv
  <1>12. PendingInv'
    <2>1. \A w \in Workers : At(w, Delivered)' = At(w, Delivered)
      BY <1>5, Zenon DEF Delivered
    <2> QED BY <2>1, Zenon DEF PendingInv
  <1>13. ProxyInv'
    <2>1. In(Queued)' = In(Queued) BY <1>5, Zenon DEF Queued
    <2> QED BY <1>4, <2>1, Zenon DEF ProxyInv
  <1>14. SlotsAreHeld'
    <2>1. Slots(Fds) \in Nat
          /\ Slots(Fds)' = Slots(Fds)
              + (IF c.protocol = "noise" /\ c.stage \in Slotted THEN 1 ELSE 0)
              - (IF conn[f].protocol = "noise" /\ conn[f].stage \in Slotted THEN 1 ELSE 0)
      BY <1>2, MovedSlots, Zenon
    <2>2. c.stage \notin Slotted /\ conn[f].stage \notin Slotted
      BY <1>1, <1>2, Zenon DEF Slotted
    <2> QED BY <1>4, <2>1, <2>2 DEF SlotsAreHeld
  <1>15. CountingInv' BY <1>4, Zenon DEF CountingInv
  <1> QED
    BY <1>6, <1>7, <1>8, <1>9, <1>10, <1>11, <1>12, <1>13, <1>14, <1>15, Zenon

\* The sum covers every admitted descriptor, and it is below the limits read now
\* when the connection is admitted.  A refused descriptor is closed.
LEMMA DecideInv == ASSUME Inv, Decide PROVE Inv'
  <1> USE DEF Inv
  <1>1. /\ acceptor.at = "count" /\ acceptor.counted = WorkerCount + 2
        /\ UNCHANGED <<listening, sv2State, maxClients, nextWorker, proxyQueue, proxyPending,
                       reader, incoming, pending, poked, worker, clients, stopping>>
    BY Zenon DEF Decide
  <1>2. /\ acceptor.fd \in Fds /\ conn[acceptor.fd].stage = "accepted"
        /\ conn[acceptor.fd].protocol = acceptor.protocol
        /\ acceptor.proxied => acceptor.protocol = "sv1"
    BY <1>1, Zenon DEF AcceptorInv
  <1>3. CASE Refused
    <2>1. /\ conn' = [conn EXCEPT ![acceptor.fd] = Free] /\ acceptor' = Listen
          /\ noiseSlots' = noiseSlots
      BY <1>3, Zenon DEF Decide
    <2>2. nextWorker' \in 0..(WorkerCount - 1)
      BY <1>1, Zenon DEF TypeOK
    <2> QED BY <1>1, <2>1, <2>2, AcceptedCloses, Zenon
  <1>4. CASE ~Refused
    <2>1. /\ acceptor' = [acceptor EXCEPT !.at = "admit", !.max = maxClients]
          /\ noiseSlots' = noiseSlots + (IF acceptor.protocol = "noise" THEN 1 ELSE 0)
          /\ conn' = conn
      BY <1>4, Zenon DEF Decide
    <2>2. /\ acceptor'.at = "admit" /\ acceptor'.max = maxClients
          /\ acceptor'.fd = acceptor.fd /\ acceptor'.protocol = acceptor.protocol
          /\ acceptor'.proxied = acceptor.proxied /\ acceptor' \in Acceptors
      BY <2>1, Zenon DEF TypeOK, Acceptors
    <2>3. TypeOK' BY <1>1, <2>1, <2>2 DEF TypeOK
    <2>4. AcceptorInv' BY <1>1, <2>1, <2>2, Zenon DEF AcceptorInv
    <2>5. QueueInv' /\ WorkerInv' BY <1>1, <2>1, SameConn, Zenon DEF QueueInv, WorkerInv
    <2>6. ReaderInv' BY <1>1, <2>1, Zenon DEF ReaderInv
    <2>7. ClientsInv' /\ PendingInv'
      BY <1>1, <2>1, SameConn, Zenon DEF ClientsInv, PendingInv
    <2>8. ProxyInv' BY <1>1, <2>1, <2>2, SameConn, Zenon DEF ProxyInv
    <2>9. SlotsAreHeld'
      <3>1. noiseSlots = Slots(Fds) + 0 /\ Slots(Fds)' = Slots(Fds)
        BY <1>1, <2>1, SameConn, Zenon DEF SlotsAreHeld
      <3>2. Slots(Fds) \in Nat BY Finite, Zenon DEF Slots
      <3> QED BY <2>1, <2>2, <3>1, <3>2 DEF SlotsAreHeld
    <2>10. CountingInv'
      <3>1. \A f \in Fds : conn[f].worker \in 1..WorkerCount
        BY Zenon DEF TypeOK, Conns, Workers
      <3>2. Passed = Occupied
        BY <1>1, <3>1, Idle DEF Passed, Occupied, Ahead
      <3>3. /\ Cardinality(Occupied) <= acceptor.sum /\ Cardinality(Occupied) \in Nat
            /\ Occupied' = Occupied
        BY <1>1, <2>1, <3>2, Finite, SameConn, Zenon DEF CountingInv, Occupied
      <3>4. acceptor.sum \in Nat /\ maxClients \in Nat /\ Sv2AdmissionLimit(maxClients) \in Int
        BY DEF TypeOK, Acceptors, Sv2AdmissionLimit
      <3>5. /\ acceptor.sum < maxClients
            /\ acceptor.protocol /= "sv1" => acceptor.sum < Sv2AdmissionLimit(maxClients)
        BY <1>4, <3>4 DEF Refused
      <3>6. Sv2AdmissionLimit(acceptor.max)' = Sv2AdmissionLimit(maxClients)
        BY <2>2, Zenon DEF Sv2AdmissionLimit
      <3> QED BY <2>2, <3>3, <3>4, <3>5, <3>6 DEF CountingInv
    <2> QED BY <2>3, <2>4, <2>5, <2>6, <2>7, <2>8, <2>9, <2>10, Zenon
  <1> QED BY <1>3, <1>4, Zenon

\* A number taken modulo n.
LEMMA ModRange == ASSUME NEW a \in Nat, NEW n \in Nat \ {0} PROVE a % n \in 0..(n - 1)
  OBVIOUS

\* A descriptor goes to a stage, or to a worker.
Hand(f, stage, w) == [conn EXCEPT ![f].stage = stage, ![f].worker = w]
Stage(f, stage) == [conn EXCEPT ![f].stage = stage]

\* Nothing else about it changes.
LEMMA Handed ==
  ASSUME TypeOK, NEW f \in Fds, NEW w \in Workers, NEW stage \in Stages
  PROVE  \E c \in Conns :
           /\ c.stage = stage /\ c.protocol = conn[f].protocol /\ c.worker = w
           /\ Hand(f, stage, w) = [conn EXCEPT ![f] = c]
  <1>1. PICK d : d = [conn EXCEPT ![f].stage = stage]
    BY Zenon
  <1>2. conn \in [Fds -> Conns] BY Zenon DEF TypeOK
  <1>3. d \in [Fds -> Conns] /\ d[f] = [conn[f] EXCEPT !.stage = stage]
        /\ d = [conn EXCEPT ![f] = d[f]]
    BY <1>1, <1>2, Zenon DEF Conns
  <1>4. PICK c : c = [d[f] EXCEPT !.worker = w]
    BY Zenon
  <1>5. conn[f] \in Conns /\ d[f] \in Conns BY <1>2, <1>3, Zenon
  <1>6. d[f].protocol = conn[f].protocol /\ d[f].stage = stage
    BY <1>3, <1>5, Zenon DEF Conns
  <1>7. c \in Conns /\ c.stage = stage /\ c.protocol = conn[f].protocol /\ c.worker = w
    BY <1>4, <1>5, <1>6, Zenon DEF Conns
  <1>8. [d EXCEPT ![f].worker = w] = [conn EXCEPT ![f] = c]
    BY <1>2, <1>3, <1>4, Zenon
  <1> QED BY <1>1, <1>7, <1>8, Zenon DEF Hand

\* The same when its worker stays.
LEMMA Staged ==
  ASSUME TypeOK, NEW f \in Fds, NEW stage \in Stages
  PROVE  \E c \in Conns :
           /\ c.stage = stage /\ c.protocol = conn[f].protocol /\ c.worker = conn[f].worker
           /\ Stage(f, stage) = [conn EXCEPT ![f] = c]
  <1>1. PICK c : c = [conn[f] EXCEPT !.stage = stage]
    BY Zenon
  <1>2. conn \in [Fds -> Conns] /\ conn[f] \in Conns BY Zenon DEF TypeOK
  <1>3. /\ c \in Conns /\ c.stage = stage /\ c.protocol = conn[f].protocol
        /\ c.worker = conn[f].worker
    BY <1>1, <1>2, Zenon DEF Conns
  <1>4. [conn EXCEPT ![f].stage = stage] = [conn EXCEPT ![f] = c]
    BY <1>1, <1>2, Zenon
  <1> QED BY <1>3, <1>4, Zenon DEF Stage

\* The readers keep what they hold when a descriptor moves that none of them has.
LEMMA ReadersKeep ==
  ASSUME ReaderInv, UNCHANGED <<reader, proxyQueue, stopping>>, NEW f \in Fds, NEW c,
         \A g \in Fds : conn'[g] = IF g = f THEN c ELSE conn[g],
         conn[f].stage /= "reading", c.stage /= "reading"
  PROVE  ReaderInv'
  <1>1. \A r \in Readers : reader[r].at = "read" =>
          reader[r].fd /= f /\ conn'[reader[r].fd] = conn[reader[r].fd]
    BY DEF ReaderInv
  <1>2. \A g \in Fds : conn'[g].stage = "reading" => g /= f /\ conn[g].stage = "reading"
    BY Zenon
  <1>3. \A r \in Readers : reader'[r] = reader[r]
    BY Zenon
  <1> QED BY <1>1, <1>2, <1>3 DEF ReaderInv

\* The admitted connection becomes a worker's, with the slot it was given.
LEMMA AdmitDirect ==
  ASSUME Inv, Admit, ~acceptor.proxied PROVE Inv'
  <1> USE DEF Inv
  <1>1. PICK f \in Fds, w \in Workers : f = acceptor.fd /\ w = 1 + nextWorker
    BY Idle DEF Admit, AcceptorInv, TypeOK, Workers
  <1>2. /\ acceptor.at = "admit" /\ nextWorker' = (nextWorker + 1) % WorkerCount
        /\ incoming' = [incoming EXCEPT ![w] = Append(incoming[w], f)]
        /\ pending' = [pending EXCEPT ![w] = pending[w] + 1]
        /\ conn' = [conn EXCEPT ![f].stage = "incoming", ![f].worker = w]
        /\ acceptor' = [acceptor EXCEPT !.at = "poke", !.worker = w]
        /\ UNCHANGED <<listening, sv2State, maxClients, proxyQueue, proxyPending, reader,
                       poked, worker, clients, noiseSlots, stopping>>
    BY <1>1, Zenon DEF Admit, Deliver
  <1>3. conn[f].stage = "accepted" /\ conn[f].protocol = acceptor.protocol /\ conn[f] \in Conns
    BY <1>1, <1>2, Zenon DEF AcceptorInv, TypeOK
  <1>5. PICK c \in Conns :
           /\ c.stage = "incoming" /\ c.protocol = conn[f].protocol /\ c.worker = w
           /\ conn' = [conn EXCEPT ![f] = c]
    <2>1. "incoming" \in Stages BY Zenon DEF Stages, Delivered
    <2>2. PICK c \in Conns :
            /\ c.stage = "incoming" /\ c.protocol = conn[f].protocol /\ c.worker = w
            /\ Hand(f, "incoming", w) = [conn EXCEPT ![f] = c]
      BY <2>1, Handed
    <2>3. conn' = Hand(f, "incoming", w) BY <1>2, Zenon DEF Hand
    <2> QED BY <2>2, <2>3, Zenon
  <1>6. \A g \in Fds : conn'[g] = IF g = f THEN c ELSE conn[g]
    BY <1>5, Zenon DEF TypeOK
  <1>7. /\ acceptor'.at = "poke" /\ acceptor' \in Acceptors
    BY <1>2, Zenon DEF TypeOK, Acceptors
  <1>8. ASSUME NEW st, "incoming" \notin st, "accepted" \notin st
        PROVE  In(st)' = In(st) /\ \A v \in Workers : At(v, st)' = At(v, st)
    <2>1. c.stage \notin st /\ conn[f].stage \notin st
      BY <1>3, <1>5, <1>8, Zenon
    <2> QED BY <1>5, <2>1, Untouched, Zenon
  <1>9. stopping = "no" BY <1>2, Zenon DEF AcceptorInv, TypeOK
  <1>10. f \notin At(w, {"incoming"})
    BY <1>3, Zenon DEF At
  <1>11. /\ Append(incoming[w], f) \in Seq(Fds)
         /\ Lists(Append(incoming[w], f), At(w, {"incoming"}) \cup {f})
    BY <1>10, ListsAppend, Zenon DEF WorkerInv, TypeOK
  <1>12. TypeOK'
    <2>1. nextWorker' \in 0..(WorkerCount - 1)
      <3>1. nextWorker + 1 \in Nat BY Idle DEF TypeOK
      <3> QED BY <1>2, <3>1, ModRange, ServerAssumption, Zenon
    <2>2. pending' \in [Workers -> Int] BY <1>2 DEF TypeOK
    <2>3. incoming' \in [Workers -> Seq(Fds)] BY <1>2, <1>11, Zenon DEF TypeOK
    <2>4. conn' \in [Fds -> Conns] /\ acceptor' \in Acceptors BY <1>5, <1>7 DEF TypeOK
    <2> QED BY <1>2, <2>1, <2>2, <2>3, <2>4, Zenon DEF TypeOK
  <1>13. AcceptorInv' BY <1>1, <1>2, <1>5, <1>6, <1>7, <1>9, Zenon DEF AcceptorInv
  <1>14. QueueInv'
    <2>1. In({"queued"})' = In({"queued"}) BY <1>8, Zenon
    <2> QED BY <1>2, <1>5, <1>6, <2>1, Zenon DEF QueueInv, Queued
  <1>15. ReaderInv' BY <1>2, <1>3, <1>5, <1>6, ReadersKeep, Zenon
  <1>16. WorkerInv'
    <2>1. \A v \in Workers : At(v, {"batched", "registered"})' = At(v, {"batched", "registered"})
      BY <1>8, Zenon
    <2>2. \A v \in Workers : At(v, {"incoming"})' = IF v = w THEN At(v, {"incoming"}) \cup {f}
                                                    ELSE At(v, {"incoming"})
      <3>1. \A v \in Workers : f \notin At(v, {"incoming"})
        BY <1>3, Zenon DEF At
      <3>2. \A v \in Workers : At(v, {"incoming"})' = IF c.worker = v /\ c.stage \in {"incoming"}
                                 THEN At(v, {"incoming"}) \cup {f} ELSE At(v, {"incoming"}) \ {f}
        BY <1>5, Moved, Zenon
      <3> QED BY <1>5, <3>1, <3>2
    <2>3. \A v \in Workers : worker[v].at /= "stopped"
      BY <1>9, Zenon DEF WorkerInv
    <2>4. \A v \in Workers : Lists(incoming'[v], At(v, {"incoming"})')
      BY <1>2, <1>11, <2>2, Zenon DEF WorkerInv, TypeOK
    <2> QED BY <1>2, <2>1, <2>3, <2>4, Zenon DEF WorkerInv
  <1>17. ClientsInv'
    <2>1. In(Registered)' = In(Registered) BY <1>8, Zenon DEF Registered
    <2> QED BY <1>2, <2>1, Zenon DEF ClientsInv
  <1>18. PendingInv'
    <2>1. c.stage \in Delivered /\ conn[f].stage \notin Delivered
      BY <1>3, <1>5, Zenon DEF Delivered
    <2>2. \A v \in Workers : /\ Cardinality(At(v, Delivered)') = Cardinality(At(v, Delivered))
                                  + (IF c.worker = v /\ c.stage \in Delivered THEN 1 ELSE 0)
                                  - (IF conn[f].worker = v /\ conn[f].stage \in Delivered THEN 1 ELSE 0)
      BY <1>5, MovedCounts, Zenon
    <2>3. \A v \in Workers : Cardinality(At(v, Delivered)) \in Nat
      BY Finite, Zenon DEF At
    <2>4. \A v \in Workers : /\ pending[v] = Cardinality(At(v, Delivered))
                             /\ pending'[v] = IF v = w THEN pending[v] + 1 ELSE pending[v]
      BY <1>2, Zenon DEF PendingInv, TypeOK
    <2> QED BY <1>5, <2>1, <2>2, <2>3, <2>4 DEF PendingInv
  <1>19. ProxyInv'
    <2>1. In(Queued)' = In(Queued) BY <1>8, Zenon DEF Queued
    <2> QED BY <1>2, <1>7, <2>1, Zenon DEF ProxyInv
  <1>20. SlotsAreHeld'
    <2>1. Slots(Fds) \in Nat
          /\ Slots(Fds)' = Slots(Fds)
              + (IF c.protocol = "noise" /\ c.stage \in Slotted THEN 1 ELSE 0)
              - (IF conn[f].protocol = "noise" /\ conn[f].stage \in Slotted THEN 1 ELSE 0)
      BY <1>5, MovedSlots, Zenon
    <2>2. c.stage \in Slotted /\ conn[f].stage \notin Slotted /\ c.protocol = acceptor.protocol
      BY <1>3, <1>5, Zenon DEF Slotted
    <2> QED BY <1>2, <1>7, <2>1, <2>2 DEF SlotsAreHeld
  <1>21. CountingInv' BY <1>7, Zenon DEF CountingInv
  <1> QED BY <1>12, <1>13, <1>14, <1>15, <1>16, <1>17, <1>18, <1>19, <1>20, <1>21, Zenon

\* The admitted connection is queued for the header readers.
LEMMA AdmitQueued ==
  ASSUME Inv, Admit, acceptor.proxied, Len(proxyQueue) < ProxyQueueLimit PROVE Inv'
  <1> USE DEF Inv
  <1>0. Len(proxyQueue) \in Nat /\ ~(Len(proxyQueue) >= ProxyQueueLimit)
    BY ServerAssumption DEF TypeOK
  <1>1. PICK f \in Fds, w \in Workers : f = acceptor.fd /\ w = 1 + nextWorker
    BY Idle DEF Admit, AcceptorInv, TypeOK, Workers
  <1>2. /\ acceptor.at = "admit" /\ nextWorker' = (nextWorker + 1) % WorkerCount
        /\ proxyQueue' = Append(proxyQueue, f)
        /\ conn' = [conn EXCEPT ![f].stage = "queued", ![f].worker = w]
        /\ acceptor' = [acceptor EXCEPT !.at = "pend"]
        /\ UNCHANGED <<listening, sv2State, maxClients, proxyPending, reader, incoming,
                       pending, poked, worker, clients, noiseSlots, stopping>>
    BY <1>0, <1>1, Zenon DEF Admit
  <1>3. conn[f].stage = "accepted" /\ conn[f].protocol = "sv1" /\ acceptor.protocol = "sv1"
    BY <1>1, <1>2, Zenon DEF AcceptorInv
  <1>5. PICK c \in Conns :
           /\ c.stage = "queued" /\ c.protocol = conn[f].protocol /\ c.worker = w
           /\ conn' = [conn EXCEPT ![f] = c]
    <2>1. "queued" \in Stages BY Zenon DEF Stages, Queued
    <2>2. PICK c \in Conns :
            /\ c.stage = "queued" /\ c.protocol = conn[f].protocol /\ c.worker = w
            /\ Hand(f, "queued", w) = [conn EXCEPT ![f] = c]
      BY <2>1, Handed
    <2>3. conn' = Hand(f, "queued", w) BY <1>2, Zenon DEF Hand
    <2> QED BY <2>2, <2>3, Zenon
  <1>6. \A g \in Fds : conn'[g] = IF g = f THEN c ELSE conn[g]
    BY <1>5, Zenon DEF TypeOK
  <1>7. /\ acceptor'.at = "pend" /\ acceptor' \in Acceptors
    BY <1>2, Zenon DEF TypeOK, Acceptors
  <1>8. ASSUME NEW st, "queued" \notin st, "accepted" \notin st
        PROVE  In(st)' = In(st) /\ \A v \in Workers : At(v, st)' = At(v, st)
    <2>1. c.stage \notin st /\ conn[f].stage \notin st
      BY <1>3, <1>5, <1>8, Zenon
    <2> QED BY <1>5, <2>1, Untouched, Zenon
  <1>9. stopping = "no" BY <1>2, Zenon DEF AcceptorInv, TypeOK
  <1>10. f \notin In({"queued"})
    BY <1>3, Zenon DEF In
  <1>11. /\ Append(proxyQueue, f) \in Seq(Fds)
         /\ Lists(Append(proxyQueue, f), In({"queued"}) \cup {f})
         /\ Len(Append(proxyQueue, f)) = Len(proxyQueue) + 1
    <2>1. proxyQueue \in Seq(Fds) /\ Lists(proxyQueue, In({"queued"}))
      BY Zenon DEF QueueInv, TypeOK
    <2>2. Len(Append(proxyQueue, f)) = Len(proxyQueue) + 1 BY <2>1
    <2> QED BY <1>10, <2>1, <2>2, ListsAppend, Zenon
  <1>12. TypeOK'
    <2>1. nextWorker' \in 0..(WorkerCount - 1)
      <3>1. nextWorker + 1 \in Nat BY Idle DEF TypeOK
      <3> QED BY <1>2, <3>1, ModRange, ServerAssumption, Zenon
    <2> QED BY <1>2, <1>5, <1>7, <1>11, <2>1, Zenon DEF TypeOK
  <1>13. AcceptorInv' BY <1>1, <1>2, <1>5, <1>6, <1>7, <1>9, Zenon DEF AcceptorInv
  <1>14. QueueInv'
    <2>1. In({"queued"})' = IF c.stage \in {"queued"} THEN In({"queued"}) \cup {f}
                            ELSE In({"queued"}) \ {f}
      BY <1>5, Moved, Zenon
    <2>2. In({"queued"})' = In({"queued"}) \cup {f}
      BY <1>5, <2>1, Zenon
    <2>3. Len(proxyQueue') <= ProxyQueueLimit
      BY <1>0, <1>2, <1>11, ServerAssumption
    <2>4. \A g \in Fds : conn'[g].stage \in Queued => conn'[g].protocol = "sv1"
      BY <1>3, <1>5, <1>6, Zenon DEF QueueInv
    <2> QED BY <1>2, <1>11, <2>2, <2>3, <2>4, Zenon DEF QueueInv
  <1>15. ReaderInv'
    <2>1. \A r \in Readers : reader[r].at = "read" =>
            reader[r].fd /= f /\ conn'[reader[r].fd] = conn[reader[r].fd]
      BY <1>3, <1>6, Zenon DEF ReaderInv
    <2>2. \A g \in Fds : conn'[g].stage = "reading" => conn[g].stage = "reading"
      BY <1>5, <1>6, Zenon
    <2>3. reader' = reader /\ stopping' = "no"
      BY <1>2, <1>9, Zenon
    <2> QED BY <2>1, <2>2, <2>3 DEF ReaderInv
  <1>16. WorkerInv'
    <2>1. \A v \in Workers : /\ At(v, {"incoming"})' = At(v, {"incoming"})
                             /\ At(v, {"batched", "registered"})' = At(v, {"batched", "registered"})
                             /\ At(v, Delivered \cup Registered)' = At(v, Delivered \cup Registered)
      BY <1>8, Zenon DEF Delivered, Registered
    <2> QED BY <1>2, <2>1, Zenon DEF WorkerInv
  <1>17. ClientsInv'
    <2>1. In(Registered)' = In(Registered) BY <1>8, Zenon DEF Registered
    <2> QED BY <1>2, <2>1, Zenon DEF ClientsInv
  <1>18. PendingInv'
    <2>1. \A v \in Workers : At(v, Delivered)' = At(v, Delivered)
      BY <1>8, Zenon DEF Delivered
    <2> QED BY <1>2, <2>1, Zenon DEF PendingInv
  <1>19. ProxyInv'
    <2>1. c.stage \in Queued /\ conn[f].stage \notin Queued
      BY <1>3, <1>5, Zenon DEF Queued
    <2>2. Cardinality(In(Queued)') = Cardinality(In(Queued)) + (IF c.stage \in Queued THEN 1 ELSE 0)
                                     - (IF conn[f].stage \in Queued THEN 1 ELSE 0)
      BY <1>5, MovedCounts, Zenon
    <2>3. /\ Cardinality(In(Queued)) \in Nat
          /\ Cardinality({r \in Readers : reader[r].at \in {"poke", "done"}}) \in Nat
      BY Finite, ReadersFinite, Zenon DEF In
    <2> QED BY <1>2, <1>7, <2>1, <2>2, <2>3 DEF ProxyInv, TypeOK
  <1>20. SlotsAreHeld'
    <2>1. Slots(Fds) \in Nat
          /\ Slots(Fds)' = Slots(Fds)
              + (IF c.protocol = "noise" /\ c.stage \in Slotted THEN 1 ELSE 0)
              - (IF conn[f].protocol = "noise" /\ conn[f].stage \in Slotted THEN 1 ELSE 0)
      BY <1>5, MovedSlots, Zenon
    <2> QED BY <1>2, <1>3, <1>5, <1>7, <2>1 DEF SlotsAreHeld
  <1>21. CountingInv' BY <1>7, Zenon DEF CountingInv
  <1> QED BY <1>12, <1>13, <1>14, <1>15, <1>16, <1>17, <1>18, <1>19, <1>20, <1>21, Zenon

\* All ways of a connection that was admitted.
LEMMA AdmitInv == ASSUME Inv, Admit PROVE Inv'
  <1>1. CASE acceptor.proxied /\ Len(proxyQueue) >= ProxyQueueLimit
    <2> USE DEF Inv
    <2>1. /\ acceptor.at = "admit" /\ acceptor' = Listen
          /\ conn' = [conn EXCEPT ![acceptor.fd] = Free]
          /\ nextWorker' = (nextWorker + 1) % WorkerCount
          /\ UNCHANGED <<listening, maxClients, proxyQueue, proxyPending, reader, incoming,
                         pending, worker, clients, noiseSlots, stopping>>
      BY <1>1, Zenon DEF Admit
    <2>2. acceptor.protocol = "sv1" BY <1>1, <2>1, Zenon DEF AcceptorInv
    <2>3. nextWorker' \in 0..(WorkerCount - 1)
      <3>1. nextWorker + 1 \in Nat BY Idle DEF TypeOK
      <3> QED BY <2>1, <3>1, ModRange, ServerAssumption, Zenon
    <2> QED BY <2>1, <2>2, <2>3, AcceptedCloses, Zenon
  <1>2. CASE ~(Len(proxyQueue) >= ProxyQueueLimit) /\ acceptor.proxied
    <2>1. Len(proxyQueue) \in Nat BY DEF Inv, TypeOK
    <2> QED BY <1>2, <2>1, AdmitQueued, ServerAssumption
  <1>3. CASE ~acceptor.proxied BY <1>3, AdmitDirect, Zenon
  <1> QED BY <1>1, <1>2, <1>3, Zenon

\* The eventfd is written, or the queued connection counted.
LEMMA AfterAdmitInv == ASSUME Inv, AfterAdmit PROVE Inv'
  <1> USE DEF Inv
  <1>1. /\ \/ acceptor.at = "poke" /\ proxyPending' = proxyPending
           \/ acceptor.at = "pend" /\ proxyPending' = proxyPending + 1
        /\ acceptor' = Listen
        /\ UNCHANGED <<listening, sv2State, maxClients, conn, nextWorker, proxyQueue, reader,
                       incoming, pending, worker, clients, noiseSlots, stopping>>
    BY Zenon DEF AfterAdmit
  <1>2. acceptor'.at = "listen" /\ acceptor' \in Acceptors
    BY <1>1, Idle, Zenon DEF Listen
  <1>3. TypeOK' BY <1>1, <1>2 DEF TypeOK
  <1>4. AcceptorInv' BY <1>1, <1>2, Zenon DEF AcceptorInv
  <1>5. QueueInv' /\ WorkerInv' BY <1>1, SameConn, Zenon DEF QueueInv, WorkerInv
  <1>6. ReaderInv' BY <1>1, Zenon DEF ReaderInv
  <1>7. ClientsInv' /\ PendingInv' BY <1>1, SameConn, Zenon DEF ClientsInv, PendingInv
  <1>8. ProxyInv'
    <2>1. In(Queued)' = In(Queued) BY <1>1, SameConn, Zenon
    <2> QED BY <1>1, <1>2, <2>1 DEF ProxyInv, TypeOK
  <1>9. SlotsAreHeld'
    <2>1. Slots(Fds)' = Slots(Fds) BY <1>1, SameConn, Zenon
    <2> QED BY <1>1, <1>2, <2>1, Zenon DEF SlotsAreHeld
  <1>10. CountingInv' BY <1>2, Zenon DEF CountingInv
  <1> QED BY <1>3, <1>4, <1>5, <1>6, <1>7, <1>8, <1>9, <1>10, Zenon

------------------------------------------------------------------------------
\* The header readers

\* A reader takes the first of the queue.
LEMMA ReaderPopInv == ASSUME Inv, NEW r \in Readers, ReaderPop(r) PROVE Inv'
  <1> USE DEF Inv
  <1>1. /\ reader[r].at = "wait" /\ proxyQueue /= <<>>
        /\ UNCHANGED <<listening, sv2State, maxClients, acceptor, nextWorker, proxyPending,
                       incoming, pending, poked, worker, clients, noiseSlots, stopping>>
    BY Zenon DEF ReaderPop
  <1>2. /\ Head(proxyQueue) \in In({"queued"})
        /\ Tail(proxyQueue) \in Seq(Fds)
        /\ Lists(Tail(proxyQueue), In({"queued"}) \ {Head(proxyQueue)})
        /\ Len(Tail(proxyQueue)) = Len(proxyQueue) - 1
    <2>1. proxyQueue \in Seq(Fds) /\ Lists(proxyQueue, In({"queued"}))
      BY Zenon DEF QueueInv, TypeOK
    <2> QED BY <1>1, <2>1, ListsTail, Zenon
  <1>3. PICK f \in Fds : f = Head(proxyQueue) /\ conn[f].stage = "queued"
    BY <1>2, Zenon DEF In
  <1>4. /\ reader' = [reader EXCEPT ![r] = [at |-> "read", fd |-> f, worker |-> conn[f].worker]]
        /\ conn' = [conn EXCEPT ![f].stage = "reading"]
        /\ proxyQueue' = Tail(proxyQueue)
    BY <1>3, Zenon DEF ReaderPop
  <1>5. PICK c \in Conns :
           /\ c.stage = "reading" /\ c.protocol = conn[f].protocol /\ c.worker = conn[f].worker
           /\ conn' = [conn EXCEPT ![f] = c]
    <2>1. "reading" \in Stages BY Zenon DEF Stages, Queued
    <2>2. PICK c \in Conns :
            /\ c.stage = "reading" /\ c.protocol = conn[f].protocol /\ c.worker = conn[f].worker
            /\ Stage(f, "reading") = [conn EXCEPT ![f] = c]
      BY <2>1, Staged, Zenon
    <2>3. conn' = Stage(f, "reading") BY <1>4, Zenon DEF Stage
    <2> QED BY <2>2, <2>3, Zenon
  <1>6. \A g \in Fds : conn'[g] = IF g = f THEN c ELSE conn[g]
    BY <1>5, Zenon DEF TypeOK
  <1>7. PICK me \in ReaderStates : /\ me.at = "read" /\ me.fd = f /\ me.worker = conn[f].worker
                                   /\ reader' = [reader EXCEPT ![r] = me]
    <2>1. conn[f].worker \in Workers BY Zenon DEF TypeOK, Conns
    <2> QED BY <1>4, <2>1, Zenon DEF ReaderStates
  <1>8. \A s \in Readers : reader'[s] = IF s = r THEN me ELSE reader[s]
    BY <1>7, Zenon DEF TypeOK
  <1>9. ASSUME NEW st, "queued" \in st <=> "reading" \in st
        PROVE  In(st)' = In(st) /\ \A v \in Workers : At(v, st)' = At(v, st)
    <2>1. c.stage \in st <=> conn[f].stage \in st
      BY <1>3, <1>5, <1>9, Zenon
    <2> QED BY <1>5, <2>1, NotMoved, Zenon
  <1>10. TypeOK'
    <2>1. reader' \in [Readers -> ReaderStates] BY <1>7, Zenon DEF TypeOK
    <2> QED BY <1>1, <1>2, <1>4, <1>5, <2>1, Zenon DEF TypeOK
  <1>11. AcceptorInv' BY <1>1, <1>3, <1>5, <1>6 DEF AcceptorInv
  <1>12. QueueInv'
    <2>1. In({"queued"})' = IF c.stage \in {"queued"} THEN In({"queued"}) \cup {f}
                            ELSE In({"queued"}) \ {f}
      BY <1>5, Moved, Zenon
    <2>2. In({"queued"})' = In({"queued"}) \ {f}
      BY <1>5, <2>1, Zenon
    <2>3. Len(proxyQueue') <= ProxyQueueLimit
      <3>1. Len(proxyQueue) \in Nat /\ Len(proxyQueue) <= ProxyQueueLimit
        BY DEF QueueInv, TypeOK
      <3> QED BY <1>2, <1>4, <3>1, ServerAssumption
    <2>4. \A g \in Fds : conn'[g].stage \in Queued => conn'[g].protocol = "sv1"
      BY <1>3, <1>5, <1>6, Zenon DEF QueueInv, Queued
    <2> QED BY <1>2, <1>3, <1>4, <2>2, <2>3, <2>4, Zenon DEF QueueInv
  <1>13. ReaderInv'
    <2>1. \A s \in Readers : reader[s].at = "read" =>
            reader[s].fd /= f /\ conn'[reader[s].fd] = conn[reader[s].fd]
      BY <1>3, <1>6, Zenon DEF ReaderInv
    <2>2. stopping' /= "workers"
      BY <1>1, Zenon DEF ReaderInv
    <2>3. \A g \in Fds : conn'[g].stage = "reading" =>
            \E s \in Readers : reader'[s].at = "read" /\ reader'[s].fd = g
      <3> SUFFICES ASSUME NEW g \in Fds, conn'[g].stage = "reading"
                   PROVE  \E s \in Readers : reader'[s].at = "read" /\ reader'[s].fd = g
        BY Zenon
      <3>1. CASE g = f BY <1>7, <1>8, <3>1, Zenon
      <3>2. CASE g /= f
        <4>1. PICK s \in Readers : reader[s].at = "read" /\ reader[s].fd = g
          BY <1>6, <3>2, Zenon DEF ReaderInv
        <4>2. s /= r BY <1>1, <4>1, Zenon
        <4> QED BY <1>8, <4>1, <4>2, Zenon
      <3> QED BY <3>1, <3>2, Zenon
    <2>4. \A s \in Readers : reader'[s].at = "read" =>
            /\ reader'[s].fd \in Fds /\ conn'[reader'[s].fd].stage = "reading"
            /\ conn'[reader'[s].fd].worker = reader'[s].worker
      BY <1>5, <1>6, <1>7, <1>8, <2>1 DEF ReaderInv
    <2>5. \A s, t \in Readers :
            reader'[s].at = "read" /\ reader'[t].at = "read" /\ reader'[s].fd = reader'[t].fd
              => s = t
      BY <1>7, <1>8, <2>1 DEF ReaderInv
    <2> QED BY <2>2, <2>3, <2>4, <2>5, Zenon DEF ReaderInv
  <1>14. WorkerInv'
    <2>1. \A v \in Workers : /\ At(v, {"incoming"})' = At(v, {"incoming"})
                             /\ At(v, {"batched", "registered"})' = At(v, {"batched", "registered"})
                             /\ At(v, Delivered \cup Registered)' = At(v, Delivered \cup Registered)
      BY <1>9, Zenon DEF Delivered, Registered
    <2> QED BY <1>1, <2>1, Zenon DEF WorkerInv
  <1>15. ClientsInv'
    <2>1. In(Registered)' = In(Registered) BY <1>9, Zenon DEF Registered
    <2> QED BY <1>1, <2>1, Zenon DEF ClientsInv
  <1>16. PendingInv'
    <2>1. \A v \in Workers : At(v, Delivered)' = At(v, Delivered)
      BY <1>9, Zenon DEF Delivered
    <2> QED BY <1>1, <2>1, Zenon DEF PendingInv
  <1>17. ProxyInv'
    <2>1. In(Queued)' = In(Queued) BY <1>9, Zenon DEF Queued
    <2>2. {s \in Readers : reader'[s].at \in {"poke", "done"}} =
             {s \in Readers : reader[s].at \in {"poke", "done"}}
      BY <1>1, <1>7, <1>8, Zenon
    <2> QED BY <1>1, <2>1, <2>2, Zenon DEF ProxyInv
  <1>18. SlotsAreHeld'
    <2>1. Slots(Fds) \in Nat
          /\ Slots(Fds)' = Slots(Fds)
              + (IF c.protocol = "noise" /\ c.stage \in Slotted THEN 1 ELSE 0)
              - (IF conn[f].protocol = "noise" /\ conn[f].stage \in Slotted THEN 1 ELSE 0)
      BY <1>5, MovedSlots, Zenon
    <2>2. c.stage \notin Slotted /\ conn[f].stage \notin Slotted
      BY <1>3, <1>5, Zenon DEF Slotted
    <2> QED BY <1>1, <2>1, <2>2 DEF SlotsAreHeld
  <1>19. CountingInv'
    <2>1. \A g \in Fds : Forward(g) BY <1>3, <1>5, <1>6, Zenon DEF Forward
    <2> QED BY <1>1, <2>1, ForwardCounts, Zenon
  <1> QED BY <1>10, <1>11, <1>12, <1>13, <1>14, <1>15, <1>16, <1>17, <1>18, <1>19, Zenon

\* A reader is done with its connection: nobody else reads it.
LEMMA ReaderGives ==
  ASSUME Inv, NEW r \in Readers, reader[r].at = "read", NEW me \in ReaderStates,
         me.at \in {"poke", "done"}, reader' = [reader EXCEPT ![r] = me],
         NEW c \in Conns, c.stage \notin Queued \cup {"accepted"},
         conn' = [conn EXCEPT ![reader[r].fd] = c],
         UNCHANGED <<acceptor, proxyQueue, proxyPending, stopping>>
  PROVE  AcceptorInv' /\ QueueInv' /\ ReaderInv' /\ ProxyInv'
  <1> USE DEF Inv
  <1>1. PICK f \in Fds : f = reader[r].fd /\ conn[f].stage = "reading"
    BY Zenon DEF ReaderInv
  <1>2. conn' = [conn EXCEPT ![f] = c] BY <1>1, Zenon
  <1>3. \A g \in Fds : conn'[g] = IF g = f THEN c ELSE conn[g]
    BY <1>2, Zenon DEF TypeOK
  <1>4. \A s \in Readers : reader'[s] = IF s = r THEN me ELSE reader[s]
    BY Zenon DEF TypeOK
  <1>5. AcceptorInv' BY <1>1, <1>3 DEF AcceptorInv
  <1>6. QueueInv'
    <2>1. c.stage \notin {"queued"} /\ conn[f].stage \notin {"queued"}
      BY <1>1, Zenon DEF Queued
    <2>2. ASSUME NEW st, c.stage \notin st, conn[f].stage \notin st PROVE In(st)' = In(st)
      BY <1>2, <2>2, NotMoved, Zenon
    <2>3. In({"queued"})' = In({"queued"}) BY <2>1, <2>2, Zenon
    <2> QED BY <1>3, <2>3, Zenon DEF QueueInv
  <1>7. ReaderInv'
    <2>1. \A s \in Readers : reader'[s].at = "read" =>
            /\ s /= r /\ reader'[s] = reader[s] /\ reader[s].at = "read"
            /\ reader[s].fd /= f /\ conn'[reader[s].fd] = conn[reader[s].fd]
      BY <1>1, <1>3, <1>4 DEF ReaderInv
    <2>2. stopping' /= "workers" BY Zenon DEF ReaderInv
    <2>3. \A g \in Fds : conn'[g].stage = "reading" =>
            \E s \in Readers : reader'[s].at = "read" /\ reader'[s].fd = g
      <3> SUFFICES ASSUME NEW g \in Fds, conn'[g].stage = "reading"
                   PROVE  \E s \in Readers : reader'[s].at = "read" /\ reader'[s].fd = g
        BY Zenon
      <3>1. g /= f /\ conn[g].stage = "reading" BY <1>3, Zenon DEF Queued
      <3>2. PICK s \in Readers : reader[s].at = "read" /\ reader[s].fd = g
        BY <3>1, Zenon DEF ReaderInv
      <3>3. s /= r BY <1>1, <3>1, <3>2, Zenon
      <3> QED BY <1>4, <3>2, <3>3, Zenon
    <2> QED BY <2>1, <2>2, <2>3 DEF ReaderInv
  <1>8. ProxyInv'
    <2> DEFINE Late == {s \in Readers : reader[s].at \in {"poke", "done"}}
    <2>1. Late' = Late \cup {r} /\ r \notin Late
      BY <1>4, Zenon
    <2>2. /\ IsFiniteSet(Late) /\ Cardinality(Late) \in Nat
          /\ Cardinality(Late \cup {r}) = Cardinality(Late) + 1
      BY <2>1, ReadersFinite, FS_AddElement, Zenon
    <2>3. c.stage \notin Queued /\ conn[f].stage \in Queued
      BY <1>1, Zenon DEF Queued
    <2>4. Cardinality(In(Queued)') = Cardinality(In(Queued)) + (IF c.stage \in Queued THEN 1 ELSE 0)
                                     - (IF conn[f].stage \in Queued THEN 1 ELSE 0)
      BY <1>2, MovedCounts, Zenon
    <2>5. Cardinality(In(Queued)) \in Nat BY Finite, Zenon DEF In
    <2>6. proxyPending + (IF acceptor.at = "pend" THEN 1 ELSE 0) =
            Cardinality(In(Queued)) + Cardinality(Late)
      BY Zenon DEF ProxyInv
    <2>7. ProxyInv' <=> proxyPending' + (IF acceptor'.at = "pend" THEN 1 ELSE 0) =
                          Cardinality(In(Queued)') + Cardinality(Late')
      BY Zenon DEF ProxyInv
    <2> HIDE DEF Late
    <2> QED BY <2>1, <2>2, <2>3, <2>4, <2>5, <2>6, <2>7
  <1> QED BY <1>5, <1>6, <1>7, <1>8, Zenon

\* A malformed header: the reader closes the connection.
LEMMA ReaderCloses ==
  ASSUME Inv, NEW r \in Readers, reader[r].at = "read",
         conn' = [conn EXCEPT ![reader[r].fd] = Free],
         reader' = [reader EXCEPT ![r] = [Waiting EXCEPT !.at = "done"]],
         UNCHANGED <<listening, maxClients, acceptor, nextWorker, proxyQueue, proxyPending,
                     incoming, pending, worker, clients, noiseSlots, stopping>>
  PROVE  Inv'
  <1> USE DEF Inv
  <1>1. PICK f \in Fds : f = reader[r].fd /\ conn[f].stage = "reading"
    BY Zenon DEF ReaderInv
  <1>2. PICK c \in Conns : /\ c.stage = "free" /\ conn' = [conn EXCEPT ![f] = c]
                           /\ conn' = [conn EXCEPT ![reader[r].fd] = c]
    BY <1>1, Idle, Zenon DEF Free
  <1>3. \A g \in Fds : conn'[g] = IF g = f THEN c ELSE conn[g]
    BY <1>2, Zenon DEF TypeOK
  <1>4. PICK me \in ReaderStates : me.at = "done" /\ reader' = [reader EXCEPT ![r] = me]
    BY Idle, Zenon DEF Waiting, ReaderStates
  <1>5. AcceptorInv' /\ QueueInv' /\ ReaderInv' /\ ProxyInv'
    <2>1. me.at \in {"poke", "done"} /\ c.stage \notin Queued \cup {"accepted"}
      BY <1>2, <1>4, Zenon DEF Queued
    <2> QED BY <1>2, <1>4, <2>1, ReaderGives, Zenon
  <1>6. ASSUME NEW st, "free" \notin st, "reading" \notin st
        PROVE  In(st)' = In(st) /\ \A v \in Workers : At(v, st)' = At(v, st)
    <2>1. c.stage \notin st /\ conn[f].stage \notin st
      BY <1>1, <1>2, <1>6, Zenon
    <2> QED BY <1>2, <2>1, Untouched, Zenon
  <1>7. TypeOK'
    <2>1. reader' \in [Readers -> ReaderStates] BY <1>4, Zenon DEF TypeOK
    <2> QED BY <1>2, <2>1, Zenon DEF TypeOK
  <1>8. WorkerInv'
    <2>1. \A v \in Workers : /\ At(v, {"incoming"})' = At(v, {"incoming"})
                             /\ At(v, {"batched", "registered"})' = At(v, {"batched", "registered"})
                             /\ At(v, Delivered \cup Registered)' = At(v, Delivered \cup Registered)
      BY <1>6, Zenon DEF Delivered, Registered
    <2> QED BY <2>1, Zenon DEF WorkerInv
  <1>9. ClientsInv'
    <2>1. In(Registered)' = In(Registered) BY <1>6, Zenon DEF Registered
    <2> QED BY <2>1, Zenon DEF ClientsInv
  <1>10. PendingInv'
    <2>1. \A v \in Workers : At(v, Delivered)' = At(v, Delivered)
      BY <1>6, Zenon DEF Delivered
    <2> QED BY <2>1, Zenon DEF PendingInv
  <1>11. SlotsAreHeld'
    <2>1. Slots(Fds) \in Nat
          /\ Slots(Fds)' = Slots(Fds)
              + (IF c.protocol = "noise" /\ c.stage \in Slotted THEN 1 ELSE 0)
              - (IF conn[f].protocol = "noise" /\ conn[f].stage \in Slotted THEN 1 ELSE 0)
      BY <1>2, MovedSlots, Zenon
    <2>2. c.stage \notin Slotted /\ conn[f].stage \notin Slotted
      BY <1>1, <1>2, Zenon DEF Slotted
    <2> QED BY <2>1, <2>2 DEF SlotsAreHeld
  <1>12. CountingInv'
    <2>1. \A g \in Fds : Forward(g) BY <1>2, <1>3, Zenon DEF Forward
    <2> QED BY <2>1, ForwardCounts, Zenon
  <1> QED BY <1>5, <1>7, <1>8, <1>9, <1>10, <1>11, <1>12, Zenon

\* Any other header: the reader delivers the connection to its worker.
LEMMA ReaderDelivers ==
  ASSUME Inv, NEW r \in Readers, reader[r].at = "read", Deliver(reader[r].worker, reader[r].fd),
         conn' = [conn EXCEPT ![reader[r].fd].stage = "incoming"],
         reader' = [reader EXCEPT ![r].at = "poke"],
         UNCHANGED <<listening, maxClients, acceptor, nextWorker, proxyQueue, proxyPending,
                     worker, clients, noiseSlots, stopping>>
  PROVE  Inv'
  <1> USE DEF Inv
  <1>1. PICK f \in Fds, w \in Workers :
          /\ f = reader[r].fd /\ w = reader[r].worker
          /\ conn[f].stage = "reading" /\ conn[f].worker = w /\ conn[f].protocol = "sv1"
    <2>1. reader[r].fd \in Fds /\ conn[reader[r].fd].stage = "reading"
          /\ conn[reader[r].fd].worker = reader[r].worker
      BY Zenon DEF ReaderInv
    <2>2. reader[r].worker \in Workers BY Zenon DEF TypeOK, ReaderStates
    <2>3. conn[reader[r].fd].protocol = "sv1" BY <2>1, Zenon DEF QueueInv, Queued
    <2> QED BY <2>1, <2>2, <2>3, Zenon
  <1>2. /\ incoming' = [incoming EXCEPT ![w] = Append(incoming[w], f)]
        /\ pending' = [pending EXCEPT ![w] = pending[w] + 1]
    BY <1>1, Zenon DEF Deliver
  <1>3. PICK c \in Conns :
           /\ c.stage = "incoming" /\ c.protocol = "sv1" /\ c.worker = w
           /\ conn' = [conn EXCEPT ![f] = c] /\ conn' = [conn EXCEPT ![reader[r].fd] = c]
    <2>1. "incoming" \in Stages BY Zenon DEF Stages, Delivered
    <2>2. PICK c \in Conns :
            /\ c.stage = "incoming" /\ c.protocol = conn[f].protocol /\ c.worker = conn[f].worker
            /\ Stage(f, "incoming") = [conn EXCEPT ![f] = c]
      BY <2>1, Staged, Zenon
    <2>3. conn' = Stage(f, "incoming") BY <1>1, Zenon DEF Stage
    <2> QED BY <1>1, <2>2, <2>3, Zenon
  <1>4. \A g \in Fds : conn'[g] = IF g = f THEN c ELSE conn[g]
    BY <1>3, Zenon DEF TypeOK
  <1>5. PICK me \in ReaderStates : me.at = "poke" /\ reader' = [reader EXCEPT ![r] = me]
    <2>1. PICK me : me = [reader[r] EXCEPT !.at = "poke"] BY Zenon
    <2>2. reader[r] \in ReaderStates BY Zenon DEF TypeOK
    <2>3. me \in ReaderStates /\ me.at = "poke" BY <2>1, <2>2, Zenon DEF ReaderStates
    <2> QED BY <2>1, <2>3, Zenon
  <1>6. AcceptorInv' /\ QueueInv' /\ ReaderInv' /\ ProxyInv'
    <2>1. me.at \in {"poke", "done"} /\ c.stage \notin Queued \cup {"accepted"}
      BY <1>3, <1>5, Zenon DEF Queued
    <2> QED BY <1>3, <1>5, <2>1, ReaderGives, Zenon
  <1>7. ASSUME NEW st, "incoming" \notin st, "reading" \notin st
        PROVE  In(st)' = In(st) /\ \A v \in Workers : At(v, st)' = At(v, st)
    <2>1. c.stage \notin st /\ conn[f].stage \notin st
      BY <1>1, <1>3, <1>7, Zenon
    <2> QED BY <1>3, <2>1, Untouched, Zenon
  <1>8. stopping /= "workers" BY Zenon DEF ReaderInv
  <1>9. /\ Append(incoming[w], f) \in Seq(Fds)
        /\ Lists(Append(incoming[w], f), At(w, {"incoming"}) \cup {f})
    <2>1. f \notin At(w, {"incoming"}) BY <1>1, Zenon DEF At
    <2> QED BY <2>1, ListsAppend, Zenon DEF WorkerInv, TypeOK
  <1>10. TypeOK'
    <2>1. reader' \in [Readers -> ReaderStates] BY <1>5, Zenon DEF TypeOK
    <2>2. pending' \in [Workers -> Int] BY <1>2 DEF TypeOK
    <2>3. incoming' \in [Workers -> Seq(Fds)] BY <1>2, <1>9, Zenon DEF TypeOK
    <2>4. conn' \in [Fds -> Conns] BY <1>3, Zenon DEF TypeOK
    <2> QED BY <2>1, <2>2, <2>3, <2>4, Zenon DEF TypeOK
  <1>11. WorkerInv'
    <2>1. \A v \in Workers : At(v, {"batched", "registered"})' = At(v, {"batched", "registered"})
      BY <1>7, Zenon
    <2>2. \A v \in Workers : At(v, {"incoming"})' = IF v = w THEN At(v, {"incoming"}) \cup {f}
                                                    ELSE At(v, {"incoming"})
      <3>1. \A v \in Workers : f \notin At(v, {"incoming"})
        BY <1>1, Zenon DEF At
      <3>2. \A v \in Workers : At(v, {"incoming"})' = IF c.worker = v /\ c.stage \in {"incoming"}
                                 THEN At(v, {"incoming"}) \cup {f} ELSE At(v, {"incoming"}) \ {f}
        BY <1>3, Moved, Zenon
      <3> QED BY <1>3, <3>1, <3>2
    <2>3. \A v \in Workers : worker[v].at /= "stopped"
      BY <1>8, Zenon DEF WorkerInv
    <2>4. \A v \in Workers : Lists(incoming'[v], At(v, {"incoming"})')
      BY <1>2, <1>9, <2>2, Zenon DEF WorkerInv, TypeOK
    <2> QED BY <2>1, <2>3, <2>4, Zenon DEF WorkerInv
  <1>12. ClientsInv'
    <2>1. In(Registered)' = In(Registered) BY <1>7, Zenon DEF Registered
    <2> QED BY <2>1, Zenon DEF ClientsInv
  <1>13. PendingInv'
    <2>1. c.stage \in Delivered /\ conn[f].stage \notin Delivered
      BY <1>1, <1>3, Zenon DEF Delivered
    <2>2. \A v \in Workers : /\ Cardinality(At(v, Delivered)') = Cardinality(At(v, Delivered))
                                  + (IF c.worker = v /\ c.stage \in Delivered THEN 1 ELSE 0)
                                  - (IF conn[f].worker = v /\ conn[f].stage \in Delivered THEN 1 ELSE 0)
      BY <1>3, MovedCounts, Zenon
    <2>3. \A v \in Workers : Cardinality(At(v, Delivered)) \in Nat
      BY Finite, Zenon DEF At
    <2>4. \A v \in Workers : /\ pending[v] = Cardinality(At(v, Delivered))
                             /\ pending'[v] = IF v = w THEN pending[v] + 1 ELSE pending[v]
      BY <1>2, Zenon DEF PendingInv, TypeOK
    <2> QED BY <1>3, <2>1, <2>2, <2>3, <2>4 DEF PendingInv
  <1>14. SlotsAreHeld'
    <2>1. Slots(Fds) \in Nat
          /\ Slots(Fds)' = Slots(Fds)
              + (IF c.protocol = "noise" /\ c.stage \in Slotted THEN 1 ELSE 0)
              - (IF conn[f].protocol = "noise" /\ conn[f].stage \in Slotted THEN 1 ELSE 0)
      BY <1>3, MovedSlots, Zenon
    <2> QED BY <1>1, <1>3, <2>1 DEF SlotsAreHeld
  <1>15. CountingInv'
    <2>1. \A g \in Fds : Forward(g) BY <1>1, <1>3, <1>4, Zenon DEF Forward
    <2> QED BY <2>1, ForwardCounts, Zenon
  <1> QED BY <1>6, <1>10, <1>11, <1>12, <1>13, <1>14, <1>15, Zenon

\* A reader has read the header: the connection is delivered or closed.
LEMMA ReaderReadInv == ASSUME Inv, NEW r \in Readers, ReaderRead(r) PROVE Inv'
  <1>1. /\ reader[r].at = "read"
        /\ UNCHANGED <<listening, maxClients, acceptor, nextWorker, proxyQueue, proxyPending,
                       worker, clients, noiseSlots, stopping>>
    BY Zenon DEF ReaderRead
  <1>2. \/ /\ conn' = [conn EXCEPT ![reader[r].fd] = Free]
           /\ reader' = [reader EXCEPT ![r] = [Waiting EXCEPT !.at = "done"]]
           /\ UNCHANGED <<incoming, pending>>
        \/ /\ Deliver(reader[r].worker, reader[r].fd)
           /\ conn' = [conn EXCEPT ![reader[r].fd].stage = "incoming"]
           /\ reader' = [reader EXCEPT ![r].at = "poke"]
    BY Zenon DEF ReaderRead
  <1> QED BY <1>1, <1>2, ReaderCloses, ReaderDelivers, Zenon

\* The eventfd is written, then the connection is no longer counted.
LEMMA ReaderFinishInv == ASSUME Inv, NEW r \in Readers, ReaderFinish(r) PROVE Inv'
  <1> USE DEF Inv
  <1>1. UNCHANGED <<listening, sv2State, maxClients, conn, acceptor, nextWorker, proxyQueue,
                    incoming, pending, worker, clients, noiseSlots, stopping>>
    BY Zenon DEF ReaderFinish
  <1>2. PICK me \in ReaderStates :
          /\ reader' = [reader EXCEPT ![r] = me]
          /\ \/ reader[r].at = "poke" /\ me.at = "done" /\ proxyPending' = proxyPending
             \/ reader[r].at = "done" /\ me.at = "wait" /\ proxyPending' = proxyPending - 1
    <2>1. PICK done : done = [Waiting EXCEPT !.at = "done"] BY Zenon
    <2>2. done \in ReaderStates /\ done.at = "done" /\ Waiting.at = "wait"
      BY <2>1, Idle, Zenon DEF Waiting, ReaderStates
    <2> QED BY <2>1, <2>2, Idle, Zenon DEF ReaderFinish
  <1>3. \A s \in Readers : reader'[s] = IF s = r THEN me ELSE reader[s]
    BY <1>2, Zenon DEF TypeOK
  <1>4. TypeOK'
    <2>1. reader' \in [Readers -> ReaderStates] /\ proxyPending' \in Int BY <1>2 DEF TypeOK
    <2> QED BY <1>1, <2>1, Zenon DEF TypeOK
  <1>5. AcceptorInv' BY <1>1, Zenon DEF AcceptorInv
  <1>6. QueueInv' /\ WorkerInv' BY <1>1, SameConn, Zenon DEF QueueInv, WorkerInv
  <1>7. ReaderInv'
    <2>1. \A s \in Readers : (reader'[s].at = "read" <=> reader[s].at = "read")
                             /\ (reader[s].at = "read" => reader'[s] = reader[s])
      BY <1>2, <1>3, Zenon
    <2>2. stopping /= "workers" BY <1>2, Zenon DEF ReaderInv
    <2> QED BY <1>1, <2>1, <2>2 DEF ReaderInv
  <1>8. ClientsInv' /\ PendingInv' BY <1>1, SameConn, Zenon DEF ClientsInv, PendingInv
  <1>9. ProxyInv'
    <2> DEFINE Late == {s \in Readers : reader[s].at \in {"poke", "done"}}
    <2>1. IsFiniteSet(Late) /\ Cardinality(Late) \in Nat BY ReadersFinite, Zenon
    <2>2. In(Queued)' = In(Queued) /\ Cardinality(In(Queued)) \in Nat
      BY <1>1, SameConn, Finite, Zenon DEF In
    <2>3. proxyPending + (IF acceptor.at = "pend" THEN 1 ELSE 0) =
            Cardinality(In(Queued)) + Cardinality(Late)
      BY Zenon DEF ProxyInv
    <2>4. ProxyInv' <=> proxyPending' + (IF acceptor'.at = "pend" THEN 1 ELSE 0) =
                          Cardinality(In(Queued)') + Cardinality(Late')
      BY Zenon DEF ProxyInv
    <2>5. proxyPending \in Int BY Zenon DEF TypeOK
    <2>6. CASE me.at = "done"
      <3>1. Late' = Late BY <1>2, <1>3, <2>6, Zenon
      <3> HIDE DEF Late
      <3> QED BY <1>1, <1>2, <2>2, <2>3, <2>4, <2>6, <3>1, Zenon
    <2>7. CASE me.at = "wait"
      <3>1. Late' = Late \ {r} /\ r \in Late BY <1>2, <1>3, <2>7, Zenon
      <3> HIDE DEF Late
      <3>2. Cardinality(Late') = Cardinality(Late) - 1
        BY <2>1, <3>1, FS_RemoveElement, Zenon
      <3> QED BY <1>1, <1>2, <2>1, <2>2, <2>3, <2>4, <2>5, <2>7, <3>2
    <2> QED BY <1>2, <2>6, <2>7, Zenon
  <1>10. SlotsAreHeld' BY <1>1, SameConn, Zenon DEF SlotsAreHeld
  <1>11. CountingInv'
    <2>1. \A g \in Fds : Forward(g) BY <1>1, Zenon DEF Forward
    <2> QED BY <1>1, <2>1, ForwardCounts, Zenon
  <1> QED BY <1>4, <1>5, <1>6, <1>7, <1>8, <1>9, <1>10, <1>11, Zenon

\* A reader leaves its loop.
LEMMA ReaderStopInv == ASSUME Inv, NEW r \in Readers, ReaderStop(r) PROVE Inv'
  <1> USE DEF Inv
  <1>1. /\ stopping = "readers" /\ reader[r].at = "wait"
        /\ UNCHANGED <<listening, sv2State, maxClients, conn, acceptor, nextWorker, proxyQueue,
                       proxyPending, incoming, pending, worker, clients, noiseSlots, stopping>>
    BY Zenon DEF ReaderStop
  <1>2. PICK me \in ReaderStates : me.at = "stopped" /\ reader' = [reader EXCEPT ![r] = me]
    <2>1. PICK me : me = [reader[r] EXCEPT !.at = "stopped"] BY Zenon
    <2>2. reader[r] \in ReaderStates BY Zenon DEF TypeOK
    <2>3. me \in ReaderStates /\ me.at = "stopped" BY <2>1, <2>2, Zenon DEF ReaderStates
    <2> QED BY <2>1, <2>3, Zenon DEF ReaderStop
  <1>3. \A s \in Readers : reader'[s] = IF s = r THEN me ELSE reader[s]
    BY <1>2, Zenon DEF TypeOK
  <1>4. TypeOK'
    <2>1. reader' \in [Readers -> ReaderStates] BY <1>2, Zenon DEF TypeOK
    <2> QED BY <1>1, <2>1, Zenon DEF TypeOK
  <1>5. AcceptorInv' BY <1>1, Zenon DEF AcceptorInv
  <1>6. QueueInv' /\ WorkerInv' BY <1>1, SameConn, Zenon DEF QueueInv, WorkerInv
  <1>7. ReaderInv'
    <2>1. \A s \in Readers : (reader'[s].at = "read" <=> reader[s].at = "read")
                             /\ (reader[s].at = "read" => reader'[s] = reader[s])
      BY <1>1, <1>2, <1>3, Zenon
    <2> QED BY <1>1, <2>1 DEF ReaderInv
  <1>8. ClientsInv' /\ PendingInv' BY <1>1, SameConn, Zenon DEF ClientsInv, PendingInv
  <1>9. ProxyInv'
    <2>1. {s \in Readers : reader'[s].at \in {"poke", "done"}} =
             {s \in Readers : reader[s].at \in {"poke", "done"}}
      BY <1>1, <1>2, <1>3, Zenon
    <2>2. In(Queued)' = In(Queued) BY <1>1, SameConn, Zenon
    <2> QED BY <1>1, <2>1, <2>2, Zenon DEF ProxyInv
  <1>10. SlotsAreHeld' BY <1>1, SameConn, Zenon DEF SlotsAreHeld
  <1>11. CountingInv'
    <2>1. \A g \in Fds : Forward(g) BY <1>1, Zenon DEF Forward
    <2> QED BY <1>1, <2>1, ForwardCounts, Zenon
  <1> QED BY <1>4, <1>5, <1>6, <1>7, <1>8, <1>9, <1>10, <1>11, Zenon

------------------------------------------------------------------------------
\* The workers

\* A worker wakes up: it has no batch before it drains its queue.
LEMMA WakeInv == ASSUME Inv, NEW w \in Workers, Wake(w) PROVE Inv'
  <1> USE DEF Inv
  <1>1. /\ worker[w].at = "poll"
        /\ UNCHANGED <<listening, sv2State, maxClients, conn, acceptor, nextWorker, proxyQueue,
                       proxyPending, reader, incoming, pending, clients, noiseSlots, stopping>>
    BY Zenon DEF Wake
  <1>2. PICK me \in WorkerStates : /\ me.at = "drain" /\ me.batch = worker[w].batch
                                   /\ worker' = [worker EXCEPT ![w] = me]
    <2>1. PICK me : me = [worker[w] EXCEPT !.at = "drain"] BY Zenon
    <2>2. worker[w] \in WorkerStates BY Zenon DEF TypeOK
    <2>3. me \in WorkerStates /\ me.at = "drain" /\ me.batch = worker[w].batch
      BY <2>1, <2>2, Zenon DEF WorkerStates
    <2> QED BY <2>1, <2>3, Zenon DEF Wake
  <1>3. \A v \in Workers : worker'[v] = IF v = w THEN me ELSE worker[v]
    BY <1>2, Zenon DEF TypeOK
  <1>4. TypeOK'
    <2>1. worker' \in [Workers -> WorkerStates] BY <1>2, Zenon DEF TypeOK
    <2> QED BY <1>1, <2>1, Zenon DEF TypeOK
  <1>5. AcceptorInv' BY <1>1, Zenon DEF AcceptorInv
  <1>6. QueueInv' BY <1>1, SameConn, Zenon DEF QueueInv
  <1>7. ReaderInv' BY <1>1, Zenon DEF ReaderInv
  <1>8. WorkerInv'
    <2>1. \A v \in Workers : /\ worker'[v].batch = worker[v].batch
                             /\ worker'[v].at = "adopt" <=> worker[v].at = "adopt"
                             /\ worker'[v].at = "stopped" <=> worker[v].at = "stopped"
      BY <1>1, <1>2, <1>3, Zenon
    <2> QED BY <1>1, <2>1, SameConn, Zenon DEF WorkerInv
  <1>9. ClientsInv' /\ PendingInv' BY <1>1, SameConn, Zenon DEF ClientsInv, PendingInv
  <1>10. ProxyInv' BY <1>1, SameConn, Zenon DEF ProxyInv
  <1>11. SlotsAreHeld' BY <1>1, SameConn, Zenon DEF SlotsAreHeld
  <1>12. CountingInv'
    <2>1. \A g \in Fds : Forward(g) BY <1>1, Zenon DEF Forward
    <2> QED BY <1>1, <2>1, ForwardCounts, Zenon
  <1> QED BY <1>4, <1>5, <1>6, <1>7, <1>8, <1>9, <1>10, <1>11, <1>12, Zenon

\* The whole queue of a worker becomes its batch.
LEMMA TakeBatchInv == ASSUME Inv, NEW w \in Workers, TakeBatch(w) PROVE Inv'
  <1> USE DEF Inv
  <1>1. /\ worker[w].at = "drain"
        /\ incoming' = [incoming EXCEPT ![w] = <<>>]
        /\ UNCHANGED <<listening, sv2State, maxClients, acceptor, nextWorker, proxyQueue,
                       proxyPending, reader, pending, poked, clients, noiseSlots, stopping>>
    BY Zenon DEF TakeBatch
  <1>2. /\ incoming[w] \in Seq(Fds) /\ Lists(incoming[w], At(w, {"incoming"}))
        /\ worker[w].batch \in Seq(Fds) /\ Lists(worker[w].batch, At(w, {"batched", "registered"}))
        /\ worker[w].batch = <<>>
    BY <1>1, Zenon DEF WorkerInv, TypeOK, WorkerStates
  <1>3. /\ At(w, {"batched", "registered"}) = {}
        /\ incoming[w] = <<>> <=> At(w, {"incoming"}) = {}
    BY <1>2, ListsEmpty, Zenon
  <1>4. \A f \in Fds : conn'[f] = IF f \in At(w, {"incoming"})
                                  THEN [conn[f] EXCEPT !.stage = "batched"] ELSE conn[f]
    <2>1. Range(incoming[w]) = At(w, {"incoming"})
      BY <1>2, Zenon DEF Range, Lists
    <2> QED BY <2>1, Zenon DEF TakeBatch
  <1>5. conn' \in [Fds -> Conns]
    <2>1. \A f \in Fds : conn[f] \in Conns /\ [conn[f] EXCEPT !.stage = "batched"] \in Conns
      BY Zenon DEF TypeOK, Conns, Stages, Delivered
    <2>2. conn' = [f \in Fds |-> conn'[f]]
      BY Zenon DEF TakeBatch
    <2> QED BY <1>4, <2>1, <2>2, Zenon
  <1>6. \A f \in Fds : \/ conn'[f] = conn[f] /\ f \notin At(w, {"incoming"})
                       \/ /\ conn[f].stage = "incoming" /\ conn[f].worker = w
                          /\ conn'[f].stage = "batched" /\ conn'[f].worker = w
                          /\ conn'[f].protocol = conn[f].protocol
    <2>1. \A f \in Fds : conn[f] \in Conns BY Zenon DEF TypeOK
    <2> QED BY <1>4, <2>1, Zenon DEF At, Conns
  <1>7. PICK me \in WorkerStates : /\ worker' = [worker EXCEPT ![w] = me]
                                   /\ me.batch = incoming[w]
                                   /\ me.at = IF incoming[w] = <<>> THEN "poll" ELSE "adopt"
    <2>1. PICK me : me = IF incoming[w] = <<>> THEN Polling
                         ELSE [at |-> "adopt", batch |-> incoming[w]]
      BY Zenon
    <2>2. worker' = [worker EXCEPT ![w] = me] BY <2>1, Zenon DEF TakeBatch
    <2>3. /\ me \in WorkerStates /\ me.batch = incoming[w]
          /\ me.at = IF incoming[w] = <<>> THEN "poll" ELSE "adopt"
      BY <1>2, <2>1, Idle, Zenon DEF Polling, WorkerStates
    <2> QED BY <2>2, <2>3, Zenon
  <1>8. \A v \in Workers : worker'[v] = IF v = w THEN me ELSE worker[v]
    BY <1>7, Zenon DEF TypeOK
  <1>9. ASSUME NEW st, "incoming" \in st <=> "batched" \in st
        PROVE  In(st)' = In(st) /\ \A v \in Workers : At(v, st)' = At(v, st)
    BY <1>6, <1>9, Zenon DEF In, At
  <1>10. TypeOK'
    <2>1. worker' \in [Workers -> WorkerStates] /\ incoming' \in [Workers -> Seq(Fds)]
      BY <1>1, <1>7, EmptyLists, Zenon DEF TypeOK
    <2> QED BY <1>1, <1>5, <2>1, Zenon DEF TypeOK
  <1>11. AcceptorInv' BY <1>1, <1>6, Zenon DEF AcceptorInv
  <1>12. QueueInv'
    <2>1. In({"queued"})' = In({"queued"}) BY <1>9, Zenon
    <2> QED BY <1>1, <1>6, <2>1, Zenon DEF QueueInv, Queued
  <1>13. ReaderInv'
    <2>1. \A f \in Fds : conn'[f].stage = "reading" \/ conn[f].stage = "reading" => conn'[f] = conn[f]
      BY <1>6, Zenon
    <2> QED BY <1>1, <2>1, Zenon DEF ReaderInv
  <1>14. WorkerInv'
    <2>1. \A v \in Workers : At(v, {"incoming"})' = IF v = w THEN {} ELSE At(v, {"incoming"})
      BY <1>6, Zenon DEF At
    <2>2. \A v \in Workers : At(v, {"batched", "registered"})' =
                               IF v = w THEN At(w, {"incoming"}) ELSE At(v, {"batched", "registered"})
      BY <1>3, <1>4, <1>6 DEF At
    <2>3. \A v \in Workers : At(v, Delivered \cup Registered)' = At(v, Delivered \cup Registered)
      BY <1>9, Zenon DEF Delivered, Registered
    <2>4. \A v \in Workers : Lists(incoming'[v], At(v, {"incoming"})')
      BY <1>1, <2>1, EmptyLists, Zenon DEF WorkerInv, TypeOK
    <2>5. \A v \in Workers : Lists(worker'[v].batch, At(v, {"batched", "registered"})')
      BY <1>2, <1>7, <1>8, <2>2, Zenon DEF WorkerInv
    <2>6. \A v \in Workers : /\ worker'[v].at = "adopt" <=> worker'[v].batch /= <<>>
                             /\ worker'[v].at = "stopped" => v /= w /\ worker[v].at = "stopped"
      BY <1>7, <1>8 DEF WorkerInv
    <2> QED BY <1>1, <2>3, <2>4, <2>5, <2>6, Zenon DEF WorkerInv
  <1>15. ClientsInv'
    <2>1. In(Registered)' = In(Registered) BY <1>9, Zenon DEF Registered
    <2> QED BY <1>1, <2>1, Zenon DEF ClientsInv
  <1>16. PendingInv'
    <2>1. \A v \in Workers : At(v, Delivered)' = At(v, Delivered)
      BY <1>9, Zenon DEF Delivered
    <2> QED BY <1>1, <2>1, Zenon DEF PendingInv
  <1>17. ProxyInv'
    <2>1. In(Queued)' = In(Queued) BY <1>9, Zenon DEF Queued
    <2> QED BY <1>1, <2>1, Zenon DEF ProxyInv
  <1>18. SlotsAreHeld'
    <2>1. {f \in Fds : HoldsSlot(f)}' = {f \in Fds : HoldsSlot(f)}
      BY <1>6, Zenon DEF HoldsSlot
    <2>2. Slots(Fds)' = Slots(Fds) BY <2>1, Zenon DEF Slots
    <2> QED BY <1>1, <2>2, Zenon DEF SlotsAreHeld
  <1>19. CountingInv'
    <2>1. \A f \in Fds : Forward(f) BY <1>6, Zenon DEF Forward
    <2> QED BY <1>1, <2>1, ForwardCounts, Zenon
  <1> QED BY <1>10, <1>11, <1>12, <1>13, <1>14, <1>15, <1>16, <1>17, <1>18, <1>19, Zenon

\* Connections of the workers are closed: what everybody else holds stays, and
\* exactly the slots they held are released.
LEMMA Closes ==
  ASSUME Inv, NEW fs, fs \subseteq In(Delivered \cup Registered), Close(fs),
         UNCHANGED <<acceptor, proxyQueue, proxyPending, reader, stopping>>
  PROVE  /\ AcceptorInv' /\ QueueInv' /\ ReaderInv' /\ ClientsInv' /\ ProxyInv'
         /\ SlotsAreHeld' /\ CountingInv'
         /\ conn' \in [Fds -> Conns] /\ clients' \subseteq Fds /\ noiseSlots' \in Int
         /\ \A g \in Fds : conn'[g] = IF g \in fs THEN Free ELSE conn[g]
  <1> USE DEF Inv
  <1>1. /\ conn' = [g \in Fds |-> IF g \in fs THEN Free ELSE conn[g]]
        /\ clients' = clients \ fs /\ noiseSlots' = noiseSlots - Slots(fs)
    BY Zenon DEF Close
  <1>2. \A g \in Fds : conn'[g] = IF g \in fs THEN Free ELSE conn[g]
    BY <1>1, Zenon
  <1>3. \A g \in fs : g \in Fds /\ conn[g].stage \in Delivered \cup Registered
    BY Zenon DEF In
  <1>4. Free.stage = "free" /\ Free \in Conns BY Idle, Zenon DEF Free
  <1>5. ASSUME NEW st, st \cap (Delivered \cup Registered \cup {"free"}) = {}
        PROVE  In(st)' = In(st)
    BY <1>2, <1>3, <1>4, <1>5, Zenon DEF In
  <1>6. \A g \in Fds : conn'[g].stage \in {"accepted", "queued", "reading"}
                       \/ conn[g].stage \in {"accepted", "queued", "reading"} => conn'[g] = conn[g]
    BY <1>2, <1>3, <1>4, Zenon DEF Delivered, Registered
  <1>7. AcceptorInv' BY <1>6, Zenon DEF AcceptorInv
  <1>8. QueueInv'
    <2>1. In({"queued"})' = In({"queued"}) BY <1>5, Zenon DEF Delivered, Registered
    <2> QED BY <1>6, <2>1, Zenon DEF QueueInv, Queued
  <1>9. ReaderInv' BY <1>6, Zenon DEF ReaderInv
  <1>10. ClientsInv'
    <2>1. In(Registered)' = In(Registered) \ fs BY <1>2, <1>4, Zenon DEF In, Registered
    <2> QED BY <1>1, <2>1, Zenon DEF ClientsInv
  <1>11. ProxyInv'
    <2>1. In(Queued)' = In(Queued) BY <1>5, Zenon DEF Queued, Delivered, Registered
    <2> QED BY <2>1, Zenon DEF ProxyInv
  <1>12. SlotsAreHeld' /\ noiseSlots' \in Int
    <2> DEFINE S == {g \in Fds : HoldsSlot(g)}
               T == {g \in fs : HoldsSlot(g)}
    <2>1. S' = S \ T BY <1>2, <1>4, Zenon DEF HoldsSlot
    <2>2. T \subseteq S /\ S \subseteq Fds BY <1>3, Zenon
    <2>3. Slots(Fds) = Cardinality(S) /\ Slots(Fds)' = Cardinality(S') /\ Slots(fs) = Cardinality(T)
      BY Zenon DEF Slots
    <2> HIDE DEF S, T
    <2>4. /\ IsFiniteSet(S) /\ Cardinality(S) \in Nat /\ Cardinality(T) \in Nat
          /\ S \cap T = T
      BY <2>2, Finite, Zenon
    <2>5. Cardinality(S \ T) = Cardinality(S) - Cardinality(S \cap T)
      BY <2>4, FS_Difference, Zenon
    <2>6. PICK k \in {0, 1} : k = IF acceptor.at = "admit" /\ acceptor.protocol = "noise" THEN 1 ELSE 0
      BY Zenon
    <2>7. noiseSlots = Slots(Fds) + k /\ (SlotsAreHeld' <=> noiseSlots' = Slots(Fds)' + k)
      BY <2>6, Zenon DEF SlotsAreHeld
    <2>8. Slots(Fds)' = Slots(Fds) - Slots(fs) /\ Slots(Fds) \in Nat /\ Slots(fs) \in Nat
      BY <2>1, <2>3, <2>4, <2>5, Zenon
    <2> QED BY <1>1, <2>6, <2>7, <2>8
  <1>13. CountingInv'
    <2>1. \A g \in Fds : Forward(g) BY <1>2, <1>4, Zenon DEF Forward
    <2> QED BY <2>1, ForwardCounts, Zenon
  <1>14. conn' \in [Fds -> Conns] /\ clients' \subseteq Fds BY <1>1, <1>4, Zenon DEF TypeOK
  <1> QED BY <1>2, <1>7, <1>8, <1>9, <1>10, <1>11, <1>12, <1>13, <1>14, Zenon

\* The connection a worker adopts next.
First(w, f) == f = Head(worker[w].batch)

\* The worker is done with the first of its batch, which has left its queues:
\* the rest is its batch, and its counter counts the rest.
LEMMA AdoptedInv ==
  ASSUME Inv, NEW w \in Workers, worker[w].at = "adopt", Adopted(w), NEW f \in Fds,
         First(w, f), NEW c \in Conns, c.stage \notin Delivered,
         c.stage \in Registered => c.worker = w,
         conn' = [conn EXCEPT ![f] = c], UNCHANGED <<incoming, stopping>>
  PROVE  /\ WorkerInv' /\ PendingInv'
         /\ worker' \in [Workers -> WorkerStates] /\ pending' \in [Workers -> Int]
  <1> USE DEF Inv
  <1>1. /\ worker[w].batch \in Seq(Fds) /\ worker[w].batch /= <<>>
        /\ Lists(worker[w].batch, At(w, {"batched", "registered"}))
    BY Zenon DEF WorkerInv, TypeOK, WorkerStates
  <1>2. /\ f \in At(w, {"batched", "registered"}) /\ Tail(worker[w].batch) \in Seq(Fds)
        /\ Lists(Tail(worker[w].batch), At(w, {"batched", "registered"}) \ {f})
        /\ Len(Tail(worker[w].batch)) = Len(worker[w].batch) - 1
    BY <1>1, ListsTail, Zenon DEF First
  <1>3. conn[f].stage \in {"batched", "registered"} /\ conn[f].worker = w
    BY <1>2, Zenon DEF At
  <1>4. PICK me \in WorkerStates :
          /\ worker' = [worker EXCEPT ![w] = me] /\ me.batch = Tail(worker[w].batch)
          /\ me.at = IF me.batch = <<>> THEN "poll" ELSE "adopt"
    <2>1. PICK me : me = IF Len(worker[w].batch) = 1 THEN Polling
                         ELSE [at |-> "adopt", batch |-> Tail(worker[w].batch)]
      BY Zenon
    <2>2. worker' = [worker EXCEPT ![w] = me] BY <2>1, Zenon DEF Adopted
    <2>3. Tail(worker[w].batch) = <<>> <=> Len(worker[w].batch) = 1
      <3>1. Len(worker[w].batch) \in Nat BY <1>1
      <3>2. \A q \in Seq(Fds) : q = <<>> <=> Len(q) = 0 OBVIOUS
      <3>3. Tail(worker[w].batch) = <<>> <=> Len(Tail(worker[w].batch)) = 0
        BY <1>2, <3>2, Zenon
      <3>4. Len(worker[w].batch) - 1 = 0 <=> Len(worker[w].batch) = 1 BY <3>1
      <3> QED BY <1>2, <3>3, <3>4, Zenon
    <2>5. /\ me \in WorkerStates /\ me.batch = Tail(worker[w].batch)
          /\ me.at = IF me.batch = <<>> THEN "poll" ELSE "adopt"
      BY <1>2, <2>1, <2>3, Idle, Zenon DEF Polling, WorkerStates
    <2> QED BY <2>2, <2>5, Zenon
  <1>5. \A v \in Workers : worker'[v] = IF v = w THEN me ELSE worker[v]
    BY <1>4, Zenon DEF TypeOK
  <1>6. WorkerInv'
    <2>1. \A v \in Workers : At(v, {"batched", "registered"})' =
            IF v = w THEN At(v, {"batched", "registered"}) \ {f} ELSE At(v, {"batched", "registered"})
      <3>1. \A v \in Workers : At(v, {"batched", "registered"})' =
              IF c.worker = v /\ c.stage \in {"batched", "registered"}
              THEN At(v, {"batched", "registered"}) \cup {f} ELSE At(v, {"batched", "registered"}) \ {f}
        BY Moved, Zenon
      <3>2. \A v \in Workers : v /= w => f \notin At(v, {"batched", "registered"})
        BY <1>3, Zenon DEF At
      <3> QED BY <3>1, <3>2, Zenon DEF Delivered
    <2>2. \A v \in Workers : At(v, {"incoming"})' = At(v, {"incoming"})
      <3>1. c.stage \notin {"incoming"} /\ conn[f].stage \notin {"incoming"}
        BY <1>3, Zenon DEF Delivered
      <3>2. ASSUME NEW st, c.stage \notin st, conn[f].stage \notin st
            PROVE  \A v \in Workers : At(v, st)' = At(v, st)
        BY <3>2, NotMoved, Zenon
      <3> QED BY <3>1, <3>2, Zenon
    <2>3. \A v \in Workers : worker'[v].at = "stopped" =>
            v /= w /\ worker[v].at = "stopped" /\ At(v, Delivered \cup Registered)' = {}
      <3> SUFFICES ASSUME NEW v \in Workers, worker'[v].at = "stopped"
                   PROVE  /\ v /= w /\ worker[v].at = "stopped"
                          /\ At(v, Delivered \cup Registered)' = {}
        BY Zenon
      <3>1. v /= w /\ worker[v].at = "stopped" BY <1>4, <1>5, Zenon
      <3>2. At(v, Delivered \cup Registered) = {} BY <3>1, Zenon DEF WorkerInv
      <3>3. At(v, Delivered \cup Registered)' =
              IF c.worker = v /\ c.stage \in Delivered \cup Registered
              THEN At(v, Delivered \cup Registered) \cup {f}
              ELSE At(v, Delivered \cup Registered) \ {f}
        <4>1. \A u \in Workers : At(u, Delivered \cup Registered)' =
                IF c.worker = u /\ c.stage \in Delivered \cup Registered
                THEN At(u, Delivered \cup Registered) \cup {f}
                ELSE At(u, Delivered \cup Registered) \ {f}
          BY Moved, Zenon
        <4> QED BY <4>1, Zenon
      <3> QED BY <3>1, <3>2, <3>3, Zenon
    <2>4. \A v \in Workers : Lists(worker'[v].batch, At(v, {"batched", "registered"})')
      BY <1>2, <1>4, <1>5, <2>1, Zenon DEF WorkerInv
    <2>5. \A v \in Workers : worker'[v].at = "adopt" <=> worker'[v].batch /= <<>>
      BY <1>4, <1>5, Zenon DEF WorkerInv
    <2> QED BY <2>2, <2>3, <2>4, <2>5, Zenon DEF WorkerInv
  <1>7. pending' = [pending EXCEPT ![w] = pending[w] - 1] BY Zenon DEF Adopted
  <1>8. PendingInv'
    <2>1. conn[f].stage \in Delivered BY <1>3, Zenon DEF Delivered
    <2>2. \A v \in Workers : /\ Cardinality(At(v, Delivered)') = Cardinality(At(v, Delivered))
                                  + (IF c.worker = v /\ c.stage \in Delivered THEN 1 ELSE 0)
                                  - (IF conn[f].worker = v /\ conn[f].stage \in Delivered THEN 1 ELSE 0)
      BY MovedCounts, Zenon
    <2>3. \A v \in Workers : Cardinality(At(v, Delivered)) \in Nat
      BY Finite, Zenon DEF At
    <2>4. \A v \in Workers : /\ pending[v] = Cardinality(At(v, Delivered))
                             /\ pending'[v] = IF v = w THEN pending[v] - 1 ELSE pending[v]
      BY <1>7, Zenon DEF PendingInv, TypeOK
    <2> QED BY <1>3, <2>1, <2>2, <2>3, <2>4 DEF PendingInv
  <1>9. worker' \in [Workers -> WorkerStates] BY <1>4, Zenon DEF TypeOK
  <1>10. pending' \in [Workers -> Int] BY <1>7 DEF TypeOK
  <1> QED BY <1>6, <1>8, <1>9, <1>10, Zenon

\* One connection is closed: the same as closing a set of one.
LEMMA CloseOne ==
  ASSUME Inv, NEW f \in Fds, Close({f})
  PROVE  \E c \in Conns : c = Free /\ c.stage = "free" /\ conn' = [conn EXCEPT ![f] = c]
  <1>1. conn' = [g \in Fds |-> IF g \in {f} THEN Free ELSE conn[g]] BY Zenon DEF Close
  <1>2. conn' = [conn EXCEPT ![f] = Free] BY <1>1, Zenon DEF Inv, TypeOK
  <1> QED BY <1>2, Idle, Zenon DEF Free

\* The first of a worker's batch belongs to it.
LEMMA FirstIs ==
  ASSUME Inv, NEW w \in Workers, worker[w].at = "adopt"
  PROVE  \E f \in Fds : /\ First(w, f) /\ conn[f].worker = w
                        /\ conn[f].stage \in {"batched", "registered"}
  <1>1. /\ worker[w].batch \in Seq(Fds) /\ worker[w].batch /= <<>>
        /\ Lists(worker[w].batch, At(w, {"batched", "registered"}))
    BY Zenon DEF Inv, WorkerInv, TypeOK, WorkerStates
  <1>2. Head(worker[w].batch) \in At(w, {"batched", "registered"})
    BY <1>1, ListsTail, Zenon
  <1> QED BY <1>2, Zenon DEF At, First

\* A connection is removed while its worker adopts it.
LEMMA AdoptFails ==
  ASSUME Inv, NEW w \in Workers, worker[w].at = "adopt", NEW f \in Fds, First(w, f),
         conn[f].stage \in {"batched", "registered"}, Close({f}), Adopted(w),
         UNCHANGED <<listening, maxClients, acceptor, nextWorker, proxyQueue, proxyPending,
                     reader, incoming, stopping>>
  PROVE  Inv'
  <1>1. {f} \subseteq In(Delivered \cup Registered) BY Zenon DEF In, Delivered
  <1>2. /\ AcceptorInv' /\ QueueInv' /\ ReaderInv' /\ ClientsInv' /\ ProxyInv'
        /\ SlotsAreHeld' /\ CountingInv'
        /\ conn' \in [Fds -> Conns] /\ clients' \subseteq Fds /\ noiseSlots' \in Int
    BY <1>1, Closes, Zenon
  <1>3. PICK c \in Conns : c.stage = "free" /\ conn' = [conn EXCEPT ![f] = c]
    BY CloseOne, Zenon
  <1>4. c.stage \notin Delivered /\ (c.stage \in Registered => c.worker = w)
    BY <1>3, Zenon DEF Delivered, Registered
  <1>5. /\ WorkerInv' /\ PendingInv'
        /\ worker' \in [Workers -> WorkerStates] /\ pending' \in [Workers -> Int]
    BY <1>3, <1>4, AdoptedInv, Zenon
  <1>6. TypeOK' BY <1>2, <1>5, Zenon DEF Inv, TypeOK
  <1> QED BY <1>2, <1>5, <1>6, Zenon DEF Inv

\* A worker's connection goes on to a later stage at the same worker.
LEMMA Advances ==
  ASSUME Inv, NEW f \in Fds, conn[f].stage \in Delivered \cup Registered, NEW c \in Conns,
         c.stage \in Delivered \cup Registered, c.worker = conn[f].worker,
         conn' = [conn EXCEPT ![f] = c],
         UNCHANGED <<acceptor, proxyQueue, proxyPending, reader, stopping>>
  PROVE  AcceptorInv' /\ QueueInv' /\ ReaderInv' /\ ProxyInv'
  <1> USE DEF Inv
  <1>1. \A g \in Fds : conn'[g] = IF g = f THEN c ELSE conn[g]
    BY Zenon DEF TypeOK
  <1>2. ASSUME NEW st, c.stage \notin st, conn[f].stage \notin st PROVE In(st)' = In(st)
    BY <1>2, NotMoved, Zenon
  <1>3. /\ c.stage \notin {"queued"} /\ conn[f].stage \notin {"queued"}
        /\ c.stage \notin Queued /\ conn[f].stage \notin Queued
        /\ c.stage /= "reading" /\ conn[f].stage /= "reading"
        /\ c.stage /= "accepted" /\ conn[f].stage /= "accepted"
    BY Zenon DEF Queued, Delivered, Registered
  <1>4. In({"queued"})' = In({"queued"}) /\ In(Queued)' = In(Queued)
    BY <1>2, <1>3, Zenon
  <1>5. AcceptorInv' BY <1>1, <1>3 DEF AcceptorInv
  <1>6. QueueInv' BY <1>1, <1>3, <1>4, Zenon DEF QueueInv
  <1>7. ReaderInv' BY <1>1, <1>3, ReadersKeep, Zenon
  <1>8. ProxyInv' BY <1>4, Zenon DEF ProxyInv
  <1> QED BY <1>5, <1>6, <1>7, <1>8, Zenon

\* The session is registered, or adopting the connection fails.
LEMMA AdoptInv == ASSUME Inv, NEW w \in Workers, Adopt(w) PROVE Inv'
  <1>1. PICK f \in Fds : First(w, f) /\ conn[f].worker = w
    BY FirstIs, Zenon DEF Adopt
  <1>2. /\ worker[w].at = "adopt" /\ conn[f].stage = "batched"
        /\ UNCHANGED <<listening, sv2State, maxClients, acceptor, nextWorker, proxyQueue,
                       proxyPending, reader, incoming, poked, stopping>>
    BY <1>1, Zenon DEF Adopt, First
  <1>3. \/ /\ conn' = Stage(f, "registered") /\ clients' = clients \cup {f}
           /\ UNCHANGED <<worker, pending, noiseSlots>>
        \/ Close({f}) /\ Adopted(w)
    BY <1>1, Zenon DEF Adopt, First, Stage
  <1>4. CASE Close({f}) /\ Adopted(w)
    <2>1. conn[f].stage \in {"batched", "registered"} BY <1>2, Zenon
    <2> QED BY <1>1, <1>2, <1>4, <2>1, AdoptFails, Zenon
  <1>5. CASE /\ conn' = Stage(f, "registered") /\ clients' = clients \cup {f}
             /\ UNCHANGED <<worker, pending, noiseSlots>>
    <2> USE DEF Inv
    <2>1. PICK c \in Conns :
            /\ c.stage = "registered" /\ c.protocol = conn[f].protocol
            /\ c.worker = conn[f].worker /\ conn' = [conn EXCEPT ![f] = c]
      <3>1. "registered" \in Stages BY Zenon DEF Stages, Delivered
      <3> QED BY <1>5, <3>1, Staged, Zenon
    <2>2. \A g \in Fds : conn'[g] = IF g = f THEN c ELSE conn[g]
      BY <2>1, Zenon DEF TypeOK
    <2>3. AcceptorInv' /\ QueueInv' /\ ReaderInv' /\ ProxyInv'
      <3>1. conn[f].stage \in Delivered \cup Registered /\ c.stage \in Delivered \cup Registered
        BY <1>2, <2>1, Zenon DEF Delivered, Registered
      <3> QED BY <1>2, <2>1, <3>1, Advances, Zenon
    <2>4. ASSUME NEW st, "batched" \in st <=> "registered" \in st
          PROVE  In(st)' = In(st) /\ \A v \in Workers : At(v, st)' = At(v, st)
      <3>1. c.stage \in st <=> conn[f].stage \in st
        BY <1>2, <2>1, <2>4, Zenon
      <3> QED BY <2>1, <3>1, NotMoved, Zenon
    <2>5. TypeOK'
      <3>1. conn' \in [Fds -> Conns] /\ clients' \subseteq Fds
        BY <1>5, <2>1, Zenon DEF TypeOK
      <3> QED BY <1>2, <1>5, <3>1, Zenon DEF TypeOK
    <2>6. WorkerInv'
      <3>1. \A v \in Workers : /\ At(v, {"incoming"})' = At(v, {"incoming"})
                               /\ At(v, {"batched", "registered"})' = At(v, {"batched", "registered"})
                               /\ At(v, Delivered \cup Registered)' = At(v, Delivered \cup Registered)
        BY <2>4, Zenon DEF Delivered, Registered
      <3> QED BY <1>2, <1>5, <3>1, Zenon DEF WorkerInv
    <2>7. ClientsInv'
      <3>1. In(Registered)' = IF c.stage \in Registered THEN In(Registered) \cup {f}
                              ELSE In(Registered) \ {f}
        BY <2>1, Moved, Zenon
      <3>2. c.stage \in Registered BY <2>1, Zenon DEF Registered
      <3> QED BY <1>5, <3>1, <3>2, Zenon DEF ClientsInv
    <2>8. PendingInv'
      <3>1. \A v \in Workers : At(v, Delivered)' = At(v, Delivered)
        BY <2>4, Zenon DEF Delivered
      <3> QED BY <1>5, <3>1, Zenon DEF PendingInv
    <2>9. SlotsAreHeld'
      <3>1. Slots(Fds) \in Nat
            /\ Slots(Fds)' = Slots(Fds)
                + (IF c.protocol = "noise" /\ c.stage \in Slotted THEN 1 ELSE 0)
                - (IF conn[f].protocol = "noise" /\ conn[f].stage \in Slotted THEN 1 ELSE 0)
        BY <2>1, MovedSlots, Zenon
      <3>2. c.stage \in Slotted /\ conn[f].stage \in Slotted
        BY <1>2, <2>1, Zenon DEF Slotted
      <3> QED BY <1>2, <1>5, <2>1, <3>1, <3>2 DEF SlotsAreHeld
    <2>10. CountingInv'
      <3>1. \A g \in Fds : Forward(g) BY <1>2, <2>1, <2>2, Zenon DEF Forward
      <3> QED BY <1>2, <3>1, ForwardCounts, Zenon
    <2> QED BY <2>3, <2>5, <2>6, <2>7, <2>8, <2>9, <2>10, Zenon
  <1> QED BY <1>3, <1>4, <1>5, Zenon

\* The descriptor joins epoll as handshaking or serving, or that fails.
LEMMA RegisterInv == ASSUME Inv, NEW w \in Workers, Register(w) PROVE Inv'
  <1>1. PICK f \in Fds : First(w, f) /\ conn[f].worker = w
    BY FirstIs, Zenon DEF Register
  <1>2. PICK s \in {"handshaking", "serving"} :
          s = IF conn[f].protocol = "noise" THEN "handshaking" ELSE "serving"
    BY Zenon
  <1>3. /\ worker[w].at = "adopt" /\ conn[f].stage = "registered" /\ Adopted(w)
        /\ UNCHANGED <<listening, sv2State, maxClients, acceptor, nextWorker, proxyQueue,
                       proxyPending, reader, incoming, poked, stopping>>
    BY <1>1, Zenon DEF Register, First
  <1>4. \/ conn' = Stage(f, s) /\ UNCHANGED <<clients, noiseSlots>>
        \/ Close({f})
    BY <1>1, <1>2, Zenon DEF Register, First, Stage
  <1>5. CASE Close({f})
    <2>1. conn[f].stage \in {"batched", "registered"} BY <1>3, Zenon
    <2> QED BY <1>1, <1>3, <1>5, <2>1, AdoptFails, Zenon
  <1>6. CASE conn' = Stage(f, s) /\ UNCHANGED <<clients, noiseSlots>>
    <2> USE DEF Inv
    <2>1. PICK c \in Conns :
            /\ c.stage = s /\ c.protocol = conn[f].protocol
            /\ c.worker = conn[f].worker /\ conn' = [conn EXCEPT ![f] = c]
      <3>1. s \in Stages BY Zenon DEF Stages, Registered
      <3> QED BY <1>6, <3>1, Staged, Zenon
    <2>2. \A g \in Fds : conn'[g] = IF g = f THEN c ELSE conn[g]
      BY <2>1, Zenon DEF TypeOK
    <2>3. AcceptorInv' /\ QueueInv' /\ ReaderInv' /\ ProxyInv'
      <3>1. conn[f].stage \in Delivered \cup Registered /\ c.stage \in Delivered \cup Registered
        BY <1>3, <2>1, Zenon DEF Delivered, Registered
      <3> QED BY <1>3, <2>1, <3>1, Advances, Zenon
    <2>4. /\ WorkerInv' /\ PendingInv'
          /\ worker' \in [Workers -> WorkerStates] /\ pending' \in [Workers -> Int]
      <3>1. c.stage \notin Delivered /\ c.worker = w
        BY <1>1, <2>1, Zenon DEF Delivered
      <3> QED BY <1>1, <1>3, <2>1, <3>1, AdoptedInv, Zenon
    <2>5. TypeOK'
      <3>1. conn' \in [Fds -> Conns] BY <2>1, Zenon DEF TypeOK
      <3> QED BY <1>3, <1>6, <2>4, <3>1, Zenon DEF TypeOK
    <2>6. ClientsInv'
      <3>1. c.stage \in Registered /\ conn[f].stage \in Registered
        BY <1>3, <2>1, Zenon DEF Registered
      <3>2. In(Registered)' = In(Registered)
        BY <2>1, <3>1, NotMoved, Zenon
      <3> QED BY <1>6, <3>2, Zenon DEF ClientsInv
    <2>7. SlotsAreHeld'
      <3>1. Slots(Fds) \in Nat
            /\ Slots(Fds)' = Slots(Fds)
                + (IF c.protocol = "noise" /\ c.stage \in Slotted THEN 1 ELSE 0)
                - (IF conn[f].protocol = "noise" /\ conn[f].stage \in Slotted THEN 1 ELSE 0)
        BY <2>1, MovedSlots, Zenon
      <3>2. conn[f].stage \in Slotted /\ (c.protocol = "noise" => c.stage \in Slotted)
        BY <1>2, <1>3, <2>1, Zenon DEF Slotted
      <3> QED BY <1>3, <1>6, <2>1, <3>1, <3>2 DEF SlotsAreHeld
    <2>8. CountingInv'
      <3>1. \A g \in Fds : Forward(g) BY <1>3, <2>1, <2>2, Zenon DEF Forward
      <3> QED BY <1>3, <3>1, ForwardCounts, Zenon
    <2> QED BY <2>3, <2>4, <2>5, <2>6, <2>7, <2>8, Zenon
  <1> QED BY <1>4, <1>5, <1>6, Zenon

\* Only Noise connections have a handshake to complete.
NoiseInv == \A f \in Fds : conn[f].stage = "handshaking" => conn[f].protocol = "noise"

\* A handshake completes and gives its slot back.
LEMMA CompleteHandshakeInv ==
  ASSUME Inv, NoiseInv, NEW f \in Fds, CompleteHandshake(f) PROVE Inv'
  <1> USE DEF Inv
  <1>1. /\ conn[f].stage = "handshaking" /\ conn' = Stage(f, "serving")
        /\ noiseSlots' = noiseSlots - 1
        /\ UNCHANGED <<listening, maxClients, acceptor, nextWorker, proxyQueue,
                       proxyPending, reader, incoming, pending, poked, worker, clients, stopping>>
    BY Zenon DEF CompleteHandshake, Stage
  <1>2. PICK c \in Conns :
          /\ c.stage = "serving" /\ c.protocol = conn[f].protocol
          /\ c.worker = conn[f].worker /\ conn' = [conn EXCEPT ![f] = c]
    <2>1. "serving" \in Stages BY Zenon DEF Stages, Registered
    <2> QED BY <1>1, <2>1, Staged, Zenon
  <1>3. \A g \in Fds : conn'[g] = IF g = f THEN c ELSE conn[g]
    BY <1>2, Zenon DEF TypeOK
  <1>4. AcceptorInv' /\ QueueInv' /\ ReaderInv' /\ ProxyInv'
    <2>1. conn[f].stage \in Delivered \cup Registered /\ c.stage \in Delivered \cup Registered
      BY <1>1, <1>2, Zenon DEF Delivered, Registered
    <2> QED BY <1>1, <1>2, <2>1, Advances, Zenon
  <1>5. ASSUME NEW st, "handshaking" \in st <=> "serving" \in st
        PROVE  In(st)' = In(st) /\ \A v \in Workers : At(v, st)' = At(v, st)
    <2>1. c.stage \in st <=> conn[f].stage \in st BY <1>1, <1>2, <1>5, Zenon
    <2> QED BY <1>2, <2>1, NotMoved, Zenon
  <1>6. TypeOK'
    <2>1. conn' \in [Fds -> Conns] BY <1>2, Zenon DEF TypeOK
    <2>2. noiseSlots' \in Int
      <3>1. noiseSlots \in Int BY Zenon DEF TypeOK
      <3> QED BY <1>1, <3>1
    <2> QED BY <1>1, <2>1, <2>2, Zenon DEF TypeOK
  <1>7. WorkerInv'
    <2>1. \A v \in Workers : /\ At(v, {"incoming"})' = At(v, {"incoming"})
                             /\ At(v, {"batched", "registered"})' = At(v, {"batched", "registered"})
                             /\ At(v, Delivered \cup Registered)' = At(v, Delivered \cup Registered)
      BY <1>5, Zenon DEF Delivered, Registered
    <2> QED BY <1>1, <2>1, Zenon DEF WorkerInv
  <1>8. ClientsInv' /\ PendingInv'
    <2>1. In(Registered)' = In(Registered) BY <1>5, Zenon DEF Registered
    <2>2. \A v \in Workers : At(v, Delivered)' = At(v, Delivered)
      BY <1>5, Zenon DEF Delivered
    <2> QED BY <1>1, <2>1, <2>2, Zenon DEF ClientsInv, PendingInv
  <1>9. SlotsAreHeld'
    <2>1. Slots(Fds) \in Nat
          /\ Slots(Fds)' = Slots(Fds)
              + (IF c.protocol = "noise" /\ c.stage \in Slotted THEN 1 ELSE 0)
              - (IF conn[f].protocol = "noise" /\ conn[f].stage \in Slotted THEN 1 ELSE 0)
      BY <1>2, MovedSlots, Zenon
    <2>2. c.stage \notin Slotted /\ conn[f].stage \in Slotted /\ conn[f].protocol = "noise"
      BY <1>1, <1>2, Zenon DEF Slotted, NoiseInv
    <2> QED BY <1>1, <2>1, <2>2 DEF SlotsAreHeld
  <1>10. CountingInv'
    <2>1. \A g \in Fds : Forward(g) BY <1>1, <1>2, <1>3, Zenon DEF Forward
    <2> QED BY <1>1, <2>1, ForwardCounts, Zenon
  <1> QED BY <1>4, <1>6, <1>7, <1>8, <1>9, <1>10, Zenon

\* What a worker still has when it closes some of its connections.
LEMMA ClosedAt ==
  ASSUME NEW fs, \A g \in Fds : conn'[g] = IF g \in fs THEN Free ELSE conn[g],
         NEW st, "free" \notin st
  PROVE  In(st)' = In(st) \ fs /\ \A v \in Workers : At(v, st)' = At(v, st) \ fs
  BY DEF In, At, Free

\* A connection that was adopted is removed.
LEMMA Disconnects ==
  ASSUME Inv, NEW f \in Fds, conn[f].stage \in {"handshaking", "serving"}, Close({f}),
         UNCHANGED <<listening, maxClients, acceptor, nextWorker, proxyQueue, proxyPending,
                     reader, incoming, pending, worker, stopping>>
  PROVE  Inv'
  <1>1. {f} \subseteq In(Delivered \cup Registered) BY Zenon DEF In, Registered
  <1>2. /\ AcceptorInv' /\ QueueInv' /\ ReaderInv' /\ ClientsInv' /\ ProxyInv'
        /\ SlotsAreHeld' /\ CountingInv'
        /\ conn' \in [Fds -> Conns] /\ clients' \subseteq Fds /\ noiseSlots' \in Int
        /\ \A g \in Fds : conn'[g] = IF g \in {f} THEN Free ELSE conn[g]
    BY <1>1, Closes, Zenon
  <1>3. TypeOK' BY <1>2, Zenon DEF Inv, TypeOK
  <1>4. ASSUME NEW st, "free" \notin st
        PROVE  \A v \in Workers : At(v, st)' = At(v, st) \ {f}
    BY <1>2, <1>4, ClosedAt, Zenon
  <1>5. \A v \in Workers : /\ At(v, {"incoming"})' = At(v, {"incoming"}) \ {f}
                           /\ At(v, {"batched", "registered"})' = At(v, {"batched", "registered"}) \ {f}
                           /\ At(v, Delivered)' = At(v, Delivered) \ {f}
                           /\ At(v, Delivered \cup Registered)' = At(v, Delivered \cup Registered) \ {f}
    BY <1>4, Zenon DEF Delivered, Registered
  <1>6. \A v \in Workers : /\ f \notin At(v, {"incoming"})
                           /\ f \notin At(v, {"batched", "registered"})
                           /\ f \notin At(v, Delivered)
    BY Zenon DEF At, Delivered
  <1>7. \A v \in Workers : /\ At(v, {"incoming"})' = At(v, {"incoming"})
                           /\ At(v, {"batched", "registered"})' = At(v, {"batched", "registered"})
                           /\ At(v, Delivered)' = At(v, Delivered)
                           /\ At(v, Delivered \cup Registered) = {} =>
                                At(v, Delivered \cup Registered)' = {}
    <2>1. ASSUME NEW S, f \notin S PROVE S \ {f} = S BY <2>1, Zenon
    <2>2. {} \ {f} = {} BY Zenon
    <2> TAKE v \in Workers
    <2>3. /\ At(v, {"incoming"}) \ {f} = At(v, {"incoming"})
          /\ At(v, {"batched", "registered"}) \ {f} = At(v, {"batched", "registered"})
          /\ At(v, Delivered) \ {f} = At(v, Delivered)
      BY <1>6, <2>1, Zenon
    <2> QED BY <1>5, <2>2, <2>3, Zenon
  <1>8. WorkerInv' BY <1>7, Zenon DEF Inv, WorkerInv
  <1>9. PendingInv' BY <1>7, Zenon DEF Inv, PendingInv
  <1> QED BY <1>2, <1>3, <1>8, <1>9, Zenon DEF Inv

\* A handshake fails on the certificate's validity.
LEMMA RefuseHandshakeInv ==
  ASSUME Inv, NEW f \in Fds, RefuseHandshake(f) PROVE Inv'
  BY Disconnects, Zenon DEF RefuseHandshake

\* A read or the sweep removes a connection.
LEMMA DisconnectInv == ASSUME Inv, NEW f \in Fds, Disconnect(f) PROVE Inv'
  BY Disconnects, Zenon DEF Disconnect

\* A worker stops: all that it was given and still has is closed.
LEMMA WorkerStopInv == ASSUME Inv, NEW w \in Workers, WorkerStop(w) PROVE Inv'
  <1> USE DEF Inv
  <1>1. /\ stopping = "workers" /\ worker[w].at = "poll" /\ Close(Dropped(w))
        /\ incoming' = [incoming EXCEPT ![w] = <<>>] /\ pending' = [pending EXCEPT ![w] = 0]
        /\ worker' = [worker EXCEPT ![w].at = "stopped"]
        /\ UNCHANGED <<listening, sv2State, maxClients, acceptor, nextWorker, proxyQueue,
                       proxyPending, reader, poked, stopping>>
    BY Zenon DEF WorkerStop
  <1>2. worker[w].batch = <<>> /\ At(w, {"batched", "registered"}) = {}
    <2>1. worker[w].batch = <<>> /\ Lists(<<>>, At(w, {"batched", "registered"}))
      BY <1>1, Zenon DEF WorkerInv
    <2> QED BY <2>1 DEF Lists
  <1>3. /\ Dropped(w) \subseteq In(Delivered \cup Registered)
        /\ Dropped(w) = At(w, Delivered \cup Registered)
    BY <1>2, Zenon DEF Dropped, At, In, Delivered, Registered
  <1>4. /\ AcceptorInv' /\ QueueInv' /\ ReaderInv' /\ ClientsInv' /\ ProxyInv'
        /\ SlotsAreHeld' /\ CountingInv'
        /\ conn' \in [Fds -> Conns] /\ clients' \subseteq Fds /\ noiseSlots' \in Int
        /\ \A g \in Fds : conn'[g] = IF g \in Dropped(w) THEN Free ELSE conn[g]
    BY <1>1, <1>3, Closes, Zenon
  <1>5. /\ incoming' \in [Workers -> Seq(Fds)] /\ pending' \in [Workers -> Int]
        /\ worker' \in [Workers -> WorkerStates]
        /\ incoming'[w] = <<>> /\ pending'[w] = 0
        /\ worker'[w].at = "stopped" /\ worker'[w].batch = <<>>
        /\ \A v \in Workers \ {w} : /\ incoming'[v] = incoming[v] /\ pending'[v] = pending[v]
                                    /\ worker'[v] = worker[v]
    <2>1. incoming' \in [Workers -> Seq(Fds)] /\ pending' \in [Workers -> Int]
      BY <1>1, EmptyLists DEF TypeOK
    <2>2. /\ incoming'[w] = <<>> /\ pending'[w] = 0
          /\ \A v \in Workers \ {w} : incoming'[v] = incoming[v] /\ pending'[v] = pending[v]
      BY <1>1, Zenon DEF TypeOK
    <2>3. worker[w] \in WorkerStates /\ worker \in [Workers -> WorkerStates]
      BY Zenon DEF TypeOK
    <2>4. PICK s \in WorkerStates :
            /\ s.at = "stopped" /\ s.batch = worker[w].batch
            /\ worker' = [worker EXCEPT ![w] = s]
      <3>1. PICK s : s = [worker[w] EXCEPT !.at = "stopped"] BY Zenon
      <3>2. s \in WorkerStates /\ s.at = "stopped" /\ s.batch = worker[w].batch
        BY <2>3, <3>1, Zenon DEF WorkerStates
      <3>3. worker' = [worker EXCEPT ![w] = s] BY <1>1, <2>3, <3>1, Zenon
      <3> QED BY <3>2, <3>3, Zenon
    <2>5. /\ worker' \in [Workers -> WorkerStates] /\ worker'[w] = s
          /\ \A v \in Workers \ {w} : worker'[v] = worker[v]
      BY <2>3, <2>4, Zenon
    <2> QED BY <1>2, <2>1, <2>2, <2>4, <2>5, Zenon
  <1>6. TypeOK' BY <1>1, <1>4, <1>5, Zenon DEF TypeOK
  <1>7. ASSUME NEW st, st \subseteq Delivered \cup Registered
        PROVE  \A v \in Workers : At(v, st)' = IF v = w THEN {} ELSE At(v, st)
    <2>1. "free" \notin st BY <1>7, Zenon DEF Delivered, Registered
    <2>2. \A v \in Workers : At(v, st)' = At(v, st) \ Dropped(w)
      BY <1>4, <2>1, ClosedAt, Zenon
    <2>3. \A v \in Workers : At(v, st) \cap Dropped(w) = IF v = w THEN At(v, st) ELSE {}
      BY <1>3, <1>7, Zenon DEF At
    <2> QED BY <2>2, <2>3, Zenon
  <1>8. \A v \in Workers :
          /\ At(v, {"incoming"})' = IF v = w THEN {} ELSE At(v, {"incoming"})
          /\ At(v, {"batched", "registered"})' =
               IF v = w THEN {} ELSE At(v, {"batched", "registered"})
          /\ At(v, Delivered)' = IF v = w THEN {} ELSE At(v, Delivered)
          /\ At(v, Delivered \cup Registered)' =
               IF v = w THEN {} ELSE At(v, Delivered \cup Registered)
    <2>1. /\ {"incoming"} \subseteq Delivered \cup Registered
          /\ {"batched", "registered"} \subseteq Delivered \cup Registered
          /\ Delivered \subseteq Delivered \cup Registered
          /\ Delivered \cup Registered \subseteq Delivered \cup Registered
      BY Zenon DEF Delivered, Registered
    <2> QED BY <1>7, <2>1, Zenon
  <1>9. WorkerInv'
    <2>1. ASSUME NEW v \in Workers, v /= w
          PROVE  /\ Lists(incoming[v], At(v, {"incoming"}))'
                 /\ Lists(worker[v].batch, At(v, {"batched", "registered"}))'
                 /\ worker'[v].at = "adopt" <=> worker'[v].batch /= <<>>
                 /\ worker'[v].at = "stopped" =>
                      stopping' = "workers" /\ At(v, Delivered \cup Registered)' = {}
      <3>1. incoming'[v] = incoming[v] /\ worker'[v] = worker[v] /\ stopping' = stopping
        BY <1>1, <1>5, <2>1, Zenon
      <3>2. /\ At(v, {"incoming"})' = At(v, {"incoming"})
            /\ At(v, {"batched", "registered"})' = At(v, {"batched", "registered"})
            /\ At(v, Delivered \cup Registered)' = At(v, Delivered \cup Registered)
        BY <1>8, <2>1, Zenon
      <3> QED BY <3>1, <3>2, Zenon DEF WorkerInv
    <2>2. /\ Lists(incoming[w], At(w, {"incoming"}))'
          /\ Lists(worker[w].batch, At(w, {"batched", "registered"}))'
          /\ worker'[w].at = "adopt" <=> worker'[w].batch /= <<>>
          /\ worker'[w].at = "stopped" =>
               stopping' = "workers" /\ At(w, Delivered \cup Registered)' = {}
      BY <1>1, <1>5, <1>8, EmptyLists, Zenon
    <2> QED BY <2>1, <2>2, Zenon DEF WorkerInv
  <1>10. PendingInv'
    BY <1>5, <1>8, FS_EmptySet, Zenon DEF PendingInv
  <1> QED BY <1>4, <1>6, <1>9, <1>10, Zenon

\* The acceptor leaves its loop.
LEMMA StopAcceptingInv == ASSUME Inv, StopAccepting PROVE Inv'
  <1> USE DEF Inv
  <1>1. /\ acceptor.at = "listen" /\ stopping = "no" /\ stopping' = "readers"
        /\ UNCHANGED <<listening, sv2State, maxClients, conn, acceptor, nextWorker, proxyQueue,
                       proxyPending, reader, incoming, pending, poked, worker, clients,
                       noiseSlots>>
    BY Zenon DEF StopAccepting
  <1>2. /\ \A st : In(st)' = In(st) /\ \A w \in Workers : At(w, st)' = At(w, st)
        /\ Slots(Fds)' = Slots(Fds) /\ Occupied' = Occupied
    BY <1>1, SameConn, Zenon
  <1>3. TypeOK' BY <1>1, Zenon DEF TypeOK
  <1>4. AcceptorInv' BY <1>1, Zenon DEF AcceptorInv
  <1>5. QueueInv' /\ ClientsInv' /\ PendingInv' /\ ProxyInv'
    BY <1>1, <1>2, Zenon DEF QueueInv, ClientsInv, PendingInv, ProxyInv
  <1>6. ReaderInv'
    <2>1. stopping' /= "workers" BY <1>1, Zenon
    <2> QED BY <1>1, <2>1, Zenon DEF ReaderInv
  <1>7. WorkerInv'
    <2>1. \A w \in Workers : worker[w].at /= "stopped" BY <1>1, Zenon DEF WorkerInv
    <2> QED BY <1>1, <1>2, <2>1, Zenon DEF WorkerInv
  <1>8. SlotsAreHeld' BY <1>1, <1>2, Zenon DEF SlotsAreHeld
  <1>9. CountingInv' BY <1>1, Zenon DEF CountingInv
  <1> QED BY <1>3, <1>4, <1>5, <1>6, <1>7, <1>8, <1>9, Zenon

\* The readers are joined and what they left queued is closed.
LEMMA StopWorkersInv == ASSUME Inv, StopWorkers PROVE Inv'
  <1> USE DEF Inv
  <1>1. /\ stopping = "readers" /\ stopping' = "workers"
        /\ \A r \in Readers : reader[r].at = "stopped"
        /\ conn' = [f \in Fds |-> IF f \in Range(proxyQueue) THEN Free ELSE conn[f]]
        /\ proxyQueue' = <<>> /\ proxyPending' = 0
        /\ UNCHANGED <<listening, sv2State, maxClients, acceptor, nextWorker, reader,
                       incoming, pending, worker, clients, noiseSlots>>
    BY Zenon DEF StopWorkers
  <1>2. acceptor.at = "listen" BY <1>1, Zenon DEF AcceptorInv
  <1>3. Range(proxyQueue) = In({"queued"})
    BY Zenon DEF QueueInv, Lists, Range
  <1>4. \A g \in Fds : conn'[g] = IF g \in In({"queued"}) THEN Free ELSE conn[g]
    BY <1>1, <1>3, Zenon
  <1>5. \A g \in Fds : conn[g].stage /= "reading" BY <1>1, Zenon DEF ReaderInv
  <1>6. ASSUME NEW g \in Fds
        PROVE  /\ conn'[g] = conn[g] \/ conn'[g].stage = "free"
               /\ conn[g].stage /= "queued" => conn'[g] = conn[g]
               /\ conn[g].stage = "queued" => conn'[g].stage = "free"
               /\ conn'[g].stage \notin Queued
    BY <1>4, <1>5 DEF In, Free, Queued
  <1>7. ASSUME NEW st, "free" \notin st, "queued" \notin st
        PROVE  In(st)' = In(st) /\ \A v \in Workers : At(v, st)' = At(v, st)
    <2>1. In(st)' = In(st) \ In({"queued"})
          /\ \A v \in Workers : At(v, st)' = At(v, st) \ In({"queued"})
      BY <1>4, <1>7, ClosedAt, Zenon
    <2> QED BY <1>7, <2>1, Zenon DEF In, At
  <1>8. In({"queued"})' = {} /\ In(Queued)' = {}
    BY <1>6, Zenon DEF In, Queued
  <1>9. TypeOK'
    <2>1. conn' \in [Fds -> Conns] BY <1>1, Idle, Zenon DEF TypeOK
    <2>2. proxyQueue' \in Seq(Fds) /\ proxyPending' \in Int BY <1>1, EmptyLists
    <2> QED BY <1>1, <2>1, <2>2, Zenon DEF TypeOK
  <1>10. AcceptorInv' BY <1>1, <1>2, <1>6, Zenon DEF AcceptorInv
  <1>11. QueueInv'
    <2>1. Lists(proxyQueue, In({"queued"}))' BY <1>1, <1>8, EmptyLists, Zenon
    <2>2. Len(proxyQueue') <= ProxyQueueLimit BY <1>1, ServerAssumption
    <2> QED BY <1>6, <2>1, <2>2, Zenon DEF QueueInv
  <1>12. ReaderInv'
    <2>1. \A r \in Readers : reader'[r].at = "stopped" /\ reader'[r].at /= "read"
      BY <1>1, Zenon
    <2>2. \A g \in Fds : conn'[g].stage /= "reading" BY <1>6, Zenon DEF Queued
    <2> QED BY <1>1, <2>1, <2>2, Zenon DEF ReaderInv
  <1>13. WorkerInv'
    <2>1. \A v \in Workers : /\ At(v, {"incoming"})' = At(v, {"incoming"})
                             /\ At(v, {"batched", "registered"})' = At(v, {"batched", "registered"})
                             /\ At(v, Delivered \cup Registered)' = At(v, Delivered \cup Registered)
      BY <1>7, Zenon DEF Delivered, Registered
    <2> QED BY <1>1, <2>1, Zenon DEF WorkerInv
  <1>14. ClientsInv' /\ PendingInv'
    <2>1. In(Registered)' = In(Registered) BY <1>7, Zenon DEF Registered
    <2>2. \A v \in Workers : At(v, Delivered)' = At(v, Delivered)
      BY <1>7, Zenon DEF Delivered
    <2> QED BY <1>1, <2>1, <2>2, Zenon DEF ClientsInv, PendingInv
  <1>15. ProxyInv'
    <2>1. {r \in Readers : reader[r].at \in {"poke", "done"}}' = {} BY <1>1, Zenon
    <2> QED BY <1>1, <1>2, <1>8, <2>1, FS_EmptySet, Zenon DEF ProxyInv
  <1>16. SlotsAreHeld'
    <2>1. \A g \in Fds : HoldsSlot(g)' <=> HoldsSlot(g)
      BY <1>6, Zenon DEF HoldsSlot
    <2>2. Slots(Fds)' = Slots(Fds) BY <2>1, Zenon DEF Slots
    <2> QED BY <1>1, <2>2, Zenon DEF SlotsAreHeld
  <1>17. CountingInv' BY <1>1, <1>2, Zenon DEF CountingInv
  <1> QED BY <1>9, <1>10, <1>11, <1>12, <1>13, <1>14, <1>15, <1>16, <1>17, Zenon

\* The workers are joined.
LEMMA StoppedInv == ASSUME Inv, Stopped PROVE Inv'
  <1> USE DEF Inv
  <1>1. /\ listening' = {}
        /\ UNCHANGED <<sv2State, maxClients, conn, acceptor, nextWorker, proxyQueue,
                       proxyPending, reader, incoming, pending, poked, worker, clients,
                       noiseSlots, stopping>>
    BY Zenon DEF Stopped
  <1>2. /\ \A st : In(st)' = In(st) /\ \A w \in Workers : At(w, st)' = At(w, st)
        /\ Slots(Fds)' = Slots(Fds) /\ Occupied' = Occupied
    BY <1>1, SameConn, Zenon
  <1>3. TypeOK' BY <1>1, Zenon DEF TypeOK
  <1>4. \A f : Ahead(f)' <=> Ahead(f) BY <1>1, Zenon DEF Ahead
  <1>5. Passed' = Passed BY <1>2, <1>4, Zenon DEF Passed
  <1>6. CountingInv' BY <1>1, <1>2, <1>5, Zenon DEF CountingInv
  <1> QED
    BY <1>1, <1>2, <1>3, <1>6, Zenon
    DEF AcceptorInv, QueueInv, ReaderInv, WorkerInv, ClientsInv, PendingInv, ProxyInv,
        SlotsAreHeld

\* Nothing happens.
LEMMA StutterInv == ASSUME Inv, UNCHANGED vars PROVE Inv'
  <1> USE DEF Inv
  <1>1. UNCHANGED <<listening, sv2State, maxClients, conn, acceptor, nextWorker, proxyQueue,
                    proxyPending, reader, incoming, pending, poked, worker, clients,
                    noiseSlots, stopping>>
    BY Zenon DEF vars
  <1>2. /\ \A st : In(st)' = In(st) /\ \A w \in Workers : At(w, st)' = At(w, st)
        /\ Slots(Fds)' = Slots(Fds) /\ Occupied' = Occupied
    BY <1>1, SameConn, Zenon
  <1>3. TypeOK' BY <1>1, Zenon DEF TypeOK
  <1>4. \A f : Ahead(f)' <=> Ahead(f) BY <1>1, Zenon DEF Ahead
  <1>5. Passed' = Passed BY <1>2, <1>4, Zenon DEF Passed
  <1>6. CountingInv' BY <1>1, <1>2, <1>5, Zenon DEF CountingInv
  <1> QED
    BY <1>1, <1>2, <1>3, <1>6, Zenon
    DEF AcceptorInv, QueueInv, ReaderInv, WorkerInv, ClientsInv, PendingInv, ProxyInv,
        SlotsAreHeld

\* Every step of the server keeps the invariant.
LEMMA NextInv == ASSUME Inv, NoiseInv, [Next]_vars PROVE Inv'
  <1>1. CASE Start BY <1>1, StartInv, Zenon
  <1>2. CASE ReloadConfig BY <1>2, ReloadConfigInv, Zenon
  <1>3. CASE Accept BY <1>3, AcceptInv, Zenon
  <1>4. CASE CountNext BY <1>4, CountNextInv, Zenon
  <1>5. CASE Decide BY <1>5, DecideInv, Zenon
  <1>6. CASE Admit BY <1>6, AdmitInv, Zenon
  <1>7. CASE AfterAdmit BY <1>7, AfterAdmitInv, Zenon
  <1>8. CASE \E r \in Readers : ReaderPop(r) \/ ReaderRead(r) \/ ReaderFinish(r) \/ ReaderStop(r)
    BY <1>8, ReaderPopInv, ReaderReadInv, ReaderFinishInv, ReaderStopInv, Zenon
  <1>9. CASE \E w \in Workers : Wake(w) \/ TakeBatch(w) \/ Adopt(w) \/ Register(w) \/ WorkerStop(w)
    BY <1>9, WakeInv, TakeBatchInv, AdoptInv, RegisterInv, WorkerStopInv, Zenon
  <1>10. CASE \E f \in Fds : CompleteHandshake(f) \/ RefuseHandshake(f) \/ Disconnect(f)
    BY <1>10, CompleteHandshakeInv, RefuseHandshakeInv, DisconnectInv, Zenon
  <1>11. CASE StopAccepting BY <1>11, StopAcceptingInv, Zenon
  <1>12. CASE StopWorkers BY <1>12, StopWorkersInv, Zenon
  <1>13. CASE Stopped BY <1>13, StoppedInv, Zenon
  <1>14. CASE UNCHANGED vars BY <1>14, StutterInv, Zenon
  <1> QED
    BY Zenon, <1>1, <1>2, <1>3, <1>4, <1>5, <1>6, <1>7, <1>8, <1>9, <1>10, <1>11, <1>12,
       <1>13, <1>14 DEF Next

\* One descriptor changes, and does not come to be in a handshake of a protocol
\* that has none.
LEMMA NoiseKept ==
  ASSUME TypeOK, NoiseInv, NEW f \in Fds, NEW c, conn' = [conn EXCEPT ![f] = c],
         c.stage = "handshaking" => c.protocol = "noise"
  PROVE  NoiseInv'
  <1>1. \A g \in Fds : conn'[g] = IF g = f THEN c ELSE conn[g] BY Zenon DEF TypeOK
  <1> QED BY <1>1, Zenon DEF NoiseInv

\* A descriptor takes another stage, with its protocol.
LEMMA NoiseStaged ==
  ASSUME TypeOK, NoiseInv, NEW f \in Fds, NEW s \in Stages,
         s = "handshaking" => conn[f].protocol = "noise", conn' = Stage(f, s)
  PROVE  NoiseInv'
  <1>1. PICK c \in Conns : /\ c.stage = s /\ c.protocol = conn[f].protocol
                           /\ conn' = [conn EXCEPT ![f] = c]
    BY Staged, Zenon
  <1> QED BY <1>1, NoiseKept, Zenon

\* Some descriptors are closed, the others stay as they are.
LEMMA NoiseClosed ==
  ASSUME NoiseInv, NEW fs, conn' = [f \in Fds |-> IF f \in fs THEN Free ELSE conn[f]]
  PROVE  NoiseInv'
  BY Zenon DEF NoiseInv, Free

\* The steps that change a descriptor either close it or name a stage, and only
\* Register names handshaking, for a Noise one.
LEMMA NoiseNext == ASSUME Inv, NoiseInv, [Next]_vars PROVE NoiseInv'
  <1> USE DEF Inv
  <1>0. ASSUME conn' = conn PROVE NoiseInv' BY <1>0, Zenon DEF NoiseInv
  <1>1. CASE Start \/ ReloadConfig \/ CountNext \/ AfterAdmit \/ StopAccepting \/ Stopped
             \/ UNCHANGED vars
    BY <1>0, <1>1, Zenon
    DEF Start, ReloadConfig, CountNext, AfterAdmit, StopAccepting, Stopped, vars
  <1>2. CASE Accept
    <2>1. PICK f \in Fds, p \in listening :
            conn' = [conn EXCEPT ![f] = [Free EXCEPT !.stage = "accepted", !.protocol = p]]
      BY <1>2, Zenon DEF Accept
    <2>2. PICK c : c = [Free EXCEPT !.stage = "accepted", !.protocol = p] BY Zenon
    <2>3. c.stage = "accepted" BY <2>2, Zenon DEF Free
    <2> QED BY <2>1, <2>2, <2>3, NoiseKept, Zenon
  <1>3. CASE Decide
    <2>1. acceptor.fd \in Fds BY <1>3, Zenon DEF Decide, AcceptorInv
    <2>2. conn' = conn \/ conn' = [conn EXCEPT ![acceptor.fd] = Free]
      BY <1>3, Zenon DEF Decide
    <2>3. Free.stage /= "handshaking" BY Zenon DEF Free
    <2> QED BY <1>0, <2>1, <2>2, <2>3, NoiseKept, Zenon
  <1>4. CASE Admit
    <2>1. acceptor.fd \in Fds BY <1>4, Zenon DEF Admit, AcceptorInv
    <2>2. \/ conn' = Hand(acceptor.fd, "incoming", 1 + nextWorker)
          \/ conn' = Hand(acceptor.fd, "queued", 1 + nextWorker)
          \/ conn' = [conn EXCEPT ![acceptor.fd] = Free]
      BY <1>4, Zenon DEF Admit, Hand
    <2>3. CASE conn' = [conn EXCEPT ![acceptor.fd] = Free]
      <3>1. Free.stage /= "handshaking" BY Zenon DEF Free
      <3> QED BY <2>1, <2>3, <3>1, NoiseKept, Zenon
    <2>4. ASSUME NEW s \in {"incoming", "queued"},
                 conn' = Hand(acceptor.fd, s, 1 + nextWorker)
          PROVE  NoiseInv'
      <3>1. 1 + nextWorker \in Workers
        BY ServerAssumption DEF TypeOK, Workers
      <3>2. s \in Stages /\ s /= "handshaking" BY Zenon DEF Stages, Queued, Delivered
      <3>3. PICK c \in Conns : c.stage = s /\ conn' = [conn EXCEPT ![acceptor.fd] = c]
        BY <2>1, <2>4, <3>1, <3>2, Handed
      <3> QED BY <2>1, <3>2, <3>3, NoiseKept, Zenon
    <2> QED BY <2>2, <2>3, <2>4, Zenon
  <1>5. ASSUME NEW r \in Readers, ReaderPop(r) PROVE NoiseInv'
    <2>1. Head(proxyQueue) \in In({"queued"})
      BY <1>5, ListsTail, Zenon DEF ReaderPop, QueueInv, TypeOK
    <2>2. Head(proxyQueue) \in Fds /\ conn' = Stage(Head(proxyQueue), "reading")
      BY <1>5, <2>1, Zenon DEF ReaderPop, Stage, In
    <2>3. "reading" \in Stages BY Zenon DEF Stages, Queued
    <2> QED BY <2>2, <2>3, NoiseStaged, Zenon
  <1>6. ASSUME NEW r \in Readers, ReaderRead(r) PROVE NoiseInv'
    <2>1. reader[r].fd \in Fds BY <1>6, Zenon DEF ReaderRead, ReaderInv
    <2>2. conn' = [conn EXCEPT ![reader[r].fd] = Free] \/ conn' = Stage(reader[r].fd, "incoming")
      BY <1>6, Zenon DEF ReaderRead, Stage
    <2>3. "incoming" \in Stages /\ Free.stage /= "handshaking"
      BY Zenon DEF Stages, Delivered, Free
    <2> QED BY <2>1, <2>2, <2>3, NoiseStaged, NoiseKept, Zenon
  <1>7. ASSUME NEW r \in Readers, ReaderFinish(r) \/ ReaderStop(r) PROVE NoiseInv'
    BY <1>0, <1>7, Zenon DEF ReaderFinish, ReaderStop
  <1>8. ASSUME NEW w \in Workers, Wake(w) PROVE NoiseInv'
    BY <1>0, <1>8, Zenon DEF Wake
  <1>9. ASSUME NEW w \in Workers, TakeBatch(w) PROVE NoiseInv'
    <2>1. conn' = [f \in Fds |-> IF f \in Range(incoming[w])
                                 THEN [conn[f] EXCEPT !.stage = "batched"] ELSE conn[f]]
      BY <1>9, Zenon DEF TakeBatch
    <2>2. \A f \in Fds : conn'[f].stage = "batched" \/ conn'[f] = conn[f]
      BY <2>1, Zenon DEF TypeOK, Conns
    <2> QED BY <2>2, Zenon DEF NoiseInv
  <1>10. ASSUME NEW w \in Workers, Adopt(w) \/ Register(w) PROVE NoiseInv'
    <2>1. PICK f \in Fds : First(w, f)
      BY <1>10, FirstIs, Zenon DEF Adopt, Register
    <2>2. \/ conn' = Stage(f, "registered")
          \/ conn' = Stage(f, IF conn[f].protocol = "noise" THEN "handshaking" ELSE "serving")
          \/ Close({f})
      BY <1>10, <2>1, Zenon DEF Adopt, Register, First, Stage
    <2>3. CASE Close({f})
      <3>1. conn' = [g \in Fds |-> IF g \in {f} THEN Free ELSE conn[g]]
        BY <2>3, Zenon DEF Close
      <3> QED BY <3>1, NoiseClosed, Zenon
    <2>4. CASE conn' = Stage(f, "registered")
      <3>1. "registered" \in Stages BY Zenon DEF Stages, Delivered
      <3> QED BY <2>4, <3>1, NoiseStaged, Zenon
    <2>5. CASE conn' = Stage(f, IF conn[f].protocol = "noise" THEN "handshaking" ELSE "serving")
      <3>1. PICK s \in Stages :
              s = IF conn[f].protocol = "noise" THEN "handshaking" ELSE "serving"
        BY Zenon DEF Stages, Registered
      <3>2. s = "handshaking" => conn[f].protocol = "noise" BY <3>1, Zenon
      <3> QED BY <2>5, <3>1, <3>2, NoiseStaged, Zenon
    <2> QED BY <2>2, <2>3, <2>4, <2>5, Zenon
  <1>11. ASSUME NEW w \in Workers, WorkerStop(w) PROVE NoiseInv'
    <2>1. conn' = [g \in Fds |-> IF g \in Dropped(w) THEN Free ELSE conn[g]]
      BY <1>11, Zenon DEF WorkerStop, Close
    <2> QED BY <2>1, NoiseClosed, Zenon
  <1>12. ASSUME NEW f \in Fds, CompleteHandshake(f) PROVE NoiseInv'
    <2>1. conn' = Stage(f, "serving") BY <1>12, Zenon DEF CompleteHandshake, Stage
    <2>2. "serving" \in Stages BY Zenon DEF Stages, Registered
    <2> QED BY <2>1, <2>2, NoiseStaged, Zenon
  <1>13. ASSUME NEW f \in Fds, RefuseHandshake(f) \/ Disconnect(f) PROVE NoiseInv'
    <2>1. conn' = [g \in Fds |-> IF g \in {f} THEN Free ELSE conn[g]]
      BY <1>13, Zenon DEF RefuseHandshake, Disconnect, Close
    <2> QED BY <2>1, NoiseClosed, Zenon
  <1>14. CASE StopWorkers
    <2>1. conn' = [g \in Fds |-> IF g \in Range(proxyQueue) THEN Free ELSE conn[g]]
      BY <1>14, Zenon DEF StopWorkers
    <2> QED BY <2>1, NoiseClosed, Zenon
  <1> QED
    BY Zenon, <1>1, <1>2, <1>3, <1>4, <1>5, <1>6, <1>7, <1>8, <1>9, <1>10, <1>11, <1>12,
       <1>13, <1>14 DEF Next

\* The invariant holds in every reachable state.
LEMMA AlwaysInv == Spec => [](Inv /\ NoiseInv)
  <1>1. Init => Inv /\ NoiseInv
    <2>1. Init => NoiseInv BY DEF Init, NoiseInv, Free
    <2> QED BY <2>1, InitInv, Zenon
  <1>2. Inv /\ NoiseInv /\ [Next]_vars => (Inv /\ NoiseInv)'
    BY NextInv, NoiseNext, Zenon
  <1> QED BY <1>1, <1>2, PTL DEF Spec

\* The accept gate of Server::run: whatever the interleaving of the acceptor,
\* which adds the counters up one by one, with the readers and workers that move
\* connections from one to the next, an admitted connection fits max_clients, an
\* SV2 one its three quarters of it, and proxy_queue_ stays within its limit.
THEOREM AdmissionTheorem == Spec => []AdmissionRespectsLimits
  <1>1. Inv => AdmissionRespectsLimits
    BY Zenon DEF Inv, CountingInv, QueueInv, AdmissionRespectsLimits
  <1> QED BY <1>1, AlwaysInv, PTL

\* incomplete_noise_handshakes_ is the number of Noise connections that were
\* admitted and have not completed their handshake.
THEOREM SlotsTheorem == Spec => []SlotsAreHeld
  <1>1. Inv => SlotsAreHeld BY Zenon DEF Inv
  <1> QED BY <1>1, AlwaysInv, PTL

\* What the invariant says when every worker has stopped.
LEMMA InvStopsClean == ASSUME Inv PROVE StopsClean
  <1> USE DEF Inv
  <1> SUFFICES ASSUME \A w \in Workers : worker[w].at = "stopped"
               PROVE  /\ \A f \in Fds : conn[f].stage = "free"
                      /\ clients = {} /\ proxyQueue = <<>> /\ noiseSlots = 0
    BY Zenon DEF StopsClean
  <1>1. stopping = "workers" BY Idle, Zenon DEF WorkerInv
  <1>2. acceptor.at = "listen" /\ proxyQueue = <<>>
    BY <1>1, Zenon DEF AcceptorInv, ReaderInv
  <1>3. ASSUME NEW f \in Fds PROVE conn[f].stage = "free"
    <2>1. conn[f] \in Conns /\ conn[f].stage \in Stages /\ conn[f].worker \in Workers
      BY Zenon DEF TypeOK, Conns
    <2>2. conn[f].stage /= "accepted" BY <1>2, Zenon DEF AcceptorInv
    <2>3. conn[f].stage /= "queued"
      <3>1. In({"queued"}) = {} BY <1>2 DEF QueueInv, Lists
      <3> QED BY <3>1, Zenon DEF In
    <2>4. conn[f].stage /= "reading" BY <1>1, Zenon DEF ReaderInv
    <2>5. conn[f].stage \notin Delivered \cup Registered
      <3>1. At(conn[f].worker, Delivered \cup Registered) = {}
        BY <2>1, Zenon DEF WorkerInv
      <3> QED BY <3>1, Zenon DEF At
    <2> QED BY <2>1, <2>2, <2>3, <2>4, <2>5, Zenon DEF Stages, Queued
  <1>4. clients = {} BY <1>3, Zenon DEF ClientsInv, In, Registered
  <1>5. noiseSlots = 0
    <2>1. {f \in Fds : HoldsSlot(f)} = {} BY <1>3, Zenon DEF HoldsSlot
    <2>2. Slots(Fds) = 0 BY <2>1, FS_EmptySet, Zenon DEF Slots
    <2> QED BY <1>2, <2>2 DEF SlotsAreHeld
  <1> QED BY <1>2, <1>3, <1>4, <1>5, Zenon

\* When every worker has stopped, no descriptor is open, no session registered,
\* nothing queued and no handshake slot taken.
THEOREM StopsCleanTheorem == Spec => []StopsClean
  <1>1. Inv => StopsClean BY InvStopsClean, Zenon
  <1> QED BY <1>1, AlwaysInv, PTL
=============================================================================

------------------------------ MODULE Server ------------------------------
(***************************************************************************)
(* The network server (net/server.cpp): how a connection is accepted,      *)
(* admitted, handed to a reactor worker, adopted, removed, and what a      *)
(* shutdown leaves behind.  The acceptor, the PROXY header readers and the *)
(* workers are threads that share counters and queues.  The acceptor sums  *)
(* the counters one at a time, without a lock, while connections move from *)
(* one to the next.                                                        *)
(*                                                                         *)
(* What a connection says is an input: SV1 lines and SV2 frames are the    *)
(* sessions' (StratumSession, Sv2Session), bytes the transport's           *)
(* (Transport).  Here a read keeps the connection or ends it, and may      *)
(* complete a Noise handshake.                                             *)
(***************************************************************************)
EXTENDS Integers, Sequences, FiniteSets, Functions

CONSTANTS
  MaxFd,             \* bound: file descriptors, 1..MaxFd
  WorkerCount,       \* resolve_worker_count
  Readers,           \* the PROXY reader threads, {} when it is not configured
  MaxClients,        \* the values max_clients takes
  ProxyQueueLimit,   \* kMaxProxyQueue
  NoiseLimit,        \* kMaxIncompleteNoiseHandshakes
  Configured,        \* SV2 protocols with ports configured
  NoFd

Protocols == {"sv1", "noise", "plaintext"}
Fds == 1..MaxFd
Workers == 1..WorkerCount

ASSUME ServerAssumption ==
  /\ MaxFd \in Nat \ {0} /\ WorkerCount \in Nat \ {0}
  /\ MaxClients \subseteq Nat /\ MaxClients /= {}
  /\ IsFiniteSet(Readers)
  /\ ProxyQueueLimit \in Nat /\ NoiseLimit \in Nat
  /\ Configured \subseteq Protocols \ {"sv1"}
  /\ NoFd \notin Fds

VARIABLES
  listening,    \* protocols with bound listeners
  sv2State,     \* what Pool reports of authenticated SV2
  maxClients,   \* max_clients_
  conn,         \* per fd: the stage it is in, its protocol, its worker
  acceptor,     \* the acceptor: where it is, its fd, the sum it has counted
  nextWorker,   \* next_worker
  proxyQueue,   \* proxy_queue_
  proxyPending, \* proxy_pending_
  reader,       \* per reader: where it is and its fd
  incoming,     \* per worker: incoming, guarded by queue_mutex
  pending,      \* per worker: pending
  poked,        \* per worker: its eventfd is readable
  worker,       \* per worker: where it is and the batch it adopts
  clients,      \* fds whose session is in Pool::clients_
  noiseSlots,   \* incomplete_noise_handshakes_
  stopping      \* how far the shutdown has come

vars == <<listening, sv2State, maxClients, conn, acceptor, nextWorker,
          proxyQueue, proxyPending, reader, incoming, pending, poked, worker,
          clients, noiseSlots, stopping>>

\* Stages: free, accepted, queued, reading, incoming, batched, registered,
\* handshaking, serving.
Free == [stage |-> "free", protocol |-> "sv1", worker |-> 1]
Listen == [at |-> "listen", fd |-> NoFd, protocol |-> "sv1", proxied |-> FALSE,
           counted |-> 0, sum |-> 0, max |-> 0, worker |-> 1]
Waiting == [at |-> "wait", fd |-> NoFd, worker |-> 1]
Polling == [at |-> "poll", batch |-> <<>>]

Init ==
  /\ listening = {} /\ sv2State = "disabled"
  /\ maxClients \in MaxClients
  /\ conn = [f \in Fds |-> Free]
  /\ acceptor = [Listen EXCEPT !.at = "starting"]
  /\ nextWorker = 0
  /\ proxyQueue = <<>> /\ proxyPending = 0
  /\ reader = [r \in Readers |-> Waiting]
  /\ incoming = [w \in Workers |-> <<>>]
  /\ pending = [w \in Workers |-> 0]
  /\ poked = [w \in Workers |-> FALSE]
  /\ worker = [w \in Workers |-> Polling]
  /\ clients = {} /\ noiseSlots = 0 /\ stopping = "no"

------------------------------------------------------------------------------
\* Start-up

\* Authenticated SV2 needs its three files, a certificate that is valid now and
\* every one of its ports.  A failure leaves it unavailable and SV1 running.
StartAuthenticated(configured, loads, binds) ==
  [listens |-> IF configured /\ loads /\ binds THEN {"noise"} ELSE {},
   state |-> CASE ~configured -> "disabled"
               [] configured /\ loads /\ binds -> "ready"
               [] OTHER -> "unavailable"]

\* The plaintext listeners are bound together or not at all.
StartPlaintext(configured, binds) ==
  IF configured /\ binds THEN {"plaintext"} ELSE {}

\* SV1 must bind, or the program ends.
Start ==
  /\ acceptor.at = "starting"
  /\ \E loads, binds, plainBinds \in BOOLEAN :
       LET noise == StartAuthenticated("noise" \in Configured, loads, binds) IN
         /\ listening' = {"sv1"} \cup noise.listens
                           \cup StartPlaintext("plaintext" \in Configured, plainBinds)
         /\ sv2State' = noise.state
  /\ acceptor' = Listen
  /\ UNCHANGED <<maxClients, conn, nextWorker, proxyQueue, proxyPending,
                 reader, incoming, pending, poked, worker, clients, noiseSlots, stopping>>

\* The configuration watcher stores a new max_clients.
ReloadConfig ==
  /\ \E m \in MaxClients \ {maxClients} : maxClients' = m
  /\ UNCHANGED <<listening, sv2State, conn, acceptor, nextWorker, proxyQueue,
                 proxyPending, reader, incoming, pending, poked, worker, clients,
                 noiseSlots, stopping>>

------------------------------------------------------------------------------
\* The acceptor

Sv2AdmissionLimit(max) == (max * 3) \div 4

\* accept() on a listener returns the lowest descriptor that is free.
Accept ==
  /\ acceptor.at = "listen" /\ stopping = "no"
  /\ \E f \in Fds, p \in listening, trusted \in BOOLEAN :
       /\ conn[f].stage = "free"
       /\ \A g \in 1..(f - 1) : conn[g].stage /= "free"
       /\ trusted => p = "sv1" /\ Readers /= {}
       /\ conn' = [conn EXCEPT ![f] = [Free EXCEPT !.stage = "accepted", !.protocol = p]]
       /\ acceptor' = [Listen EXCEPT !.at = "count", !.fd = f, !.protocol = p,
                                     !.proxied = trusted]
  /\ UNCHANGED <<listening, sv2State, maxClients, nextWorker, proxyQueue,
                 proxyPending, reader, incoming, pending, poked, worker, clients,
                 noiseSlots, stopping>>

\* Fault: the registered clients are counted first.
CounterBackwards(i) ==
  CASE i = 0 -> Cardinality(clients)
    [] i \in Workers -> pending[i]
    [] i = WorkerCount + 1 -> proxyPending

\* The counters in the order they are read: proxy_pending_, each worker's
\* pending, the registered clients.
Counter(i) ==
  CASE i = 0 -> proxyPending
    [] i \in Workers -> pending[i]
    [] i = WorkerCount + 1 -> Cardinality(clients)

CountNext ==
  /\ acceptor.at = "count" /\ acceptor.counted <= WorkerCount + 1
  /\ acceptor' = [acceptor EXCEPT !.sum = @ + Counter(acceptor.counted),
                                  !.counted = @ + 1]
  /\ UNCHANGED <<listening, sv2State, maxClients, conn, nextWorker,
                 proxyQueue, proxyPending, reader, incoming, pending, poked, worker,
                 clients, noiseSlots, stopping>>

\* The checks of an accepted connection against what was counted, then the
\* handshake slot of a Noise one.  A refused descriptor is closed.
Refused ==
  \/ acceptor.sum >= maxClients
  \/ acceptor.protocol /= "sv1" /\ acceptor.sum >= Sv2AdmissionLimit(maxClients)
  \/ acceptor.protocol = "noise" /\ noiseSlots >= NoiseLimit

Decide ==
  /\ acceptor.at = "count" /\ acceptor.counted = WorkerCount + 2
  /\ IF Refused
     THEN /\ conn' = [conn EXCEPT ![acceptor.fd] = Free]
          /\ acceptor' = Listen
          /\ UNCHANGED noiseSlots
     ELSE /\ acceptor' = [acceptor EXCEPT !.at = "admit", !.max = maxClients]
          /\ noiseSlots' = noiseSlots + (IF acceptor.protocol = "noise" THEN 1 ELSE 0)
          /\ UNCHANGED conn
  /\ UNCHANGED <<listening, sv2State, maxClients, nextWorker, proxyQueue,
                 proxyPending, reader, incoming, pending, poked, worker, clients, stopping>>

\* deliver_to_worker under queue_mutex: queue and count, the poke comes after.
Deliver(w, f) ==
  /\ incoming' = [incoming EXCEPT ![w] = Append(@, f)]
  /\ pending' = [pending EXCEPT ![w] = @ + 1]

\* An admitted connection goes to the next worker: by way of the header readers
\* when its source is trusted, unless their queue is full.
Admit ==
  /\ acceptor.at = "admit"
  /\ LET f == acceptor.fd
         w == 1 + nextWorker
     IN /\ nextWorker' = (nextWorker + 1) % WorkerCount
        /\ IF ~acceptor.proxied
           THEN /\ Deliver(w, f)
                /\ conn' = [conn EXCEPT ![f].stage = "incoming", ![f].worker = w]
                /\ acceptor' = [acceptor EXCEPT !.at = "poke", !.worker = w]
                /\ UNCHANGED proxyQueue
           ELSE /\ IF Len(proxyQueue) >= ProxyQueueLimit
                   THEN /\ conn' = [conn EXCEPT ![f] = Free]
                        /\ acceptor' = Listen
                        /\ UNCHANGED proxyQueue
                   ELSE /\ proxyQueue' = Append(proxyQueue, f)
                        /\ conn' = [conn EXCEPT ![f].stage = "queued", ![f].worker = w]
                        /\ acceptor' = [acceptor EXCEPT !.at = "pend"]
                /\ UNCHANGED <<incoming, pending>>
  /\ UNCHANGED <<listening, sv2State, maxClients, proxyPending, reader,
                 poked, worker, clients, noiseSlots, stopping>>

\* The write to the worker's eventfd; the count of a queued connection, which a
\* reader may by now have finished with.
AfterAdmit ==
  /\ \/ /\ acceptor.at = "poke"
        /\ poked' = [poked EXCEPT ![acceptor.worker] = TRUE]
        /\ UNCHANGED proxyPending
     \/ /\ acceptor.at = "pend"
        /\ proxyPending' = proxyPending + 1
        /\ UNCHANGED poked
  /\ acceptor' = Listen
  /\ UNCHANGED <<listening, sv2State, maxClients, conn, nextWorker,
                 proxyQueue, reader, incoming, pending, worker, clients, noiseSlots,
                 stopping>>

------------------------------------------------------------------------------
\* The PROXY header readers

\* What read_proxy_header makes of the first bytes: nothing in time or no marker
\* is a direct client, as are a LOCAL header and a v1 line without an address; a
\* header that stops short, is too long or does not parse is malformed.
ProxyHeaders == {"silent", "none", "v1", "v1 unknown", "v1 unended", "v2", "v2 local",
                 "v2 truncated", "v2 unparsable"}
ReadProxyHeader(h) ==
  CASE h \in {"silent", "none", "v1 unknown", "v2 local"} -> "direct"
    [] h \in {"v1", "v2"} -> "real address"
    [] h \in {"v1 unended", "v2 truncated", "v2 unparsable"} -> "malformed"

ReaderPop(r) ==
  /\ reader[r].at = "wait" /\ proxyQueue /= <<>>
  /\ reader' = [reader EXCEPT ![r] = [at |-> "read", fd |-> Head(proxyQueue),
                                           worker |-> conn[Head(proxyQueue)].worker]]
  /\ conn' = [conn EXCEPT ![Head(proxyQueue)].stage = "reading"]
  /\ proxyQueue' = Tail(proxyQueue)
  /\ UNCHANGED <<listening, sv2State, maxClients, acceptor, nextWorker,
                 proxyPending, incoming, pending, poked, worker, clients, noiseSlots,
                 stopping>>

\* The blocking read, then the close or the delivery.
ReaderRead(r) ==
  /\ reader[r].at = "read"
  /\ \E h \in ProxyHeaders :
       LET f == reader[r].fd IN
         IF ReadProxyHeader(h) = "malformed"
         THEN /\ conn' = [conn EXCEPT ![f] = Free]
              /\ reader' = [reader EXCEPT ![r] = [Waiting EXCEPT !.at = "done"]]
              /\ UNCHANGED <<incoming, pending>>
         ELSE /\ Deliver(reader[r].worker, f)
              /\ conn' = [conn EXCEPT ![f].stage = "incoming"]
              /\ reader' = [reader EXCEPT ![r].at = "poke"]
  /\ UNCHANGED <<listening, sv2State, maxClients, acceptor, nextWorker,
                 proxyQueue, proxyPending, poked, worker, clients, noiseSlots, stopping>>

ReaderFinish(r) ==
  /\ \/ /\ reader[r].at = "poke"
        /\ poked' = [poked EXCEPT ![reader[r].worker] = TRUE]
        /\ reader' = [reader EXCEPT ![r] = [Waiting EXCEPT !.at = "done"]]
        /\ UNCHANGED proxyPending
     \/ /\ reader[r].at = "done"
        /\ proxyPending' = proxyPending - 1
        /\ reader' = [reader EXCEPT ![r] = Waiting]
        /\ UNCHANGED poked
  /\ UNCHANGED <<listening, sv2State, maxClients, conn, acceptor, nextWorker,
                 proxyQueue, incoming, pending, worker, clients, noiseSlots, stopping>>

------------------------------------------------------------------------------
\* The reactor workers

\* The eventfd is readable: read it empty, then adopt.
Wake(w) ==
  /\ worker[w].at = "poll" /\ poked[w]
  /\ poked' = [poked EXCEPT ![w] = FALSE]
  /\ worker' = [worker EXCEPT ![w].at = "drain"]
  /\ UNCHANGED <<listening, sv2State, maxClients, conn, acceptor, nextWorker,
                 proxyQueue, proxyPending, reader, incoming, pending, clients, noiseSlots,
                 stopping>>

\* Fault: the worker takes one connection each time it is woken.
TakeOne(w) ==
  /\ worker[w].at = "drain"
  /\ worker' = [worker EXCEPT ![w] = IF incoming[w] = <<>> THEN Polling
                                     ELSE [at |-> "adopt", batch |-> <<incoming[w][1]>>]]
  /\ conn' = [f \in Fds |-> IF incoming[w] /= <<>> /\ f = incoming[w][1]
                            THEN [conn[f] EXCEPT !.stage = "batched"] ELSE conn[f]]
  /\ incoming' = [incoming EXCEPT ![w] = IF @ = <<>> THEN @ ELSE Tail(@)]
  /\ UNCHANGED <<listening, sv2State, maxClients, acceptor, nextWorker,
                 proxyQueue, proxyPending, reader, pending, poked, clients, noiseSlots,
                 stopping>>

\* drain_incoming takes the whole queue under queue_mutex.
TakeBatch(w) ==
  /\ worker[w].at = "drain"
  /\ worker' = [worker EXCEPT ![w] = IF incoming[w] = <<>> THEN Polling
                                     ELSE [at |-> "adopt", batch |-> incoming[w]]]
  /\ conn' = [f \in Fds |-> IF f \in Range(incoming[w])
                            THEN [conn[f] EXCEPT !.stage = "batched"] ELSE conn[f]]
  /\ incoming' = [incoming EXCEPT ![w] = <<>>]
  /\ UNCHANGED <<listening, sv2State, maxClients, acceptor, nextWorker,
                 proxyQueue, proxyPending, reader, pending, poked, clients, noiseSlots,
                 stopping>>

\* The descriptors that hold a Noise handshake slot among fs.
HoldsSlot(f) ==
  /\ conn[f].protocol = "noise"
  /\ conn[f].stage \in {"incoming", "batched", "registered", "handshaking"}
Slots(fs) == Cardinality({f \in fs : HoldsSlot(f)})

\* Fault: a removal keeps the handshake slot.
CloseKeepingSlot(fs) ==
  /\ conn' = [f \in Fds |-> IF f \in fs THEN Free ELSE conn[f]]
  /\ clients' = clients \ fs
  /\ UNCHANGED noiseSlots

\* Release the slots, unregister the sessions and close the descriptors.
Close(fs) ==
  /\ conn' = [f \in Fds |-> IF f \in fs THEN Free ELSE conn[f]]
  /\ clients' = clients \ fs
  /\ noiseSlots' = noiseSlots - Slots(fs)

\* The worker has dealt with the first of its batch and no longer counts it.
Adopted(w) ==
  /\ worker' = [worker EXCEPT ![w] = IF Len(@.batch) = 1 THEN Polling
                                     ELSE [at |-> "adopt", batch |-> Tail(@.batch)]]
  /\ pending' = [pending EXCEPT ![w] = @ - 1]

\* The session is registered with the pool, or something throws before that.
Adopt(w) ==
  /\ worker[w].at = "adopt"
  /\ LET f == Head(worker[w].batch) IN
       /\ conn[f].stage = "batched"
       /\ \/ /\ conn' = [conn EXCEPT ![f].stage = "registered"]
             /\ clients' = clients \cup {f}
             /\ UNCHANGED <<worker, pending, noiseSlots>>
          \/ Close({f}) /\ Adopted(w)
  /\ UNCHANGED <<listening, sv2State, maxClients, acceptor, nextWorker,
                 proxyQueue, proxyPending, reader, incoming, poked, stopping>>

\* The descriptor is added to epoll, or that fails.
Register(w) ==
  /\ worker[w].at = "adopt"
  /\ LET f == Head(worker[w].batch) IN
       /\ conn[f].stage = "registered"
       /\ \/ /\ conn' = [conn EXCEPT ![f].stage = IF conn[f].protocol = "noise"
                                                  THEN "handshaking" ELSE "serving"]
             /\ UNCHANGED <<clients, noiseSlots>>
          \/ Close({f})
  /\ Adopted(w)
  /\ UNCHANGED <<listening, sv2State, maxClients, acceptor, nextWorker,
                 proxyQueue, proxyPending, reader, incoming, poked, stopping>>

\* A read completes the handshake.  The slot is free again and authenticated SV2 is reported ready.
CompleteHandshake(f) ==
  /\ conn[f].stage = "handshaking" /\ worker[conn[f].worker].at = "poll"
  /\ conn' = [conn EXCEPT ![f].stage = "serving"]
  /\ noiseSlots' = noiseSlots - 1
  /\ sv2State' = "ready"
  /\ UNCHANGED <<listening, maxClients, acceptor, nextWorker, proxyQueue,
                 proxyPending, reader, incoming, pending, poked, worker, clients, stopping>>

\* The handshake fails because the certificate is expired or not valid yet:
\* reported before the removal.
RefuseHandshake(f) ==
  /\ conn[f].stage = "handshaking" /\ worker[conn[f].worker].at = "poll"
  /\ Close({f})
  /\ sv2State' = "unavailable"
  /\ UNCHANGED <<listening, maxClients, acceptor, nextWorker, proxyQueue,
                 proxyPending, reader, incoming, pending, poked, worker, stopping>>

\* A read or the sweep removes the connection: end of stream, an error, too many
\* protocol errors, an over-long line, a session or transport that wants to
\* close, a handler that throws, a silent client, one that never authorized.
Disconnect(f) ==
  /\ conn[f].stage \in {"handshaking", "serving"} /\ worker[conn[f].worker].at = "poll"
  /\ Close({f})
  /\ UNCHANGED <<listening, sv2State, maxClients, acceptor, nextWorker,
                 proxyQueue, proxyPending, reader, incoming, pending, poked, worker,
                 stopping>>

\* Fault: the sweep times out clients that have completed their handshake.
ServingTimeout(f) ==
  conn[f].stage = "serving" /\ Disconnect(f)

\* The sweep finds a handshake that took longer than kNoiseHandshakeTimeout.
HandshakeTimeout(f) ==
  conn[f].stage = "handshaking" /\ Disconnect(f)

------------------------------------------------------------------------------
\* Shutdown

\* The acceptor leaves its loop and asks the readers to stop.
StopAccepting ==
  /\ acceptor.at = "listen" /\ stopping = "no"
  /\ stopping' = "readers"
  /\ UNCHANGED <<listening, sv2State, maxClients, conn, acceptor, nextWorker,
                 proxyQueue, proxyPending, reader, incoming, pending, poked, worker,
                 clients, noiseSlots>>

\* A reader between two connections stops, whether or not more are queued.
ReaderStop(r) ==
  /\ stopping = "readers" /\ reader[r].at = "wait"
  /\ reader' = [reader EXCEPT ![r].at = "stopped"]
  /\ UNCHANGED <<listening, sv2State, maxClients, conn, acceptor, nextWorker,
                 proxyQueue, proxyPending, incoming, pending, poked, worker, clients,
                 noiseSlots, stopping>>

\* The readers are joined: what is still queued is closed, the workers are woken
\* to stop.
StopWorkers ==
  /\ stopping = "readers" /\ \A r \in Readers : reader[r].at = "stopped"
  /\ conn' = [f \in Fds |-> IF f \in Range(proxyQueue) THEN Free ELSE conn[f]]
  /\ proxyQueue' = <<>> /\ proxyPending' = 0
  /\ poked' = [w \in Workers |-> TRUE]
  /\ stopping' = "workers"
  /\ UNCHANGED <<listening, sv2State, maxClients, acceptor, nextWorker, reader,
                 incoming, pending, worker, clients, noiseSlots>>

\* Fault: a worker that stops drops its connections and forgets the ones it has
\* not adopted.
DroppedAdopted(w) ==
  {f \in Fds : conn[f].worker = w /\ conn[f].stage \in {"handshaking", "serving"}}

\* What a worker that stops closes: its connections, then what was delivered to
\* it and never adopted.
Dropped(w) ==
  {f \in Fds : conn[f].worker = w
               /\ conn[f].stage \in {"incoming", "handshaking", "serving"}}

WorkerStop(w) ==
  /\ stopping = "workers" /\ worker[w].at = "poll"
  /\ Close(Dropped(w))
  /\ incoming' = [incoming EXCEPT ![w] = <<>>]
  /\ pending' = [pending EXCEPT ![w] = 0]
  /\ worker' = [worker EXCEPT ![w].at = "stopped"]
  /\ UNCHANGED <<listening, sv2State, maxClients, acceptor, nextWorker,
                 proxyQueue, proxyPending, reader, poked, stopping>>

\* The workers are joined and the listeners closed.
Stopped ==
  /\ stopping = "workers" /\ \A w \in Workers : worker[w].at = "stopped"
  /\ listening' = {}
  /\ UNCHANGED <<sv2State, maxClients, conn, acceptor, nextWorker, proxyQueue,
                 proxyPending, reader, incoming, pending, poked, worker, clients,
                 noiseSlots, stopping>>

------------------------------------------------------------------------------
Next ==
  \/ Start \/ ReloadConfig
  \/ Accept \/ CountNext \/ Decide \/ Admit \/ AfterAdmit
  \/ \E r \in Readers : ReaderPop(r) \/ ReaderRead(r) \/ ReaderFinish(r) \/ ReaderStop(r)
  \/ \E w \in Workers : Wake(w) \/ TakeBatch(w) \/ Adopt(w) \/ Register(w) \/ WorkerStop(w)
  \/ \E f \in Fds : CompleteHandshake(f) \/ RefuseHandshake(f) \/ Disconnect(f)
  \/ StopAccepting \/ StopWorkers \/ Stopped

\* Every thread keeps running.  A header read ends within kProxyHeaderTimeoutMs.
\* A worker sweeps at the end of each turn of its loop, however busy it is, so a
\* handshake that stays incomplete is removed even if adoptions keep coming.
Fairness ==
  /\ WF_vars(CountNext) /\ WF_vars(Decide) /\ WF_vars(Admit) /\ WF_vars(AfterAdmit)
  /\ \A r \in Readers : WF_vars(ReaderPop(r) \/ ReaderRead(r) \/ ReaderFinish(r))
                        /\ WF_vars(ReaderStop(r))
  /\ \A w \in Workers : WF_vars(Wake(w) \/ TakeBatch(w) \/ Adopt(w) \/ Register(w))
                        /\ WF_vars(WorkerStop(w))
  /\ \A f \in Fds : SF_vars(HandshakeTimeout(f))
  /\ WF_vars(StopWorkers) /\ WF_vars(Stopped)

Spec == Init /\ [][Next]_vars /\ Fairness

------------------------------------------------------------------------------
\* The descriptors that take up a client slot: all that were admitted and are
\* neither refused nor closed.
Occupied == {f \in Fds : conn[f].stage \notin {"free", "accepted"}}

\* The accept gate of Server::run.  When a connection is admitted, it and all
\* others that are admitted and not yet closed fit the max_clients that was read,
\* and an SV2 connection leaves the last quarter to SV1, although the counters
\* were read one by one while connections moved between them.  The queue of the
\* header readers stays within kMaxProxyQueue.
AdmissionRespectsLimits ==
  /\ acceptor.at = "admit" =>
       /\ Cardinality(Occupied) < acceptor.max
       /\ acceptor.protocol /= "sv1" => Cardinality(Occupied) < Sv2AdmissionLimit(acceptor.max)
  /\ Len(proxyQueue) <= ProxyQueueLimit

\* incomplete_noise_handshakes_: a slot is held by exactly the Noise connections
\* that were admitted and have not completed their handshake, whichever way a
\* connection leaves: adoption failure, removal, time-out or shutdown.
SlotsAreHeld ==
  noiseSlots = Slots(Fds) + (IF acceptor.at = "admit" /\ acceptor.protocol = "noise"
                             THEN 1 ELSE 0)

\* The shutdown of Server::run.  When the workers are joined no descriptor is
\* open, no session registered, nothing queued.
StopsClean ==
  (\A w \in Workers : worker[w].at = "stopped") =>
     /\ \A f \in Fds : conn[f].stage = "free"
     /\ clients = {} /\ proxyQueue = <<>> /\ noiseSlots = 0

\* Every accepted connection is refused, closed or served: none stays in a queue
\* that nobody looks at, whichever thread delivered it and whenever the worker
\* was woken.
AcceptedIsServed ==
  \A f \in Fds : conn[f].stage = "accepted" ~>
                   conn[f].stage \in {"free", "handshaking", "serving"}

\* Full handshake slots do not stay full: clients that never finish a handshake
\* cannot keep new Noise clients out.
SlotsRecycle == noiseSlots = NoiseLimit ~> noiseSlots < NoiseLimit
==============================================================================

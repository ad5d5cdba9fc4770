------------------------ MODULE WorkPublication_proof ------------------------
(***************************************************************************)
(* The safety properties of WorkPublication, and that the pool implements  *)
(* the feed of WorkPublicationFeed, for any sessions, jobs and bounds.     *)
(***************************************************************************)
EXTENDS WorkPublicationFeed, SequenceTheorems, TLAPS

USE DEF node, shared, members, sessions, thread, locals, publisher

\* The state the constructor of Pool leaves is well typed.
LEMMA InitTypeOK == Init => TypeOK
  <1> SUFFICES ASSUME Init PROVE TypeOK
    BY Zenon
  <1>1. /\ announced \in Seq(Blocks) /\ log \in Seq(Jobs)
        /\ publication_queue \in Seq(Publications)
    BY DEF Init
  <1>2. job \in [Broadcasters -> Jobs] /\ pub \in Publications
    BY ConstantsAssumption, Zenon DEF Init, Jobs, Publications
  <1>3. pc \in [Broadcasters -> ThreadStates]
    BY Zenon DEF Init, ThreadStates
  <1> QED
    BY <1>1, <1>2, <1>3, ConstantsAssumption, Zenon DEF Init, TypeOK

\* Steps of the node.
LEMMA NodeTypeOK == TypeOK /\ Node => TypeOK'
  <1> SUFFICES ASSUME TypeOK, Node PROVE TypeOK'
    BY Zenon
  <1>1. ASSUME NEW b \in Blocks, NodeMoves(b) PROVE TypeOK'
    <2>1. announced' \in Seq(Blocks)
      <3>1. Append(announced, b) \in Seq(Blocks)
        BY DEF TypeOK
      <3> QED
        BY <1>1, <3>1, Zenon DEF TypeOK, NodeMoves
    <2> QED
      BY <1>1, <2>1 DEF TypeOK, NodeMoves
  <1>2. CASE TemplateChanges
    BY <1>2 DEF TypeOK, TemplateChanges
  <1> QED
    BY <1>1, <1>2, Zenon DEF Node

\* Steps of broadcast_job.
LEMMA FanoutTypeOK ==
  ASSUME NEW b \in Broadcasters, TypeOK, Fanout(b) PROVE TypeOK'
  <1>1. CASE Publish(b)
    <2>1. log' \in Seq(Jobs)
      <3>1. log \in Seq(Jobs) /\ job[b] \in Jobs
        BY Zenon DEF TypeOK
      <3>2. Append(log, job[b]) \in Seq(Jobs)
        BY <3>1, AppendProperties, Zenon
      <3> QED
        BY <1>1, <3>1, <3>2, Zenon DEF Publish
    <2>2. pc' \in [Broadcasters -> ThreadStates]
      BY <1>1, Zenon DEF TypeOK, Publish, AfterRefusal, ThreadStates
    <2>3. stamp' \in [Broadcasters -> Nat]
      <3>1. Len(log) \in Nat
        BY LenProperties, Zenon DEF TypeOK
      <3> QED
        BY <1>1, <3>1 DEF TypeOK, Publish
    <2> QED
      BY <1>1, <2>1, <2>2, <2>3, Zenon DEF TypeOK, Publish
  <1>2. CASE CopyClients(b)
    <2>1. pc' \in [Broadcasters -> ThreadStates]
      BY <1>2, Zenon DEF TypeOK, CopyClients, ThreadStates
    <2> QED
      BY <1>2, <2>1, Zenon DEF TypeOK, CopyClients
  <1>3. CASE FanoutDone(b)
    <2>1. pc' \in [Broadcasters -> ThreadStates]
      BY <1>3, Zenon DEF TypeOK, FanoutDone, ThreadStates
    <2> QED
      BY <1>3, <2>1, Zenon DEF TypeOK, FanoutDone
  <1>4. ASSUME NEW c \in Sv1, NotifySv1(b, c) PROVE TypeOK'
    <2>1. c \in Clients /\ stamp[b] \in Nat /\ clean[b] \in BOOLEAN
      BY Zenon DEF TypeOK, Clients
    <2>2. /\ last_sequence' \in [Clients -> Nat] /\ work' \in [Clients -> Nat]
          /\ clean_sent' \in [Clients -> BOOLEAN]
          /\ recipients' \in [Broadcasters -> SUBSET Clients]
      BY <1>4, <2>1, Zenon DEF TypeOK, NotifySv1
    <2>3. UNCHANGED <<node, log, members, shared, new_block_flag,
                      publication_queue, ready, hot, pc, job, stamp, clean,
                      locals, publisher, refresh_plan>>
      BY <1>4, Zenon DEF NotifySv1
    <2> QED
      BY <2>2, <2>3, Zenon DEF TypeOK
  <1>5. ASSUME NEW c \in Sv2, EnqueueSv2(b, c) PROVE TypeOK'
    <2>1. publication_queue' \in Seq(Publications)
      <3>1. CASE c \notin clients
        BY <1>5, <3>1, Zenon DEF TypeOK, EnqueueSv2
      <3>2. CASE c \in clients /\ Queued(c)
        <4> DEFINE k == Place(c)
        <4>1. k \in DOMAIN publication_queue
          BY <3>2, Zenon DEF Queued, Place
        <4>2. Coalesced(publication_queue[k], b) \in Publications
          <5>1. publication_queue[k] \in Publications
            BY <4>1, ElementOfSeq DEF TypeOK
          <5> QED
            BY <5>1, Zenon DEF TypeOK, Coalesced, Publications
        <4> QED
          BY <1>5, <3>2, <4>1, <4>2, ExceptSeq DEF TypeOK, EnqueueSv2
      <3>3. CASE c \in clients /\ ~Queued(c)
        <4>1. [to |-> c, seq |-> stamp[b], clean |-> clean[b]] \in Publications
          BY Zenon DEF TypeOK, Publications, Clients
        <4> QED
          BY <1>5, <3>3, <4>1, AppendProperties, Zenon DEF TypeOK, EnqueueSv2
      <3> QED
        BY <3>1, <3>2, <3>3, Zenon
    <2> QED
      BY <1>5, <2>1, Zenon DEF TypeOK, EnqueueSv2
  <1> QED
    BY <1>1, <1>2, <1>3, <1>4, <1>5, Zenon DEF Fanout

\* The other steps of the work thread.
LEMMA WorkTypeOK ==
  TypeOK /\ (WorkThread \/ WorkWake \/ WorkTimeout) => TypeOK'
  <1> SUFFICES ASSUME TypeOK, WorkThread \/ WorkWake \/ WorkTimeout
               PROVE  TypeOK'
    BY Zenon
  <1>1. ASSUME NEW due \in BOOLEAN, WorkDecide(due) PROVE TypeOK'
    <2>1. pc' \in [Broadcasters -> ThreadStates]
      BY <1>1 DEF TypeOK, WorkDecide, Broadcasters, ThreadStates
    <2>2. seen_prev' \in Blocks
      <3>1. CASE log = << >>
        BY <1>1, <3>1, Zenon DEF TypeOK, WorkDecide
      <3>2. CASE log # << >>
        <4>1. Current \in Jobs
          BY <3>2, LenProperties, ElementOfSeq, EmptySeq DEF TypeOK, Current
        <4> QED
          BY <1>1, <4>1, Zenon DEF TypeOK, WorkDecide, Jobs
      <3> QED
        BY <3>1, <3>2, Zenon
    <2> QED
      BY <1>1, <2>1, <2>2, Zenon DEF TypeOK, WorkDecide
  <1>2. CASE WorkFails
    <2>1. pc' \in [Broadcasters -> ThreadStates]
      BY <1>2, Zenon DEF TypeOK, WorkFails, Fails, Broadcasters, ThreadStates
    <2> QED
      BY <1>2, <2>1 DEF TypeOK, WorkFails, Fails
  <1>3. CASE WorkProbe
    <2>1. pc' \in [Broadcasters -> ThreadStates]
      BY <1>3, Zenon DEF TypeOK, WorkProbe, Broadcasters, ThreadStates
    <2> QED
      BY <1>3, <2>1, Zenon DEF TypeOK, WorkProbe
  <1>4. CASE WorkFetch
    <2>1. pc' \in [Broadcasters -> ThreadStates]
      BY <1>4, Zenon DEF TypeOK, WorkFetch, Broadcasters, ThreadStates
    <2>2. job' \in [Broadcasters -> Jobs]
      BY <1>4, Zenon DEF TypeOK, WorkFetch, Jobs
    <2>3. clean' \in [Broadcasters -> BOOLEAN]
      BY <1>4, Zenon DEF TypeOK, WorkFetch, NewBlock
    <2> QED
      BY <1>4, <2>1, <2>2, <2>3, Zenon DEF TypeOK, WorkFetch
  <1>5. CASE WorkBook
    <2>1. pc' \in [Broadcasters -> ThreadStates]
      BY <1>5, Zenon DEF TypeOK, WorkBook, Broadcasters, ThreadStates
    <2>2. last_prevhash' \in Blocks
      BY <1>5, Zenon DEF TypeOK, WorkBook, Broadcasters, Jobs
    <2> QED
      BY <1>5, <2>1, <2>2, Zenon DEF TypeOK, WorkBook
  <1>6. CASE WaitReturns
    <2>1. pc' \in [Broadcasters -> ThreadStates]
      BY <1>6, Zenon DEF TypeOK, WaitReturns, Broadcasters, ThreadStates
    <2> QED
      BY <1>6, <2>1, Zenon DEF TypeOK, WaitReturns
  <1>7. CASE Fanout("work")
    BY <1>7, FanoutTypeOK, Zenon DEF Broadcasters
  <1> QED
    BY <1>1, <1>2, <1>3, <1>4, <1>5, <1>6, <1>7, Zenon
    DEF WorkThread, WorkWake, WorkTimeout

\* The other steps of the ZMQ thread, and reload_config.
LEMMA ZmqTypeOK == TypeOK /\ (ZmqThread \/ ReloadConfig) => TypeOK'
  <1> SUFFICES ASSUME TypeOK, ZmqThread \/ ReloadConfig PROVE TypeOK'
    BY Zenon
  <1>1. CASE ZmqReceive
    <2>1. pc' \in [Broadcasters -> ThreadStates]
      BY <1>1, Zenon DEF TypeOK, ZmqReceive, Broadcasters, ThreadStates
    <2>2. Head(announced) \in Blocks /\ announced' \in Seq(Blocks)
      BY <1>1, HeadTailProperties, Zenon DEF TypeOK, ZmqReceive
    <2>3. job' \in [Broadcasters -> Jobs]
      BY <1>1, <2>2, Zenon DEF TypeOK, ZmqReceive, Jobs
    <2> QED
      BY <1>1, <2>1, <2>2, <2>3, Zenon DEF TypeOK, ZmqReceive
  <1>2. CASE ZmqHeader
    <2>1. pc' \in [Broadcasters -> ThreadStates]
      BY <1>2, Zenon DEF TypeOK, ZmqHeader, Broadcasters, ThreadStates
    <2> QED
      BY <1>2, <2>1, Zenon DEF TypeOK, ZmqHeader
  <1>3. CASE ZmqFails
    <2>1. pc' \in [Broadcasters -> ThreadStates]
      BY <1>3, Zenon DEF TypeOK, ZmqFails, Fails, Broadcasters, ThreadStates
    <2> QED
      BY <1>3, <2>1 DEF TypeOK, ZmqFails, Fails
  <1>4. CASE ZmqRecheck
    <2>1. pc' \in [Broadcasters -> ThreadStates]
      BY <1>4 DEF TypeOK, ZmqRecheck, Broadcasters, ThreadStates
    <2> QED
      BY <1>4, <2>1, Zenon DEF TypeOK, ZmqRecheck
  <1>5. CASE ZmqClear
    <2>1. pc' \in [Broadcasters -> ThreadStates]
      BY <1>5, Zenon DEF TypeOK, ZmqClear, Broadcasters, ThreadStates
    <2> QED
      BY <1>5, <2>1, Zenon DEF TypeOK, ZmqClear
  <1>6. CASE ZmqNotify
    <2>1. pc' \in [Broadcasters -> ThreadStates]
      BY <1>6, Zenon DEF TypeOK, ZmqNotify, Broadcasters, ThreadStates
    <2> QED
      BY <1>6, <2>1, Zenon DEF TypeOK, ZmqNotify
  <1>7. CASE ReloadConfig
    BY <1>7, Zenon DEF TypeOK, ReloadConfig
  <1>8. CASE Fanout("zmq")
    BY <1>8, FanoutTypeOK, Zenon DEF Broadcasters
  <1> QED
    BY <1>1, <1>2, <1>3, <1>4, <1>5, <1>6, <1>7, <1>8, Zenon DEF ZmqThread

\* What erase_if does to the queue: the entries left are entries it had.
LEMMA WithoutEntries ==
  ASSUME NEW q \in Seq(Publications), NEW c
  PROVE  /\ Without(q, c) \in Seq(Publications)
         /\ \A j \in DOMAIN Without(q, c) :
              \E i \in DOMAIN q : q[i] = Without(q, c)[j]
  <1>1. CASE ~ \E i \in DOMAIN q : q[i].to = c
    BY <1>1, Zenon DEF Without
  <1>2. CASE \E i \in DOMAIN q : q[i].to = c
    <2> DEFINE k == CHOOSE i \in DOMAIN q : q[i].to = c
               place(j) == IF j < k THEN j ELSE j + 1
               r == [j \in 1..(Len(q) - 1) |-> q[place(j)]]
    <2>1. Without(q, c) = r
      BY <1>2, Zenon DEF Without
    <2>2. k \in DOMAIN q
      BY <1>2, Zenon
    <2>3. Len(q) \in Nat /\ DOMAIN q = 1..Len(q)
      BY LenProperties, Zenon
    <2>4. Len(q) - 1 \in Nat
      BY <2>2, <2>3
    <2>5. \A j \in 1..(Len(q) - 1) : place(j) \in DOMAIN q
      BY <2>2, <2>3
    <2>6. \A j \in 1..(Len(q) - 1) : r[j] \in Publications
      BY <2>5, ElementOfSeq
    <2>7. r \in Seq(Publications)
      BY <2>4, <2>6, SeqDef
    <2>8. \A j \in DOMAIN r : \E i \in DOMAIN q : q[i] = r[j]
      BY <2>5, Zenon
    <2> HIDE DEF r
    <2> QED
      BY <2>1, <2>7, <2>8, Zenon
  <1> QED
    BY <1>1, <1>2, Zenon

\* commit_job_locked keeps the types of what it writes.
LEMMA CommitJobTypes ==
  ASSUME TypeOK, NEW c \in Clients, NEW n \in Nat, NEW isClean \in BOOLEAN,
         CommitJob(c, n, isClean)
  PROVE  work' \in [Clients -> Nat] /\ clean_sent' \in [Clients -> BOOLEAN]
  <1>1. RequiresNewPrevhash(c, n) \in BOOLEAN
    BY Zenon DEF RequiresNewPrevhash
  <1>2. (isClean \/ RequiresNewPrevhash(c, n)) \in BOOLEAN
    BY Zenon
  <1> QED
    BY <1>2, Zenon DEF TypeOK, CommitJob

\* Steps of the publication thread.
LEMMA PublicationTypeOK == TypeOK /\ PublicationThread => TypeOK'
  <1> SUFFICES ASSUME TypeOK, PublicationThread PROVE TypeOK'
    BY Zenon
  <1>1. CASE PopPublication
    <2>1. pub' \in Publications /\ publication_queue' \in Seq(Publications)
      BY <1>1, HeadTailProperties, Zenon DEF TypeOK, PopPublication
    <2> QED
      BY <1>1, <2>1, Zenon DEF TypeOK, PopPublication
  <1>2. CASE PlanPublication
    BY <1>2, Zenon DEF TypeOK, PlanPublication
  <1>3. CASE CommitPublication
    <2>1. pub.seq \in Nat /\ pub.clean \in BOOLEAN
      BY Zenon DEF TypeOK, Publications
    <2>2. RequiresNewPrevhash(pub.to, pub.seq) \in BOOLEAN
      BY Zenon DEF RequiresNewPrevhash
    <2> QED
      BY <1>3, <2>1, <2>2, Zenon DEF TypeOK, CommitPublication, CommitJob
  <1> QED
    BY <1>1, <1>2, <1>3, Zenon DEF PublicationThread

\* Requests of the sessions.
LEMMA ReactorsTypeOK == TypeOK /\ Reactors => TypeOK'
  <1> SUFFICES ASSUME TypeOK, Reactors PROVE TypeOK'
    BY Zenon
  <1>0. Len(log) \in Nat
    BY LenProperties, Zenon DEF TypeOK
  <1> SUFFICES ASSUME NEW c \in Clients,
                      \/ AddClient(c) \/ RemoveClient(c) \/ Authorize(c)
                      \/ OpenChannel(c) \/ UpdateChannel(c)
                      \/ PlanRefresh(c) \/ CommitRefresh(c)
               PROVE  TypeOK'
    BY Zenon DEF Reactors
  <1>1. CASE AddClient(c)
    BY <1>1, Zenon DEF TypeOK, AddClient
  <1>2. CASE RemoveClient(c)
    <2>1. publication_queue' \in Seq(Publications)
      BY <1>2, WithoutEntries, Zenon DEF TypeOK, RemoveClient
    <2>2. clients' \subseteq Clients /\ departed' \subseteq Clients
      BY <1>2, Zenon DEF TypeOK, RemoveClient
    <2>3. UNCHANGED <<node, log, shared, new_block_flag, sessions, thread, locals,
                      publisher, refresh_plan>>
      BY <1>2, Zenon DEF RemoveClient
    <2> QED
      BY <2>1, <2>2, <2>3, Zenon DEF TypeOK
  <1>3. CASE Authorize(c)
    <2>1. ready' \in [Clients -> BOOLEAN] /\ clean_sent' \in [Clients -> BOOLEAN]
      BY <1>3, Zenon DEF TypeOK, Authorize
    <2>2. last_sequence' \in [Clients -> Nat]
      <3>1. \/ UNCHANGED last_sequence
            \/ last_sequence' = [last_sequence EXCEPT ![c] = Len(log)]
            \/ last_sequence' = [last_sequence EXCEPT ![c] = last_sequence[c]]
        BY <1>3, Zenon DEF Authorize
      <3>2. last_sequence \in [Clients -> Nat]
        BY Zenon DEF TypeOK
      <3> QED
        BY <1>0, <3>1, <3>2, Zenon
    <2>3. work' \in [Clients -> Nat]
      BY <1>0, <1>3, Zenon DEF TypeOK, Authorize
    <2>4. UNCHANGED <<node, log, members, shared, new_block_flag,
                      publication_queue, hot, thread, locals, publisher, refresh_plan>>
      BY <1>3, Zenon DEF Authorize
    <2> QED
      BY <2>1, <2>2, <2>3, <2>4, Zenon DEF TypeOK
  <1>4. CASE OpenChannel(c)
    <2>1. hot' \in [Clients -> BOOLEAN]
      BY <1>4, Zenon DEF TypeOK, OpenChannel
    <2>2. work' \in [Clients -> Nat] /\ clean_sent' \in [Clients -> BOOLEAN]
      BY <1>0, <1>4, CommitJobTypes, Zenon DEF OpenChannel
    <2> QED
      BY <1>0, <1>4, <2>1, <2>2, Zenon DEF TypeOK, OpenChannel
  <1>5. CASE UpdateChannel(c)
    <2>1. RequiresNewPrevhash(c, Len(log)) \in BOOLEAN
      BY Zenon DEF RequiresNewPrevhash
    <2>2. hot' \in [Clients -> BOOLEAN]
      BY <1>5, Zenon DEF TypeOK, UpdateChannel
    <2>3. work' \in [Clients -> Nat] /\ clean_sent' \in [Clients -> BOOLEAN]
      <3>1. CASE CommitJob(c, Len(log), RequiresNewPrevhash(c, Len(log)))
        BY <1>0, <2>1, <3>1, CommitJobTypes, Zenon
      <3>2. CASE UNCHANGED <<work, clean_sent>>
        BY <3>2, Zenon DEF TypeOK
      <3> QED
        BY <1>5, <3>1, <3>2, Zenon DEF UpdateChannel
    <2>4. UNCHANGED <<node, log, members, shared, new_block_flag,
                      publication_queue, ready, last_sequence, thread, locals,
                      publisher, refresh_plan>>
      BY <1>5, Zenon DEF UpdateChannel
    <2> QED
      BY <2>2, <2>3, <2>4, Zenon DEF TypeOK
  <1>6. CASE PlanRefresh(c)
    BY <1>0, <1>6, Zenon DEF TypeOK, PlanRefresh
  <1>7. CASE CommitRefresh(c)
    <2>1. RequiresNewPrevhash(c, refresh_plan[c]) \in BOOLEAN
      BY Zenon DEF RequiresNewPrevhash
    <2>2. work' \in [Clients -> Nat] /\ clean_sent' \in [Clients -> BOOLEAN]
      <3>1. refresh_plan[c] \in Nat
        BY Zenon DEF TypeOK
      <3>2. CASE CommitJob(c, refresh_plan[c],
                           RequiresNewPrevhash(c, refresh_plan[c]))
        BY <2>1, <3>1, <3>2, CommitJobTypes, Zenon
      <3>3. CASE UNCHANGED <<work, clean_sent>>
        BY <3>3, Zenon DEF TypeOK
      <3> QED
        BY <1>7, <3>2, <3>3, Zenon DEF CommitRefresh
    <2>3. refresh_plan' \in [Clients -> Nat]
      <3>1. refresh_plan' = [refresh_plan EXCEPT ![c] = 0]
        BY <1>7, Zenon DEF CommitRefresh
      <3> QED
        BY <3>1, Zenon DEF TypeOK
    <2>4. last_sequence' \in [Clients -> Nat]
      <3>1. \/ last_sequence' = [last_sequence EXCEPT ![c] = refresh_plan[c]]
            \/ last_sequence' = last_sequence
        BY <1>7, Zenon DEF CommitRefresh
      <3> QED
        BY <3>1, Zenon DEF TypeOK
    <2>5. UNCHANGED <<node, log, members, shared, new_block_flag,
                      publication_queue, ready, hot, thread, locals, publisher>>
      BY <1>7, Zenon DEF CommitRefresh
    <2> QED
      BY <2>2, <2>3, <2>4, <2>5, Zenon DEF TypeOK
  <1> QED
    BY <1>1, <1>2, <1>3, <1>4, <1>5, <1>6, <1>7, Zenon

\* Every step of every thread preserves the types.
LEMMA NextTypeOK == TypeOK /\ [Next]_vars => TypeOK'
  <1>1. TypeOK /\ UNCHANGED vars => TypeOK'
    BY Zenon DEF TypeOK, vars
  <1> QED
    BY <1>1, NodeTypeOK, WorkTypeOK, ZmqTypeOK, PublicationTypeOK,
       ReactorsTypeOK, Zenon DEF Next

\* Every reachable state of the publication machinery is well typed.
THEOREM TypeCorrect == Spec => []TypeOK
  BY InitTypeOK, NextTypeOK, PTL DEF Spec

\* The types of the sessions' and the threads' state, without the rest.
LEMMA StateTypes ==
  ASSUME TypeOK
  PROVE  /\ clients \subseteq Clients
         /\ ready \in [Clients -> BOOLEAN]
         /\ last_sequence \in [Clients -> Nat] /\ work \in [Clients -> Nat]
         /\ refresh_plan \in [Clients -> Nat]
         /\ pc \in [Broadcasters -> ThreadStates]
         /\ stamp \in [Broadcasters -> Nat]
         /\ recipients \in [Broadcasters -> SUBSET Clients]
  BY Zenon DEF TypeOK

------------------------------------------------------------------------------
\* No sequence number runs ahead of publish_counter_.
Sequenced ==
    /\ \A c \in Clients : /\ last_sequence[c] <= Len(log)
                          /\ work[c] <= Len(log)
                          /\ refresh_plan[c] <= Len(log)
    /\ \A b \in Broadcasters : stamp[b] <= Len(log)
    /\ \A i \in DOMAIN publication_queue : publication_queue[i].seq <= Len(log)
    /\ pub.seq <= Len(log)

\* Deferred work is for SV2 sessions, and only a session that has connected
\* is ever ready.
Addressed ==
    /\ \A i \in DOMAIN publication_queue : publication_queue[i].to \in Sv2
    /\ pub_pc # "idle" => pub.to \in Sv2
    /\ \A c \in Clients : refresh_plan[c] # 0 => c \in Sv2
    /\ \A c \in Clients : ready[c] => c \in clients \cup departed

\* A session whose guard has reached the newest publication is on it.
GuardTellsWork ==
    \A c \in Clients : last_sequence[c] = Len(log) => work[c] = Len(log)

\* NoMinerLeftBehind, stated of the guard instead of the work.
Delivered ==
    \A c \in clients :
       ready[c] => last_sequence[c] = Len(log) \/ OnItsWay(Len(log), c)

\* The inductive invariant behind MinersKeepUp and QueueIsClean.
DeliveryInv ==
    /\ TypeOK /\ Sequenced /\ Addressed /\ QueueOnlyServesConnected
    /\ GuardTellsWork /\ Delivered

-----------------------------------------------------------------------------
(* DeliveryInv holds initially and is preserved by the steps of the threads *)
(* that publish.                                                            *)

\* What Append does to a sequence, entry by entry.
LEMMA Appended ==
  ASSUME NEW S, NEW s \in Seq(S), NEW x \in S
  PROVE  /\ DOMAIN Append(s, x) = 1..(Len(s) + 1)
         /\ Append(s, x)[Len(s) + 1] = x
         /\ \A i \in DOMAIN s : Append(s, x)[i] = s[i]
  BY AppendProperties, LenProperties

\* The types the later steps need, as facts about each session and thread.
LEMMA TypeFacts ==
  ASSUME TypeOK
  PROVE  /\ Len(log) \in Nat /\ DOMAIN log = 1..Len(log)
         /\ log # << >> <=> Len(log) # 0
         /\ Len(publication_queue) \in Nat
         /\ DOMAIN publication_queue = 1..Len(publication_queue)
         /\ \A i \in DOMAIN publication_queue :
              /\ publication_queue[i] \in Publications
              /\ publication_queue[i].seq \in Nat
         /\ pub.seq \in Nat
  <1>1. log \in Seq(Jobs) /\ publication_queue \in Seq(Publications)
    BY Zenon DEF TypeOK
  <1>2. Len(log) \in Nat /\ DOMAIN log = 1..Len(log)
    BY <1>1, LenProperties, Zenon
  <1>3. log # << >> <=> Len(log) # 0
    BY <1>1, EmptySeq, Zenon
  <1>4. /\ Len(publication_queue) \in Nat
        /\ DOMAIN publication_queue = 1..Len(publication_queue)
    BY <1>1, LenProperties, Zenon
  <1>5. \A i \in DOMAIN publication_queue :
          publication_queue[i] \in Publications
    BY <1>1, <1>4, ElementOfSeq, Zenon
  <1> QED
    BY <1>2, <1>3, <1>4, <1>5, Zenon DEF TypeOK, Publications

\* Nothing is published and no one is connected at the start.
LEMMA InitDelivery == Init => DeliveryInv
  <1> SUFFICES ASSUME Init PROVE DeliveryInv
    BY Zenon
  <1>1. Len(log) = 0 /\ DOMAIN publication_queue = {}
    BY DEF Init
  <1>2. Sequenced /\ Addressed /\ QueueOnlyServesConnected
    BY <1>1 DEF Init, Sequenced, Addressed, QueueOnlyServesConnected
  <1>3. GuardTellsWork /\ Delivered
    BY <1>1, Zenon DEF Init, GuardTellsWork, Delivered
  <1> QED
    BY <1>2, <1>3, InitTypeOK, Zenon DEF DeliveryInv

\* The part of the state delivery depends on.
delivery == <<log, clients, departed, publication_queue, ready, last_sequence,
              work, stamp, recipients, pub_pc, pub, refresh_plan>>

\* A step that leaves it alone, and takes no thread out of a fan-out.
LEMMA QuietStep ==
  ASSUME DeliveryInv, TypeOK', UNCHANGED delivery,
         \A b \in Broadcasters : pc[b] \in {"copy", "fanout"} => pc'[b] = pc[b]
  PROVE  DeliveryInv'
  <1>1. (Sequenced /\ Addressed /\ QueueOnlyServesConnected /\ GuardTellsWork)'
    BY Zenon DEF DeliveryInv, delivery, Sequenced, Addressed,
           QueueOnlyServesConnected, GuardTellsWork
  <1>2. Delivered'
    BY DEF DeliveryInv, delivery, Delivered, OnItsWay
  <1> QED
    BY <1>1, <1>2, Zenon DEF DeliveryInv

\* Every step outside broadcast_job, the publication thread and the sessions
\* is quiet.
LEMMA QuietDelivery ==
  ASSUME DeliveryInv, TypeOK',
         \/ Node \/ WorkWake \/ WorkTimeout \/ ReloadConfig \/ UNCHANGED vars
         \/ WorkThread /\ ~Fanout("work")
         \/ ZmqThread /\ ~Fanout("zmq")
  PROVE  DeliveryInv'
  <1> USE DEF delivery
  <1>0. pc \in [Broadcasters -> ThreadStates]
    BY StateTypes, Zenon DEF DeliveryInv
  <1>1. CASE Node
    BY <1>1, QuietStep, Zenon DEF Node, NodeMoves, TemplateChanges
  <1>2. CASE WaitReturns
    BY <1>0, <1>2, QuietStep, Zenon DEF WaitReturns, Broadcasters
  <1>3. CASE ReloadConfig \/ UNCHANGED vars
    BY <1>3, QuietStep, Zenon DEF ReloadConfig, vars
  <1>4. CASE \/ WorkDecide(TRUE) \/ WorkDecide(FALSE) \/ WorkFails \/ WorkProbe
    BY <1>0, <1>4, QuietStep, Zenon
    DEF WorkDecide, WorkFails, WorkProbe, Broadcasters
  <1>5. CASE WorkFetch \/ WorkBook
    BY <1>0, <1>5, QuietStep, Zenon DEF WorkFetch, WorkBook, Broadcasters
  <1>6. CASE ZmqReceive \/ ZmqHeader \/ ZmqFails
    BY <1>0, <1>6, QuietStep, Zenon DEF ZmqReceive, ZmqHeader, ZmqFails, Broadcasters
  <1>7. CASE ZmqRecheck \/ ZmqClear \/ ZmqNotify
    BY <1>0, <1>7, QuietStep, Zenon DEF ZmqRecheck, ZmqClear, ZmqNotify, Broadcasters
  <1> QED
    BY <1>1, <1>2, <1>3, <1>4, <1>5, <1>6, <1>7, Zenon
    DEF WorkWake, WorkTimeout, WorkThread, ZmqThread

\* A publication raises publish_counter_ and is on its way to everyone.
LEMMA PublishDelivery ==
  ASSUME DeliveryInv, TypeOK', NEW b \in Broadcasters, Publish(b)
  PROVE  DeliveryInv'
  <1>0. TypeOK /\ Sequenced /\ Addressed
    BY Zenon DEF DeliveryInv
  <1>1. CASE Outcome(b) = "Published"
    <2>1. log' = Append(log, job[b]) /\ log \in Seq(Jobs) /\ job[b] \in Jobs
      BY <1>0, <1>1, Zenon DEF Publish, TypeOK
    <2>2. Len(log') = Len(log) + 1
      BY <2>1, AppendProperties, Zenon
    <2>3. /\ stamp' = [stamp EXCEPT ![b] = Len(log) + 1]
          /\ pc' = [pc EXCEPT ![b] = "copy"]
      BY <1>1, Zenon DEF Publish
    <2>4. UNCHANGED <<members, publication_queue, sessions, recipients,
                      publisher, refresh_plan>>
      BY Zenon DEF Publish
    <2>5. Sequenced'
      <3>1. Len(log) \in Nat
        BY <1>0, TypeFacts, Zenon
      <3>2. \A c \in Clients : /\ last_sequence'[c] <= Len(log')
                               /\ work'[c] <= Len(log')
                               /\ refresh_plan'[c] <= Len(log')
        BY <1>0, <2>2, <2>4, <3>1, StateTypes DEF Sequenced
      <3>3. \A a \in Broadcasters : stamp'[a] <= Len(log')
        BY <1>0, <2>2, <2>3, <3>1, StateTypes DEF Sequenced
      <3>4. /\ \A i \in DOMAIN publication_queue :
                 publication_queue[i].seq <= Len(log')
            /\ pub.seq <= Len(log')
        BY <1>0, <2>2, <3>1, TypeFacts DEF Sequenced
      <3> QED
        BY <2>4, <3>2, <3>3, <3>4, Zenon DEF Sequenced
    <2>6. Addressed' /\ QueueOnlyServesConnected'
      BY <2>4, Zenon DEF DeliveryInv, Addressed, QueueOnlyServesConnected
    <2>7. GuardTellsWork'
      BY <1>0, <2>2, <2>4, TypeFacts, StateTypes DEF Sequenced, GuardTellsWork
    <2>8. stamp'[b] = Len(log') /\ pc'[b] = "copy"
      BY <1>0, <2>2, <2>3, StateTypes, Zenon
    <2>9. Delivered'
      BY <2>8, Zenon DEF Delivered, OnItsWay
    <2> QED
      BY <2>5, <2>6, <2>7, <2>9, Zenon DEF DeliveryInv
  <1>2. CASE Outcome(b) # "Published"
    BY <1>0, <1>2, QuietStep, StateTypes, Zenon DEF Publish, delivery
  <1> QED
    BY <1>1, <1>2, Zenon

\* The client list copied holds every session that might be left behind.
LEMMA CopyDelivery ==
  ASSUME DeliveryInv, TypeOK', NEW b \in Broadcasters, CopyClients(b)
  PROVE  DeliveryInv'
  <1>1. (Sequenced /\ Addressed /\ QueueOnlyServesConnected /\ GuardTellsWork)'
    BY Zenon DEF DeliveryInv, CopyClients, Sequenced, Addressed,
           QueueOnlyServesConnected, GuardTellsWork
  <1>2. Delivered'
    BY StateTypes, Zenon DEF DeliveryInv, CopyClients, Delivered, OnItsWay
  <1> QED
    BY <1>1, <1>2, Zenon DEF DeliveryInv

\* A fan-out that ends has no one left to serve.
LEMMA FanoutDoneDelivery ==
  ASSUME DeliveryInv, TypeOK', NEW b \in Broadcasters, FanoutDone(b)
  PROVE  DeliveryInv'
  <1>1. (Sequenced /\ Addressed /\ QueueOnlyServesConnected /\ GuardTellsWork)'
    BY Zenon DEF DeliveryInv, FanoutDone, Sequenced, Addressed,
           QueueOnlyServesConnected, GuardTellsWork
  <1>2. Delivered'
    BY StateTypes, Zenon DEF DeliveryInv, FanoutDone, Delivered, OnItsWay
  <1> QED
    BY <1>1, <1>2, Zenon DEF DeliveryInv

\* A session taken off the fan-out has the publication, or already had a
\* newer one, or is not ready.
LEMMA NotifyDelivery ==
  ASSUME DeliveryInv, TypeOK', NEW b \in Broadcasters, NEW c \in Sv1,
         NotifySv1(b, c)
  PROVE  DeliveryInv'
  <1>0. TypeOK /\ Sequenced /\ Len(log) \in Nat /\ c \in Clients
    BY TypeFacts, Zenon DEF DeliveryInv, Clients
  <1>1. UNCHANGED <<log, members, publication_queue, ready, pc, stamp,
                    publisher, refresh_plan>>
    BY Zenon DEF NotifySv1
  <1>2. \A d \in Clients : d # c =>
          /\ last_sequence'[d] = last_sequence[d] /\ work'[d] = work[d]
          /\ \A a \in Broadcasters : d \in recipients[a] => d \in recipients'[a]
    BY <1>0, StateTypes, Zenon DEF NotifySv1
  <1>3. stamp[b] \in Nat /\ last_sequence[c] \in Nat /\ stamp[b] <= Len(log)
    BY <1>0, StateTypes, Zenon DEF Sequenced
  <1>4. \/ /\ last_sequence'[c] = stamp[b] /\ work'[c] = stamp[b]
           /\ stamp[b] > last_sequence[c]
        \/ /\ last_sequence'[c] = last_sequence[c] /\ work'[c] = work[c]
           /\ stamp[b] <= last_sequence[c] \/ ~ready[c]
    BY <1>0, <1>3, StateTypes DEF NotifySv1
  <1>5. Sequenced'
    BY <1>0, <1>1, <1>2, <1>3, <1>4, Zenon DEF Sequenced
  <1>6. Addressed' /\ QueueOnlyServesConnected'
    BY <1>1, Zenon DEF DeliveryInv, Addressed, QueueOnlyServesConnected
  <1>7. GuardTellsWork'
    BY <1>1, <1>2, <1>4, Zenon DEF DeliveryInv, GuardTellsWork
  <1>8. Delivered'
    <2> SUFFICES ASSUME NEW d \in clients, ready[d]
                 PROVE  last_sequence'[d] = Len(log) \/ OnItsWay(Len(log), d)'
      BY <1>1, Zenon DEF Delivered
    <2>0. d \in Clients
      BY <1>0, StateTypes, Zenon
    <2>1. last_sequence[d] = Len(log) \/ OnItsWay(Len(log), d)
      BY Zenon DEF DeliveryInv, Delivered
    <2>2. CASE d # c
      BY <1>1, <1>2, <2>0, <2>1, <2>2, Zenon DEF OnItsWay
    <2>3. CASE d = c /\ stamp[b] = Len(log)
      BY <1>0, <1>3, <1>4, <2>3, StateTypes DEF Sequenced
    <2>4. CASE d = c /\ stamp[b] # Len(log)
      <3>1. \A a \in Broadcasters :
              stamp[a] = Len(log) => recipients'[a] = recipients[a]
        BY <1>0, <2>4, StateTypes, Zenon DEF NotifySv1
      <3>2. OnItsWay(Len(log), d) => OnItsWay(Len(log), d)'
        BY <1>1, <3>1, Zenon DEF OnItsWay
      <3>3. last_sequence[c] = Len(log) => last_sequence'[c] = Len(log)
        BY <1>0, <1>3, <1>4, <2>4
      <3> QED
        BY <2>1, <2>4, <3>2, <3>3, Zenon
    <2> QED
      BY <2>2, <2>3, <2>4, Zenon
  <1> QED
    BY <1>5, <1>6, <1>7, <1>8, Zenon DEF DeliveryInv

\* Coalescing keeps the recipient and takes the newer of the two sequence
\* numbers (enqueue_publication).
LEMMA CoalescedSeq ==
  ASSUME NEW entry, NEW b, entry.seq \in Nat, stamp[b] \in Nat
  PROVE  /\ Coalesced(entry, b).to = entry.to
         /\ Coalesced(entry, b).seq \in {stamp[b], entry.seq}
         /\ Coalesced(entry, b).seq >= stamp[b]
         /\ Coalesced(entry, b).seq >= entry.seq
  BY DEF Coalesced

\* enqueue_publication: the queue holds the publication, coalesced or new.
LEMMA EnqueueDelivery ==
  ASSUME DeliveryInv, TypeOK', NEW b \in Broadcasters, NEW c \in Sv2,
         EnqueueSv2(b, c)
  PROVE  DeliveryInv'
  <1> DEFINE q == publication_queue
  <1>0. /\ TypeOK /\ Sequenced /\ Addressed /\ QueueOnlyServesConnected
        /\ Len(log) \in Nat /\ c \in Clients
        /\ stamp[b] \in Nat /\ stamp[b] <= Len(log)
    BY TypeFacts, StateTypes, Zenon DEF DeliveryInv, Sequenced, Clients
  <1>1. UNCHANGED <<log, members, sessions, pc, stamp, publisher, refresh_plan>>
    BY Zenon DEF EnqueueSv2
  <1>2. \A d \in Clients, a \in Broadcasters :
          d \in recipients[a] => d \in recipients'[a] \/ (d = c /\ a = b)
    BY <1>0, StateTypes, Zenon DEF EnqueueSv2
  <1>3. GuardTellsWork'
    BY <1>1, Zenon DEF DeliveryInv, GuardTellsWork
  \* What each case must show of the queue.
  <1> DEFINE Kept == \A i \in DOMAIN q : q[i].to # c =>
                        \E j \in DOMAIN q' : q'[j] = q[i]
             Served == c \in clients =>
                        \E j \in DOMAIN q' :
                          /\ q'[j].to = c
                          /\ q'[j].seq >= stamp[b]
                          /\ \A i \in DOMAIN q :
                               q[i].to = c => q'[j].seq >= q[i].seq
             Good == /\ \A j \in DOMAIN q' :
                          /\ q'[j].to \in clients \cap Sv2
                          /\ q'[j].seq \in Nat /\ q'[j].seq <= Len(log)
                     /\ \A i, j \in DOMAIN q' : q'[i].to = q'[j].to => i = j
  <1>4. Kept /\ Served /\ Good
    <2>0. /\ DOMAIN q = 1..Len(q) /\ Len(q) \in Nat
          /\ \A i \in DOMAIN q : q[i] \in Publications /\ q[i].seq \in Nat
                                 /\ q[i].seq <= Len(log)
                                 /\ q[i].to \in clients \cap Sv2
          /\ \A i, j \in DOMAIN q : q[i].to = q[j].to => i = j
      BY <1>0, TypeFacts, Zenon DEF Sequenced, Addressed, QueueOnlyServesConnected
    <2>1. CASE c \notin clients
      BY <2>0, <2>1, Zenon DEF EnqueueSv2
    <2>2. CASE c \in clients /\ Queued(c)
      <3> DEFINE k == Place(c)
                 e == Coalesced(q[k], b)
      <3>1. k \in DOMAIN q /\ q[k].to = c
        BY <2>2, Zenon DEF Queued, Place
      <3>2. q' = [q EXCEPT ![k] = e]
        BY <2>2, Zenon DEF EnqueueSv2
      <3>a. q[k].seq \in Nat /\ q[k].seq <= Len(log) /\ q[k].to = c
        BY <2>0, <3>1, Zenon
      <3>b. stamp[b] \in Nat /\ stamp[b] <= Len(log)
        BY <1>0, Zenon
      <3>3. /\ e.to = c /\ e.seq \in Nat /\ e.seq <= Len(log)
            /\ e.seq >= stamp[b] /\ e.seq >= q[k].seq
        BY ONLY <3>a, <3>b, CoalescedSeq, Zenon
      <3> HIDE DEF k, e
      <3>4. /\ DOMAIN q' = DOMAIN q /\ q'[k] = e
            /\ \A i \in DOMAIN q : i # k => q'[i] = q[i]
        BY <3>1, <3>2, Zenon
      <3>5. Good
        BY <2>0, <2>2, <3>1, <3>3, <3>4, Zenon
      <3>6. Served
        BY <2>0, <3>1, <3>3, <3>4, Zenon
      <3> QED
        BY <3>1, <3>4, <3>5, <3>6, Zenon
    <2>3. CASE c \in clients /\ ~Queued(c)
      <3> DEFINE e == [to |-> c, seq |-> stamp[b], clean |-> clean[b]]
      <3>1. q' = Append(q, e)
        BY <2>3, Zenon DEF EnqueueSv2
      <3>2. \A i \in DOMAIN q : q[i].to # c
        BY <2>3, Zenon DEF Queued
      <3>3. q \in Seq(Publications) /\ e \in Publications
        BY <1>0, Zenon DEF TypeOK, Publications
      <3>4. e.to = c /\ e.seq = stamp[b]
        BY Zenon
      <3> HIDE DEF e
      <3>5. /\ DOMAIN q' = 1..(Len(q) + 1) /\ q'[Len(q) + 1] = e
            /\ \A i \in DOMAIN q : q'[i] = q[i]
        BY <3>1, <3>3, Appended
      <3> DEFINE last == Len(q) + 1
      <3>6. /\ last \in DOMAIN q' /\ q'[last].to = c /\ q'[last].seq = stamp[b]
            /\ \A i \in DOMAIN q : i \in DOMAIN q' /\ i # last
            /\ \A j \in DOMAIN q' : j = last \/ j \in DOMAIN q
        BY <2>0, <3>4, <3>5
      <3>7. \A i \in DOMAIN q : q'[i] = q[i]
        BY <3>5, Zenon
      <3>8. stamp[b] \in Nat /\ stamp[b] <= Len(log) /\ stamp[b] >= stamp[b]
            /\ c \in clients \cap Sv2
        BY <1>0, <2>3
      <3> HIDE DEF last
      <3>9. Kept
        BY <3>6, <3>7, Zenon
      <3>10. Served
        BY <3>2, <3>6, <3>8, Zenon
      <3>11. \A j \in DOMAIN q' : /\ q'[j].to \in clients \cap Sv2
                                  /\ q'[j].seq \in Nat /\ q'[j].seq <= Len(log)
        BY <2>0, <3>6, <3>7, <3>8, Zenon
      <3>12. \A i, j \in DOMAIN q' : q'[i].to = q'[j].to => i = j
        BY <2>0, <3>2, <3>6, <3>7, Zenon
      <3> QED
        BY <3>9, <3>10, <3>11, <3>12, Zenon
    <2> QED
      BY <2>1, <2>2, <2>3, Zenon
  <1> HIDE DEF q
  <1>5. Sequenced' /\ Addressed' /\ QueueOnlyServesConnected'
    BY <1>0, <1>1, <1>4, Zenon
    DEF q, Sequenced, Addressed, QueueOnlyServesConnected
  <1>6. Delivered'
    <2> SUFFICES ASSUME NEW d \in clients, ready[d], last_sequence[d] # Len(log)
                 PROVE  OnItsWay(Len(log), d)'
      BY <1>1, Zenon DEF Delivered
    <2>1. d \in Clients /\ OnItsWay(Len(log), d)
      BY <1>0, StateTypes, Zenon DEF DeliveryInv, Delivered
    <2>2. CASE d # c
      BY <1>1, <1>2, <1>4, <2>1, <2>2 DEF OnItsWay, q
    <2>3. CASE d = c
      <3>1. CASE \/ stamp[b] = Len(log)
                 \/ \E i \in DOMAIN q : q[i].to = c /\ q[i].seq = Len(log)
        <4>1. PICK j \in DOMAIN q' : /\ q'[j].to = c
                                     /\ q'[j].seq >= Len(log)
          BY <1>4, <2>3, <3>1
        <4>2. q'[j].seq = Len(log)
          BY <1>0, <1>4, <4>1
        <4> QED
          BY <1>1, <2>3, <4>1, <4>2, Zenon DEF OnItsWay, q
      <3>2. CASE /\ stamp[b] # Len(log)
                 /\ ~ \E i \in DOMAIN q : q[i].to = c /\ q[i].seq = Len(log)
        BY <1>1, <1>2, <2>1, <2>3, <3>2, Zenon DEF OnItsWay, q
      <3> QED
        BY <3>1, <3>2, Zenon
    <2> QED
      BY <2>2, <2>3, Zenon
  <1> QED
    BY <1>3, <1>5, <1>6, Zenon DEF DeliveryInv

-----------------------------------------------------------------------------
(* The publication thread and the sessions preserve it.                     *)

\* publication_loop takes the front entry in hand.
LEMMA PopDelivery ==
  ASSUME DeliveryInv, TypeOK', PopPublication
  PROVE  DeliveryInv'
  <1> DEFINE q == publication_queue
  <1>0. TypeOK /\ Sequenced /\ Addressed /\ QueueOnlyServesConnected
    BY Zenon DEF DeliveryInv
  <1>1. UNCHANGED <<log, members, sessions, thread, refresh_plan>>
    BY Zenon DEF PopPublication
  <1>2. /\ Len(q) \in Nat /\ DOMAIN q = 1..Len(q)
        /\ q \in Seq(Publications) /\ q # << >>
    BY <1>0, TypeFacts, Zenon DEF PopPublication, TypeOK
  <1>3. Len(q) # 0 /\ pub' = q[1] /\ q' = Tail(q)
    BY <1>2, EmptySeq, HeadTailProperties DEF PopPublication
  <1>4. DOMAIN q' = 1..(Len(q) - 1) /\ \A i \in DOMAIN q' : q'[i] = q[i + 1]
    BY <1>2, <1>3, HeadTailProperties
  <1>5. 1 \in DOMAIN q /\ \A i \in DOMAIN q' : i + 1 \in DOMAIN q
    BY <1>2, <1>3, <1>4
  <1> HIDE DEF q
  <1>6. Sequenced' /\ Addressed'
    BY <1>0, <1>1, <1>3, <1>4, <1>5, Zenon DEF q, Sequenced, Addressed
  <1>7. QueueOnlyServesConnected'
    <2>1. \A i \in DOMAIN q' : q'[i].to \in clients'
      BY <1>0, <1>1, <1>4, <1>5, Zenon DEF q, QueueOnlyServesConnected
    <2>2. ASSUME NEW i \in DOMAIN q', NEW j \in DOMAIN q', q'[i].to = q'[j].to
          PROVE  i = j
      <3>1. i + 1 = j + 1
        BY <1>0, <1>4, <1>5, <2>2 DEF q, QueueOnlyServesConnected
      <3> QED
        BY <1>2, <1>4, <3>1
    <2> QED
      BY <2>1, <2>2, Zenon DEF q, QueueOnlyServesConnected
  <1>8. GuardTellsWork'
    BY <1>1, Zenon DEF DeliveryInv, GuardTellsWork
  <1>9. Delivered'
    <2> SUFFICES ASSUME NEW d \in clients, ready[d], last_sequence[d] # Len(log)
                 PROVE  OnItsWay(Len(log), d)'
      BY <1>1, Zenon DEF Delivered
    <2>1. OnItsWay(Len(log), d)
      BY Zenon DEF DeliveryInv, Delivered
    <2>2. pub_pc = "idle" /\ pub_pc' = "plan"
      BY Zenon DEF PopPublication
    <2>3. ASSUME NEW i \in DOMAIN q, q[i].to = d, q[i].seq = Len(log)
          PROVE  OnItsWay(Len(log), d)'
      <3>1. CASE i = 1
        BY <1>1, <1>3, <2>2, <2>3, <3>1, Zenon DEF OnItsWay
      <3>2. CASE i # 1
        <4>1. i - 1 \in DOMAIN q' /\ q'[i - 1] = q[i]
          BY <1>2, <1>4, <3>2
        <4> QED
          BY <1>1, <2>3, <4>1, Zenon DEF OnItsWay, q
      <3> QED
        BY <3>1, <3>2, Zenon
    <2> QED
      BY <1>1, <2>1, <2>2, <2>3, Zenon DEF OnItsWay, q
  <1> QED
    BY <1>6, <1>7, <1>8, <1>9, Zenon DEF DeliveryInv

\* A publication is dropped only when the session's guard has reached it, the
\* session is not ready, or recent_jobs_ has moved past it.
LEMMA PlanDelivery ==
  ASSUME DeliveryInv, TypeOK', PlanPublication
  PROVE  DeliveryInv'
  <1>1. (Sequenced /\ Addressed /\ QueueOnlyServesConnected /\ GuardTellsWork)'
    BY Zenon DEF DeliveryInv, PlanPublication, Sequenced, Addressed,
           QueueOnlyServesConnected, GuardTellsWork
  <1>2. Delivered'
    <2> SUFFICES ASSUME NEW d \in clients, ready[d], last_sequence[d] # Len(log)
                 PROVE  OnItsWay(Len(log), d)'
      BY Zenon DEF Delivered, PlanPublication
    <2>1. OnItsWay(Len(log), d)
      BY Zenon DEF DeliveryInv, Delivered
    <2>2. /\ Len(log) \in Nat /\ last_sequence[d] \in Nat
          /\ last_sequence[d] <= Len(log)
      BY TypeFacts, StateTypes, Zenon DEF DeliveryInv, Sequenced
    <2>3. CASE pub.to = d /\ pub.seq = Len(log)
      <3>1. RecentJob(pub.seq) /\ pub.seq > last_sequence[pub.to]
        BY <2>2, <2>3, ConstantsAssumption DEF RecentJob
      <3>2. pub_pc' = "commit"
        BY <2>3, <3>1, Zenon DEF PlanPublication
      <3> QED
        BY <2>3, <3>2, Zenon DEF OnItsWay, PlanPublication
    <2>4. CASE ~(pub.to = d /\ pub.seq = Len(log))
      BY <2>1, <2>4, Zenon DEF OnItsWay, PlanPublication
    <2> QED
      BY <2>3, <2>4, Zenon
  <1> QED
    BY <1>1, <1>2, Zenon DEF DeliveryInv

\* A step of one session c: the others and the threads are left alone,
OthersStay(c) ==
    /\ UNCHANGED <<log, members, publication_queue, thread, pub>>
    /\ \A d \in Clients : d # c =>
         /\ last_sequence'[d] = last_sequence[d] /\ work'[d] = work[d]
         /\ ready'[d] = ready[d] /\ refresh_plan'[d] = refresh_plan[d]

\* c's guard and work may move, but not away from the newest publication,
GuardMoves(c) ==
    /\ last_sequence'[c] <= Len(log) /\ work'[c] <= Len(log)
    /\ refresh_plan'[c] <= Len(log) /\ (refresh_plan'[c] # 0 => c \in Sv2)
    /\ ready'[c] => c \in clients \cup departed
    /\ last_sequence'[c] = Len(log) => work'[c] = Len(log)
    /\ ready'[c] => \/ last_sequence'[c] = Len(log)
                    \/ ready[c] /\ last_sequence[c] # Len(log)

\* and the delivery of what c then has may end.
DeliveryEnds(c) ==
    \/ UNCHANGED pub_pc
    \/ /\ pub_pc' = "idle" /\ pub.to = c
       /\ pub.seq = Len(log) => last_sequence'[c] = Len(log)

\* Such a step preserves the delivery invariant.
LEMMA SessionStep ==
  ASSUME DeliveryInv, TypeOK', NEW c \in Clients,
         OthersStay(c), GuardMoves(c), DeliveryEnds(c)
  PROVE  DeliveryInv'
  <1> USE DEF OthersStay, GuardMoves, DeliveryEnds
  <1>1. Sequenced' /\ Addressed'
    BY Zenon DEF DeliveryInv, Sequenced, Addressed
  <1>2. QueueOnlyServesConnected' /\ GuardTellsWork'
    BY Zenon DEF DeliveryInv, QueueOnlyServesConnected, GuardTellsWork
  <1>3. Delivered'
    <2> SUFFICES ASSUME NEW d \in clients, ready'[d],
                        last_sequence'[d] # Len(log)
                 PROVE  OnItsWay(Len(log), d)'
      BY Zenon DEF Delivered
    <2>1. d \in Clients
      BY StateTypes, Zenon DEF DeliveryInv
    <2>2. ready[d] /\ last_sequence[d] # Len(log)
      BY <2>1, Zenon
    <2>3. OnItsWay(Len(log), d)
      BY <2>2, Zenon DEF DeliveryInv, Delivered
    <2> QED
      BY <2>3, Zenon DEF OnItsWay
  <1> QED
    BY <1>1, <1>2, <1>3, Zenon DEF DeliveryInv

\* The publication thread commits what it planned, or finds it superseded.
LEMMA CommitDelivery ==
  ASSUME DeliveryInv, TypeOK', CommitPublication
  PROVE  DeliveryInv'
  <1> DEFINE c == pub.to
  <1>0. /\ TypeOK /\ c \in Sv2 /\ c \in Clients
        /\ Len(log) \in Nat /\ pub.seq \in Nat /\ pub.seq <= Len(log)
        /\ last_sequence[c] \in Nat /\ last_sequence[c] <= Len(log)
        /\ work[c] <= Len(log) /\ refresh_plan[c] <= Len(log)
        /\ ready[c] => c \in clients \cup departed
        /\ last_sequence[c] = Len(log) => work[c] = Len(log)
    BY TypeFacts, Zenon
    DEF DeliveryInv, TypeOK, Sequenced, Addressed, GuardTellsWork,
        CommitPublication, Clients
  <1>1. /\ UNCHANGED <<log, members, publication_queue, thread, pub, ready,
                       refresh_plan>>
        /\ pub_pc' = "idle"
    BY Zenon DEF CommitPublication
  <1>2. \/ /\ pub.seq > last_sequence[c]
           /\ last_sequence' = [last_sequence EXCEPT ![c] = pub.seq]
           /\ work' = [work EXCEPT ![c] = pub.seq]
        \/ /\ pub.seq <= last_sequence[c]
           /\ UNCHANGED <<last_sequence, work>>
    BY <1>0 DEF CommitPublication, CommitJob
  <1> HIDE DEF c
  <1>3. /\ \A d \in Clients : d # c =>
             last_sequence'[d] = last_sequence[d] /\ work'[d] = work[d]
        /\ last_sequence'[c] <= Len(log) /\ work'[c] <= Len(log)
        /\ last_sequence'[c] = Len(log) => work'[c] = Len(log)
        /\ last_sequence[c] = Len(log) => last_sequence'[c] = Len(log)
        /\ pub.seq = Len(log) => last_sequence'[c] = Len(log)
    BY <1>0, <1>2, StateTypes
  <1>4. pub.to = c
    BY Zenon DEF c
  <1>5. OthersStay(c)
    BY <1>1, <1>3, <1>4, Zenon DEF OthersStay
  <1>6. GuardMoves(c)
    BY <1>0, <1>1, <1>3, <1>4, Zenon DEF GuardMoves
  <1>7. DeliveryEnds(c)
    BY <1>1, <1>3, <1>4, Zenon DEF DeliveryEnds
  <1> QED
    BY <1>0, <1>5, <1>6, <1>7, SessionStep, Zenon

\* In a queue with one entry per session, erase_if removes the session's entry
\* and keeps every other.
LEMMA WithoutUnique ==
  ASSUME NEW q \in Seq(Publications), NEW c,
         \A i, j \in DOMAIN q : q[i].to = q[j].to => i = j
  PROVE  LET r == Without(q, c) IN
         /\ \A j \in DOMAIN r : r[j].to # c
         /\ \A i \in DOMAIN q : q[i].to # c => \E j \in DOMAIN r : r[j] = q[i]
         /\ \A i, j \in DOMAIN r : r[i].to = r[j].to => i = j
  <1>1. CASE ~ \E i \in DOMAIN q : q[i].to = c
    BY <1>1, Zenon DEF Without
  <1>2. CASE \E i \in DOMAIN q : q[i].to = c
    <2> DEFINE k == CHOOSE i \in DOMAIN q : q[i].to = c
               place(j) == IF j < k THEN j ELSE j + 1
               r == [j \in 1..(Len(q) - 1) |-> q[place(j)]]
    <2>1. Without(q, c) = r
      BY <1>2, Zenon DEF Without
    <2>2. k \in DOMAIN q /\ q[k].to = c
      BY <1>2, Zenon
    <2>3. Len(q) \in Nat /\ DOMAIN q = 1..Len(q)
      BY LenProperties, Zenon
    <2> HIDE DEF k
    <2>4. /\ \A j \in DOMAIN r : place(j) \in DOMAIN q /\ place(j) # k
          /\ \A i, j \in DOMAIN r : place(i) = place(j) => i = j
      BY <2>2, <2>3
    <2>5. \A i \in DOMAIN q : i # k => \E j \in DOMAIN r : place(j) = i
      <3> SUFFICES ASSUME NEW i \in DOMAIN q, i # k
                   PROVE  \E j \in DOMAIN r : place(j) = i
        BY Zenon
      <3>1. CASE i < k
        BY <2>2, <2>3, <3>1
      <3>2. CASE i > k
        <4>1. i - 1 \in DOMAIN r /\ place(i - 1) = i
          BY <2>2, <2>3, <3>2
        <4> QED
          BY <4>1, Zenon
      <3> QED
        BY <2>2, <2>3, <3>1, <3>2
    <2>6. \A j \in DOMAIN r : r[j] = q[place(j)]
      BY Zenon
    <2> HIDE DEF r, place
    <2>7. \A j \in DOMAIN r : r[j].to # c
      BY <2>2, <2>4, <2>6, Zenon
    <2>8. \A i \in DOMAIN q : q[i].to # c => \E j \in DOMAIN r : r[j] = q[i]
      BY <2>2, <2>5, <2>6, Zenon
    <2>9. \A i, j \in DOMAIN r : r[i].to = r[j].to => i = j
      BY <2>4, <2>6, Zenon
    <2> QED
      BY <2>1, <2>7, <2>8, <2>9, Zenon
  <1> QED
    BY <1>1, <1>2, Zenon

\* A connection that ends takes only its own entry with it.
LEMMA RemoveDelivery ==
  ASSUME DeliveryInv, TypeOK', NEW c \in Clients, RemoveClient(c)
  PROVE  DeliveryInv'
  <1> DEFINE q == publication_queue
             r == Without(q, c)
  <1>0. /\ TypeOK /\ Sequenced /\ Addressed /\ QueueOnlyServesConnected
        /\ q \in Seq(Publications)
    BY Zenon DEF DeliveryInv, TypeOK
  <1>1. /\ UNCHANGED <<log, sessions, thread, publisher, refresh_plan>>
        /\ q' = r /\ clients' = clients \ {c} /\ departed' = departed \cup {c}
    BY Zenon DEF RemoveClient
  <1>2. \A j \in DOMAIN r : \E i \in DOMAIN q : q[i] = r[j]
    BY <1>0, WithoutEntries, Zenon
  <1>3. /\ \A j \in DOMAIN r : r[j].to # c
        /\ \A i \in DOMAIN q : q[i].to # c => \E j \in DOMAIN r : r[j] = q[i]
        /\ \A i, j \in DOMAIN r : r[i].to = r[j].to => i = j
    <2>1. \A i, j \in DOMAIN q : q[i].to = q[j].to => i = j
      BY <1>0, Zenon DEF QueueOnlyServesConnected
    <2> HIDE DEF q
    <2> QED
      BY <1>0, <2>1, WithoutUnique, Zenon
  <1> HIDE DEF q, r
  <1>4. Sequenced' /\ Addressed'
    BY <1>0, <1>1, <1>2, Zenon DEF q, Sequenced, Addressed
  <1>5. QueueOnlyServesConnected'
    BY <1>0, <1>1, <1>2, <1>3, Zenon DEF q, QueueOnlyServesConnected
  <1>6. GuardTellsWork'
    BY <1>1, Zenon DEF DeliveryInv, GuardTellsWork
  <1>7. Delivered'
    <2> SUFFICES ASSUME NEW d \in clients, d # c, ready[d],
                        last_sequence[d] # Len(log)
                 PROVE  OnItsWay(Len(log), d)'
      BY <1>1, Zenon DEF Delivered
    <2>1. OnItsWay(Len(log), d)
      BY Zenon DEF DeliveryInv, Delivered
    <2> QED
      BY <1>1, <1>3, <2>1 DEF OnItsWay, q
  <1> QED
    BY <1>4, <1>5, <1>6, <1>7, Zenon DEF DeliveryInv

\* Requests that join a session, send it work or refresh it.
LEMMA RequestDelivery ==
  ASSUME DeliveryInv, TypeOK', NEW c \in Clients,
         \/ AddClient(c) \/ Authorize(c) \/ OpenChannel(c)
         \/ UpdateChannel(c) \/ PlanRefresh(c) \/ CommitRefresh(c)
  PROVE  DeliveryInv'
  <1>0. /\ TypeOK /\ Len(log) \in Nat /\ (log # << >> <=> Len(log) # 0)
        /\ last_sequence[c] \in Nat /\ last_sequence[c] <= Len(log)
        /\ work[c] \in Nat /\ work[c] <= Len(log)
        /\ refresh_plan[c] \in Nat /\ refresh_plan[c] <= Len(log)
        /\ refresh_plan[c] # 0 => c \in Sv2
        /\ ready[c] => c \in clients \cup departed
        /\ last_sequence[c] = Len(log) => work[c] = Len(log)
    BY TypeFacts, Zenon
    DEF DeliveryInv, TypeOK, Sequenced, Addressed, GuardTellsWork
  <1>1. CASE AddClient(c)
    <2>1. UNCHANGED <<departed, log, publication_queue, sessions, thread,
                      publisher, refresh_plan>>
      BY <1>1, Zenon DEF AddClient
    <2>2. clients' = clients \cup {c} /\ ~ready[c]
      BY <1>0, <1>1, Zenon DEF AddClient
    <2>3. (Sequenced /\ Addressed /\ QueueOnlyServesConnected /\ GuardTellsWork)'
      BY <2>1, <2>2, Zenon DEF DeliveryInv, Sequenced, Addressed,
                        QueueOnlyServesConnected, GuardTellsWork
    <2>4. Delivered'
      BY <2>1, <2>2, Zenon DEF DeliveryInv, Delivered, OnItsWay
    <2> QED
      BY <2>3, <2>4, Zenon DEF DeliveryInv
  <1>2. CASE Authorize(c)
    <2>0. /\ UNCHANGED <<log, members, publication_queue, thread, pub, pub_pc,
                         refresh_plan>>
          /\ c \in clients
      BY <1>2, Zenon DEF Authorize
    <2>1. \A d \in Clients : d # c =>
             /\ last_sequence'[d] = last_sequence[d] /\ work'[d] = work[d]
             /\ ready'[d] = ready[d]
      BY <1>0, <1>2, StateTypes, Zenon DEF Authorize
    <2>2. last_sequence'[c] = Len(log) /\ work'[c] = Len(log)
      BY <1>0, <1>2, StateTypes DEF Authorize
    <2>3. OthersStay(c)
      BY <2>0, <2>1, Zenon DEF OthersStay
    <2>4. GuardMoves(c)
      <3>1. refresh_plan[c] <= Len(log) /\ (refresh_plan[c] # 0 => c \in Sv2)
        BY <1>0, Zenon
      <3>2. UNCHANGED refresh_plan /\ c \in clients \cup departed
        BY <2>0, Zenon
      <3>3. Len(log) <= Len(log)
        BY <1>0
      <3> QED
        BY <2>2, <3>1, <3>2, <3>3, Zenon DEF GuardMoves
    <2>5. DeliveryEnds(c)
      BY <2>0, Zenon DEF DeliveryEnds
    <2> QED
      BY <1>0, <2>3, <2>4, <2>5, SessionStep, Zenon
  <1>3. CASE OpenChannel(c)
    <2>0. /\ UNCHANGED <<log, members, publication_queue, thread, pub, pub_pc,
                         refresh_plan>>
          /\ c \in clients
      BY <1>3, Zenon DEF OpenChannel
    <2>1. /\ ready' = [ready EXCEPT ![c] = TRUE]
          /\ last_sequence' = [last_sequence EXCEPT ![c] = Len(log)]
          /\ work' = [work EXCEPT ![c] = Len(log)]
      BY <1>3, Zenon DEF OpenChannel, CommitJob
    <2>2. \A d \in Clients : d # c =>
             /\ last_sequence'[d] = last_sequence[d] /\ work'[d] = work[d]
             /\ ready'[d] = ready[d]
      BY <1>0, <2>1, StateTypes, Zenon
    <2>3. last_sequence'[c] = Len(log) /\ work'[c] = Len(log)
      BY <1>0, <2>1, StateTypes, Zenon
    <2>4. OthersStay(c)
      BY <2>0, <2>2, Zenon DEF OthersStay
    <2>5. GuardMoves(c)
      BY <1>0, <2>0, <2>3 DEF GuardMoves
    <2>6. DeliveryEnds(c)
      BY <2>0, Zenon DEF DeliveryEnds
    <2> QED
      BY <1>0, <2>4, <2>5, <2>6, SessionStep, Zenon
  <1>4. CASE UpdateChannel(c)
    <2>1. /\ UNCHANGED <<log, members, publication_queue, thread, pub, pub_pc,
                         ready, last_sequence, refresh_plan>>
          /\ \/ work' = [work EXCEPT ![c] = Len(log)]
             \/ UNCHANGED work
      BY <1>4, Zenon DEF UpdateChannel, CommitJob
    <2>2. /\ \A d \in Clients : d # c => work'[d] = work[d]
          /\ work'[c] = Len(log) \/ work'[c] = work[c]
      BY <1>0, <2>1, StateTypes, Zenon
    <2>3. OthersStay(c)
      BY <2>1, <2>2, Zenon DEF OthersStay
    <2>4. GuardMoves(c)
      BY <1>0, <2>1, <2>2 DEF GuardMoves
    <2>5. DeliveryEnds(c)
      BY <2>1, Zenon DEF DeliveryEnds
    <2> QED
      BY <1>0, <2>3, <2>4, <2>5, SessionStep, Zenon
  <1>5. CASE PlanRefresh(c)
    <2>1. /\ UNCHANGED <<log, members, publication_queue, thread, pub, pub_pc,
                         ready, last_sequence, work>>
          /\ c \in Sv2
          /\ refresh_plan' = [refresh_plan EXCEPT ![c] = Len(log)]
      BY <1>5, Zenon DEF PlanRefresh
    <2>2. /\ \A d \in Clients : d # c => refresh_plan'[d] = refresh_plan[d]
          /\ refresh_plan'[c] = Len(log)
      BY <1>0, <2>1, StateTypes, Zenon
    <2>3. OthersStay(c)
      BY <2>1, <2>2, Zenon DEF OthersStay
    <2>4. GuardMoves(c)
      BY <1>0, <2>1, <2>2 DEF GuardMoves
    <2>5. DeliveryEnds(c)
      BY <2>1, Zenon DEF DeliveryEnds
    <2> QED
      BY <1>0, <2>3, <2>4, <2>5, SessionStep, Zenon
  <1>6. CASE CommitRefresh(c)
    <2> DEFINE n == refresh_plan[c]
    <2>1. /\ UNCHANGED <<log, members, publication_queue, thread, pub, pub_pc,
                         ready>>
          /\ refresh_plan' = [refresh_plan EXCEPT ![c] = 0]
      BY <1>6, Zenon DEF CommitRefresh
    <2>2. \/ /\ n >= last_sequence[c]
             /\ last_sequence' = [last_sequence EXCEPT ![c] = n]
             /\ work' = [work EXCEPT ![c] = n]
          \/ UNCHANGED <<last_sequence, work>>
      BY <1>6, Zenon DEF CommitRefresh, CommitJob
    <2>3. /\ \A d \in Clients : d # c =>
               /\ last_sequence'[d] = last_sequence[d] /\ work'[d] = work[d]
               /\ refresh_plan'[d] = refresh_plan[d]
          /\ refresh_plan'[c] = 0
          /\ last_sequence'[c] <= Len(log) /\ work'[c] <= Len(log)
          /\ last_sequence'[c] = Len(log) => work'[c] = Len(log)
          /\ last_sequence[c] = Len(log) => last_sequence'[c] = Len(log)
      BY <1>0, <2>1, <2>2, StateTypes
    <2>4. OthersStay(c)
      BY <2>1, <2>3, Zenon DEF OthersStay
    <2>5. GuardMoves(c)
      <3>1. refresh_plan'[c] <= Len(log) /\ (refresh_plan'[c] # 0 => c \in Sv2)
        BY <1>0, <2>3
      <3>2. /\ ready'[c] => c \in clients \cup departed
            /\ ready'[c] => \/ last_sequence'[c] = Len(log)
                            \/ ready[c] /\ last_sequence[c] # Len(log)
        BY <1>0, <2>1, <2>3, Zenon
      <3> QED
        BY <2>3, <3>1, <3>2, Zenon DEF GuardMoves
    <2>6. DeliveryEnds(c)
      BY <2>1, Zenon DEF DeliveryEnds
    <2> QED
      BY <1>0, <2>4, <2>5, <2>6, SessionStep, Zenon
  <1> QED
    BY <1>1, <1>2, <1>3, <1>4, <1>5, <1>6, Zenon

\* The delivery invariant is inductive: one step per kind of action.
LEMMA NextDelivery == DeliveryInv /\ [Next]_vars => DeliveryInv'
  <1> SUFFICES ASSUME DeliveryInv, [Next]_vars PROVE DeliveryInv'
    BY Zenon
  <1>0. TypeOK'
    BY NextTypeOK, Zenon DEF DeliveryInv
  <1>1. ASSUME NEW b \in Broadcasters, Fanout(b) PROVE DeliveryInv'
    BY <1>0, <1>1, PublishDelivery, CopyDelivery, FanoutDoneDelivery,
       NotifyDelivery, EnqueueDelivery, Zenon DEF Fanout
  <1>2. CASE PublicationThread
    BY <1>0, <1>2, PopDelivery, PlanDelivery, CommitDelivery, Zenon
    DEF PublicationThread
  <1>3. CASE Reactors
    BY <1>0, <1>3, RemoveDelivery, RequestDelivery, Zenon DEF Reactors
  <1>4. CASE \/ Node \/ WorkWake \/ WorkTimeout \/ ReloadConfig
             \/ UNCHANGED vars
             \/ WorkThread /\ ~Fanout("work")
             \/ ZmqThread /\ ~Fanout("zmq")
    BY <1>0, <1>4, QuietDelivery, Zenon
  <1> QED
    BY <1>1, <1>2, <1>3, <1>4, Zenon DEF Next, Broadcasters

\* The delivery invariant holds in every reachable state.
LEMMA AlwaysDelivery == Spec => []DeliveryInv
  BY InitDelivery, NextDelivery, PTL DEF Spec

\* However the fan-outs, the coalescing queue, the duplicate guards and the
\* requests of the sessions interleave, every connected session that may
\* receive work has the current job or has it on its way.
THEOREM MinersKeepUp == Spec => []NoMinerLeftBehind
  <1>1. DeliveryInv => NoMinerLeftBehind
    BY Zenon DEF DeliveryInv, TypeOK, GuardTellsWork, Delivered, NoMinerLeftBehind
  <1> QED
    BY <1>1, AlwaysDelivery, PTL

\* publication_queue_ never holds an entry of a disconnected session, nor two
\* of one session.
THEOREM QueueIsClean == Spec => []QueueOnlyServesConnected
  <1>1. DeliveryInv => QueueOnlyServesConnected
    BY Zenon DEF DeliveryInv
  <1> QED
    BY <1>1, AlwaysDelivery, PTL
------------------------------------------------------------------------------
\* Empty jobs come from the ZMQ thread only.
JobsInv ==
    /\ job["zmq"].body = 0
    /\ pc["work"] = "publish" => job["work"].body # 0
    /\ revision # 0

\* Published heights never fall, and no empty job follows work on its parent.
OrderInv ==
    /\ \A i, j \in DOMAIN log : i <= j => JobHeight(log[i]) <= JobHeight(log[j])
    /\ \A i \in DOMAIN log :
         log[i].body = 0 /\ i > 1 => log[i - 1].prev # log[i].prev

\* With these, an SV1 session's guard holds the sequence of its last job.
LogInv ==
    /\ JobsInv /\ OrderInv
    /\ \A c \in Sv1 : work[c] = last_sequence[c]

-----------------------------------------------------------------------------
(* relative to DeliveryInv.                                                 *)

\* The log is empty at the start.
LEMMA InitLog == Init => LogInv
  BY ConstantsAssumption DEF Init, LogInv, JobsInv, OrderInv, Clients, Broadcasters

\* The height of a job is a number.
LEMMA HeightIsNat ==
  ASSUME NEW j \in Jobs PROVE JobHeight(j) \in Nat
  <1>1. j.prev \in Blocks
    BY Zenon DEF Jobs
  <1>2. Height[j.prev] \in Nat
    BY <1>1, ConstantsAssumption, Zenon
  <1> QED
    BY <1>2 DEF JobHeight

\* What a step may not do to the published jobs: it only appends.
LEMMA LogGrows ==
  ASSUME TypeOK, [Next]_vars
  PROVE  \/ log' = log
         \/ \E b \in Broadcasters : Publish(b) /\ log' = Append(log, job[b])
  <1>1. ASSUME NEW b \in Broadcasters, Fanout(b)
        PROVE  \/ log' = log
               \/ Publish(b) /\ log' = Append(log, job[b])
    BY <1>1, Zenon DEF Fanout, Publish, CopyClients, FanoutDone, NotifySv1, EnqueueSv2
  <1>2. CASE Node \/ WorkWake \/ WorkTimeout \/ ReloadConfig \/ UNCHANGED vars
    BY <1>2, Zenon DEF Node, NodeMoves, TemplateChanges, WorkWake, WorkTimeout,
                WaitReturns, ReloadConfig, vars
  <1>3. CASE WorkThread /\ ~Fanout("work")
    BY <1>3, Zenon DEF WorkThread, WorkDecide, WorkFails, WorkProbe, WorkFetch, WorkBook
  <1>4. CASE ZmqThread /\ ~Fanout("zmq")
    BY <1>4, Zenon DEF ZmqThread, ZmqReceive, ZmqHeader, ZmqFails, ZmqRecheck,
                ZmqClear, ZmqNotify
  <1>5. CASE PublicationThread
    BY <1>5, Zenon DEF PublicationThread, PopPublication, PlanPublication,
                CommitPublication
  <1>6. CASE Reactors
    BY <1>6, Zenon DEF Reactors, AddClient, RemoveClient, Authorize, OpenChannel,
                UpdateChannel, PlanRefresh, CommitRefresh
  <1> QED
    BY <1>1, <1>2, <1>3, <1>4, <1>5, <1>6, Zenon DEF Next, Broadcasters

\* Only the ZMQ thread's jobs are empty.
LEMMA NextJobs ==
  ASSUME TypeOK, JobsInv, [Next]_vars
  PROVE  JobsInv'
  <1>0. /\ job \in [Broadcasters -> Jobs] /\ revision \in Nat
        /\ pc \in [Broadcasters -> ThreadStates]
    BY Zenon DEF TypeOK
  <1>1. ASSUME NEW b \in Broadcasters, Fanout(b) PROVE JobsInv'
    <2>1. job' = job /\ revision' = revision
      BY <1>1, Zenon DEF Fanout, Publish, CopyClients, FanoutDone, NotifySv1, EnqueueSv2
    <2>2. pc'["work"] = "publish" => pc["work"] = "publish"
      BY <1>0, <1>1, Zenon DEF Fanout, Publish, AfterRefusal, CopyClients, FanoutDone,
                        NotifySv1, EnqueueSv2, Broadcasters
    <2> QED
      BY <2>1, <2>2, Zenon DEF JobsInv
  <1>2. CASE Node \/ WaitReturns \/ ReloadConfig \/ UNCHANGED vars
    BY <1>0, <1>2 DEF Node, NodeMoves, TemplateChanges, WaitReturns,
                      ReloadConfig, vars, JobsInv, Broadcasters
  <1>3. CASE WorkThread /\ ~Fanout("work")
    <2>1. CASE WorkFetch
      <3>1. /\ job' = [job EXCEPT !["work"] = [prev |-> tip, body |-> revision]]
            /\ revision' = revision
        BY <2>1, Zenon DEF WorkFetch
      <3>2. job'["work"].body = revision /\ job'["zmq"] = job["zmq"]
        BY <1>0, <3>1, Zenon DEF Broadcasters
      <3> QED
        BY <3>1, <3>2, Zenon DEF JobsInv
    <2>2. CASE ~WorkFetch
      BY <1>0, <1>3, <2>2, Zenon DEF WorkThread, WorkDecide, WorkFails, WorkProbe,
                              WorkBook, JobsInv, Broadcasters
    <2> QED
      BY <2>1, <2>2, Zenon
  <1>4. CASE ZmqThread /\ ~Fanout("zmq")
    <2>1. CASE ZmqReceive
      <3>1. job' = [job EXCEPT !["zmq"] = [prev |-> Head(announced), body |-> 0]]
        BY <2>1, Zenon DEF ZmqReceive
      <3>2. job'["zmq"].body = 0 /\ job'["work"] = job["work"]
        BY <1>0, <3>1, Zenon DEF Broadcasters
      <3>3. pc'["work"] = pc["work"] /\ revision' = revision
        BY <1>0, <2>1, Zenon DEF ZmqReceive, Broadcasters
      <3> QED
        BY <3>2, <3>3, Zenon DEF JobsInv
    <2>2. CASE ~ZmqReceive
      <3>1. job' = job /\ revision' = revision
        BY <1>4, <2>2, Zenon DEF ZmqThread, ZmqHeader, ZmqFails, ZmqRecheck, ZmqClear,
                          ZmqNotify
      <3>2. pc'["work"] = pc["work"]
        BY <1>0, <1>4, <2>2, Zenon DEF ZmqThread, ZmqHeader, ZmqFails, ZmqRecheck,
                                ZmqClear, ZmqNotify, Broadcasters
      <3> QED
        BY <3>1, <3>2, Zenon DEF JobsInv
    <2> QED
      BY <2>1, <2>2, Zenon
  <1>5. CASE PublicationThread \/ Reactors
    BY <1>5, Zenon DEF PublicationThread, PopPublication, PlanPublication,
                CommitPublication, Reactors, AddClient, RemoveClient, Authorize,
                OpenChannel, UpdateChannel, PlanRefresh, CommitRefresh, JobsInv
  <1> QED
    BY <1>1, <1>2, <1>3, <1>4, <1>5, Zenon
    DEF Next, WorkWake, WorkTimeout, Broadcasters

\* broadcast_job refuses a lower height, and an empty job on its own parent.
LEMMA NextOrder ==
  ASSUME TypeOK, JobsInv, OrderInv, [Next]_vars
  PROVE  OrderInv'
  <1>1. CASE log' = log
    BY <1>1, Zenon DEF OrderInv, JobHeight
  <1>2. ASSUME NEW b \in Broadcasters, Publish(b), log' = Append(log, job[b])
        PROVE  OrderInv'
    <2> DEFINE n == Len(log)
    <2>1. /\ n \in Nat /\ DOMAIN log = 1..n /\ log \in Seq(Jobs)
          /\ job[b] \in Jobs /\ (log # << >> <=> n # 0)
      BY TypeFacts, Zenon DEF TypeOK
    <2>2. /\ DOMAIN log' = 1..(n + 1) /\ log'[n + 1] = job[b]
          /\ \A i \in 1..n : log'[i] = log[i]
      BY <1>2, <2>1, Appended
    <2>3. Outcome(b) = "Published"
      <3>1. log' # log
        BY <2>1, <2>2
      <3> QED
        BY <1>2, <3>1, Zenon DEF Publish
    <2>4. n # 0 => /\ JobHeight(log[n]) <= JobHeight(job[b])
                   /\ job[b].body = 0 => log[n].prev # job[b].prev
      <3> SUFFICES ASSUME n # 0
                   PROVE  /\ JobHeight(log[n]) <= JobHeight(job[b])
                          /\ job[b].body = 0 => log[n].prev # job[b].prev
        BY Zenon
      <3>1. log[n] \in Jobs /\ log # << >>
        BY <2>1, ElementOfSeq
      <3>2. JobHeight(log[n]) \in Nat /\ JobHeight(job[b]) \in Nat
        BY <2>1, <3>1, HeightIsNat, Zenon
      <3>3. JobHeight(log[n]) <= JobHeight(job[b])
        BY <2>3, <3>1, <3>2 DEF Outcome, Current
      <3>4. job[b].body = 0 => b = "zmq"
        BY <1>2, Zenon DEF JobsInv, Publish, Broadcasters
      <3>5. b = "zmq" => log[n].prev # job[b].prev
        BY <2>3, <3>1, Zenon DEF Outcome, Current
      <3> QED
        BY <3>3, <3>4, <3>5, Zenon
    <2>5. \A i \in 1..n : JobHeight(log[i]) \in Nat
      <3>1. \A i \in 1..n : log[i] \in Jobs
        BY <2>1, ElementOfSeq, Zenon
      <3> QED
        BY <3>1, HeightIsNat, Zenon
    <2>6. JobHeight(job[b]) \in Nat
      BY <2>1, HeightIsNat, Zenon
    <2> HIDE DEF n
    <2>7. \A i, j \in 1..(n + 1) : i <= j =>
            JobHeight(log'[i]) <= JobHeight(log'[j])
      <3> SUFFICES ASSUME NEW i \in 1..(n + 1), NEW j \in 1..(n + 1), i <= j
                   PROVE  JobHeight(log'[i]) <= JobHeight(log'[j])
        BY Zenon
      <3>1. CASE j \in 1..n
        BY <2>1, <2>2, <3>1 DEF OrderInv
      <3>2. CASE j = n + 1 /\ i \in 1..n
        <4>1. JobHeight(log[i]) <= JobHeight(log[n]) /\ n \in 1..n /\ n # 0
          BY <2>1, <3>2 DEF OrderInv
        <4> QED
          BY <2>2, <2>4, <2>5, <2>6, <3>2, <4>1
      <3>3. CASE j = n + 1 /\ i = n + 1
        BY <2>2, <2>6, <3>3
      <3> QED
        BY <2>1, <3>1, <3>2, <3>3
    <2>8. \A i \in 1..(n + 1) :
            log'[i].body = 0 /\ i > 1 => log'[i - 1].prev # log'[i].prev
      BY <2>1, <2>2, <2>4 DEF OrderInv
    <2> QED
      BY <2>2, <2>7, <2>8, Zenon DEF OrderInv, JobHeight
  <1> QED
    BY <1>1, <1>2, LogGrows, Zenon

\* What a step may do to an SV1 session: only a notify and an authorize touch it.
LEMMA Sv1Moves ==
  ASSUME DeliveryInv, [Next]_vars, NEW c \in Sv1
  PROVE  \/ /\ work'[c] = work[c] /\ last_sequence'[c] = last_sequence[c]
            /\ ready'[c] = ready[c]
         \/ \E b \in Broadcasters : NotifySv1(b, c)
         \/ Authorize(c)
  <1> DEFINE Left == /\ work'[c] = work[c] /\ last_sequence'[c] = last_sequence[c]
                     /\ ready'[c] = ready[c]
             Notified == \E b \in Broadcasters : NotifySv1(b, c)
  <1>0. TypeOK /\ c \in Clients /\ c \notin Sv2
    BY ConstantsAssumption, Zenon DEF DeliveryInv, Clients
  <1>1. ASSUME UNCHANGED <<work, last_sequence, ready>> PROVE Left
    BY <1>1, Zenon
  <1>2. ASSUME NEW b \in Broadcasters, Fanout(b) PROVE Left \/ Notified
    <2>1. CASE \/ Publish(b) \/ CopyClients(b) \/ FanoutDone(b)
               \/ \E d \in Sv2 : EnqueueSv2(b, d)
      BY <1>1, <2>1, Zenon DEF Publish, CopyClients, FanoutDone, EnqueueSv2
    <2>2. ASSUME NEW d \in Sv1, NotifySv1(b, d), d # c PROVE Left
      BY <1>0, <2>2, StateTypes, Zenon DEF NotifySv1
    <2> QED
      BY <1>2, <2>1, <2>2, Zenon DEF Fanout
  <1>3. CASE Node \/ WorkWake \/ WorkTimeout \/ ReloadConfig \/ UNCHANGED vars
    BY <1>1, <1>3, Zenon DEF Node, NodeMoves, TemplateChanges, WorkWake, WorkTimeout,
                      WaitReturns, ReloadConfig, vars
  <1>4. CASE WorkThread /\ ~Fanout("work")
    BY <1>1, <1>4, Zenon DEF WorkThread, WorkDecide, WorkFails, WorkProbe, WorkFetch,
                      WorkBook
  <1>5. CASE ZmqThread /\ ~Fanout("zmq")
    BY <1>1, <1>5, Zenon DEF ZmqThread, ZmqReceive, ZmqHeader, ZmqFails, ZmqRecheck,
                      ZmqClear, ZmqNotify
  <1>6. CASE PublicationThread
    <2>1. CASE PopPublication \/ PlanPublication
      BY <1>1, <2>1, Zenon DEF PopPublication, PlanPublication
    <2>2. CASE CommitPublication
      <3>1. pub.to # c
        BY <1>0, <2>2, Zenon DEF DeliveryInv, Addressed, CommitPublication
      <3> QED
        BY <1>0, <2>2, <3>1, StateTypes, Zenon DEF CommitPublication, CommitJob
    <2> QED
      BY <1>6, <2>1, <2>2, Zenon DEF PublicationThread
  <1>7. ASSUME NEW d \in Clients,
               \/ AddClient(d) \/ RemoveClient(d) \/ Authorize(d)
               \/ OpenChannel(d) \/ UpdateChannel(d)
               \/ PlanRefresh(d) \/ CommitRefresh(d)
        PROVE  Left \/ Authorize(c)
    <2>1. CASE AddClient(d) \/ RemoveClient(d) \/ PlanRefresh(d)
      BY <1>1, <2>1, Zenon DEF AddClient, RemoveClient, PlanRefresh
    <2>2. ASSUME Authorize(d), d # c PROVE Left
      BY <1>0, <2>2, StateTypes, Zenon DEF Authorize
    <2>3. CASE OpenChannel(d) \/ UpdateChannel(d) \/ CommitRefresh(d)
      <3>1. d # c
        BY <1>0, <2>3, Zenon DEF DeliveryInv, Addressed, OpenChannel, UpdateChannel,
                          CommitRefresh
      <3>2. \/ work' = work \/ \E n : work' = [work EXCEPT ![d] = n]
        BY <2>3, Zenon DEF OpenChannel, UpdateChannel, CommitRefresh, CommitJob
      <3>3. \/ last_sequence' = last_sequence
            \/ \E n : last_sequence' = [last_sequence EXCEPT ![d] = n]
        BY <2>3, Zenon DEF OpenChannel, UpdateChannel, CommitRefresh
      <3>4. ready' = ready \/ ready' = [ready EXCEPT ![d] = TRUE]
        BY <2>3, Zenon DEF OpenChannel, UpdateChannel, CommitRefresh
      <3> QED
        BY <1>0, <3>1, <3>2, <3>3, <3>4, StateTypes, Zenon
    <2> QED
      BY <1>7, <2>1, <2>2, <2>3, Zenon
  <1> QED
    BY <1>2, <1>3, <1>4, <1>5, <1>6, <1>7, Zenon DEF Next, Reactors, Broadcasters

\* An SV1 session's work is what its guard holds, and it only moves to a later
\* publication.
LEMMA Sv1Step ==
  ASSUME DeliveryInv, [Next]_vars, NEW c \in Sv1, work[c] = last_sequence[c]
  PROVE  work'[c] = last_sequence'[c] /\ work'[c] >= work[c]
  <1>0. /\ TypeOK /\ c \in Clients
        /\ work[c] \in Nat /\ last_sequence[c] \in Nat
        /\ Len(log) \in Nat /\ work[c] <= Len(log)
    <2>1. TypeOK /\ Sequenced
      BY Zenon DEF DeliveryInv
    <2>2. c \in Clients
      BY Zenon DEF Clients
    <2>3. Len(log) \in Nat
      BY <2>1, TypeFacts, Zenon
    <2>4. work[c] \in Nat /\ last_sequence[c] \in Nat
      BY <2>1, <2>2, Zenon DEF TypeOK
    <2> QED
      BY <2>1, <2>2, <2>3, <2>4, Zenon DEF Sequenced
  <1>1. CASE work'[c] = work[c] /\ last_sequence'[c] = last_sequence[c]
    BY <1>0, <1>1
  <1>2. ASSUME NEW b \in Broadcasters, NotifySv1(b, c)
        PROVE  work'[c] = last_sequence'[c] /\ work'[c] >= work[c]
    <2>1. stamp[b] \in Nat
      BY <1>0, StateTypes, Zenon
    <2>2. \/ work'[c] = work[c] /\ last_sequence'[c] = last_sequence[c]
          \/ /\ stamp[b] > last_sequence[c]
             /\ last_sequence'[c] = stamp[b] /\ work'[c] = stamp[b]
      BY <1>0, <1>2, StateTypes, Zenon DEF NotifySv1
    <2> QED
      BY <1>0, <2>1, <2>2
  <1>3. CASE Authorize(c)
    <2>1. CASE log # << >>
      <3>1. work'[c] = Len(log) /\ last_sequence'[c] = Len(log)
        BY <1>0, <1>3, <2>1, StateTypes DEF Authorize
      <3> QED
        BY <1>0, <3>1, Zenon
    <2>2. CASE log = << >>
      BY <1>1, <1>3, <2>2, Zenon DEF Authorize
    <2> QED
      BY <2>1, <2>2, Zenon
  <1> QED
    BY <1>1, <1>2, <1>3, Sv1Moves, Zenon

\* The facts about the log and the jobs hold in every reachable state.
LEMMA AlwaysLog == Spec => [](DeliveryInv /\ LogInv)
  <1>1. Init => DeliveryInv /\ LogInv
    BY InitDelivery, InitLog, Zenon
  <1>2. DeliveryInv /\ LogInv /\ [Next]_vars => (DeliveryInv /\ LogInv)'
    <2> SUFFICES ASSUME DeliveryInv, LogInv, [Next]_vars
                 PROVE  DeliveryInv' /\ LogInv'
      BY Zenon
    <2>1. DeliveryInv' /\ JobsInv' /\ OrderInv'
      BY NextDelivery, NextJobs, NextOrder, Zenon DEF DeliveryInv, LogInv
    <2>2. \A c \in Sv1 : work'[c] = last_sequence'[c]
      BY Sv1Step, Zenon DEF LogInv
    <2> QED
      BY <2>1, <2>2, Zenon DEF LogInv
  <1> QED
    BY <1>1, <1>2, PTL DEF Spec

\* The work of an SV1 session before and after a step, as entries of the log.
LEMMA Sv1Work ==
  ASSUME DeliveryInv, LogInv, [Next]_vars, NEW c \in Sv1, work[c] # 0
  PROVE  /\ work[c] \in DOMAIN log' /\ work'[c] \in DOMAIN log'
         /\ work'[c] >= work[c] /\ log'[work[c]] = log[work[c]]
  <1>0. /\ TypeOK /\ c \in Clients /\ work[c] \in 1..Len(log)
        /\ Len(log) \in Nat /\ DOMAIN log = 1..Len(log) /\ log \in Seq(Jobs)
    <2>1. TypeOK /\ Sequenced
      BY Zenon DEF DeliveryInv
    <2>2. Len(log) \in Nat /\ DOMAIN log = 1..Len(log)
      BY <2>1, TypeFacts, Zenon
    <2>3. c \in Clients /\ log \in Seq(Jobs) /\ work[c] \in Nat
      BY <2>1, Zenon DEF TypeOK, Clients
    <2> QED
      BY <2>1, <2>2, <2>3 DEF Sequenced
  <1>1. work'[c] >= work[c]
    BY Sv1Step, Zenon DEF LogInv
  <1>2. DeliveryInv'
    BY NextDelivery, Zenon
  <1>3. /\ DOMAIN log' = 1..Len(log') /\ Len(log') \in Nat
        /\ work'[c] \in Nat /\ work'[c] <= Len(log')
    <2>1. TypeOK' /\ Sequenced'
      BY <1>2, Zenon DEF DeliveryInv
    <2>2. log' \in Seq(Jobs) /\ work' \in [Clients -> Nat]
      BY <2>1, Zenon DEF TypeOK
    <2> QED
      BY <1>0, <2>1, <2>2, LenProperties, Zenon DEF Sequenced
  <1>4. Len(log') >= Len(log) /\ log'[work[c]] = log[work[c]]
    <2>1. CASE log' = log
      BY <1>0, <2>1
    <2>2. ASSUME NEW b \in Broadcasters, log' = Append(log, job[b])
          PROVE  Len(log') >= Len(log) /\ log'[work[c]] = log[work[c]]
      <3>1. job[b] \in Jobs
        BY <1>0, Zenon DEF TypeOK
      <3> QED
        BY <1>0, <2>2, <3>1, AppendProperties
    <2> QED
      BY <1>0, <2>1, <2>2, LogGrows, Zenon
  <1> QED
    BY <1>0, <1>1, <1>3, <1>4

\* An SV1 miner is never sent back to an older publication or a lower height.
THEOREM Sv1WorkIsMonotone == Spec => Sv1NeverRegresses
  <1> DEFINE Forward == \A c \in Sv1 : work[c] # 0 =>
                work'[c] >= work[c] /\ WorkHeight(c)' >= WorkHeight(c)
  <1>1. DeliveryInv /\ LogInv /\ (DeliveryInv /\ LogInv)' /\ [Next]_vars
          => [Forward]_vars
    <2> SUFFICES ASSUME DeliveryInv, LogInv, (DeliveryInv /\ LogInv)',
                        [Next]_vars, NEW c \in Sv1, work[c] # 0
                 PROVE  work'[c] >= work[c] /\ WorkHeight(c)' >= WorkHeight(c)
      BY Zenon
    <2>1. /\ work[c] \in DOMAIN log' /\ work'[c] \in DOMAIN log'
          /\ work'[c] >= work[c] /\ log'[work[c]] = log[work[c]]
      BY Sv1Work, Zenon
    <2>2. /\ log' \in Seq(Jobs) /\ DOMAIN log' = 1..Len(log') /\ Len(log') \in Nat
      BY LenProperties, Zenon DEF DeliveryInv, TypeOK
    <2>3. log'[work[c]] \in Jobs /\ log'[work'[c]] \in Jobs
      BY <2>1, <2>2, ElementOfSeq, Zenon
    <2>4. JobHeight(log'[work[c]]) \in Nat /\ JobHeight(log'[work'[c]]) \in Nat
      BY <2>3, HeightIsNat, Zenon
    <2>5. JobHeight(log'[work[c]]) <= JobHeight(log'[work'[c]])
      BY <2>1, <2>2, Zenon DEF LogInv, OrderInv, JobHeight
    <2> QED
      BY <2>1, <2>4, <2>5, Zenon DEF WorkHeight, JobHeight
  <1> QED
    BY <1>1, AlwaysLog, PTL DEF Spec, Sv1NeverRegresses

\* A full template is followed by the empty job of the same parent only when
\* work for a competing parent was published in between.
THEOREM FeesAreKept == Spec => FeesKept
  <1> DEFINE Kept == \A c \in Sv1 :
                /\ work[c] # 0 /\ log[work[c]].body # 0
                /\ WorkParent(c)' = WorkParent(c) /\ (log[work[c]].body)' = 0
                => \E n \in work[c]..work'[c] : log'[n].prev # WorkParent(c)
  <1>1. DeliveryInv /\ LogInv /\ (DeliveryInv /\ LogInv)' /\ [Next]_vars
          => [Kept]_vars
    <2> SUFFICES ASSUME DeliveryInv, LogInv, (DeliveryInv /\ LogInv)',
                        [Next]_vars, NEW c \in Sv1,
                        work[c] # 0, log[work[c]].body # 0,
                        WorkParent(c)' = WorkParent(c),
                        (log[work[c]].body)' = 0
                 PROVE  \E n \in work[c]..work'[c] :
                           log'[n].prev # WorkParent(c)
      BY Zenon
    <2>1. /\ work[c] \in DOMAIN log' /\ work'[c] \in DOMAIN log'
          /\ work'[c] >= work[c] /\ log'[work[c]] = log[work[c]]
      BY Sv1Work, Zenon
    <2>2. DOMAIN log' = 1..Len(log') /\ Len(log') \in Nat
      BY LenProperties, StateTypes DEF DeliveryInv
    <2>3. work'[c] # work[c]
      BY <2>1, Zenon
    <2>4. work'[c] - 1 \in work[c]..work'[c] /\ work'[c] > 1
      BY <2>1, <2>2, <2>3
    <2>5. log'[work'[c] - 1].prev # log'[work'[c]].prev
      BY <2>1, <2>4, Zenon DEF LogInv, OrderInv
    <2> QED
      BY <2>4, <2>5, Zenon DEF WorkParent
  <1> QED
    BY <1>1, AlwaysLog, PTL DEF Spec, FeesKept

-----------------------------------------------------------------------------
(* The clean flag.                                                          *)

\* build_and_broadcast has a template in hand.
Working == pc["work"] \in {"publish", "copy", "fanout", "book"}
Sending == pc["work"] \in {"copy", "fanout"}

\* The template in hand is publication i and still to be sent to session c.
ToSend(i, c) ==
    /\ i = stamp["work"]
    /\ pc["work"] = "copy" \/ (pc["work"] = "fanout" /\ c \in recipients["work"])

\* A session has every template that was published while it was connected, or a
\* later job, except the one that is being sent.
TemplatesSent ==
    \A i \in DOMAIN log : log[i].body # 0 =>
       \A c \in Sv1 : c \in clients \cup recipients["work"] /\ ready[c]
          => work[c] >= i \/ ToSend(i, c)

\* The template last_prevhash_ is about was published, and sent.
Booked ==
    \E i \in DOMAIN log :
       /\ log[i].prev = last_prevhash /\ log[i].body # 0
       /\ Sending => i # stamp["work"]

\* What the work thread knows of the template in hand.
InHand ==
    /\ Working => job["work"].body # 0
    /\ Working /\ ~clean["work"] => job["work"].prev = last_prevhash
    /\ Sending => stamp["work"] \in DOMAIN log /\ log[stamp["work"]] = job["work"]
    /\ pc["work"] = "book" => \E i \in DOMAIN log : log[i] = job["work"]
    /\ last_prevhash # None => Booked

\* Empty jobs are always clean, and a session with work is ready.
CleanInv ==
    /\ clean["zmq"] /\ \A c \in Sv1 : work[c] # 0 => ready[c]
    /\ InHand /\ TemplatesSent

\* No template is in hand at the start.
LEMMA InitClean == Init => CleanInv
  <1> SUFFICES ASSUME Init PROVE CleanInv
    BY Zenon
  <1>1. DOMAIN log = {} /\ last_prevhash = None /\ pc["work"] = "idle" /\ clean["zmq"]
    BY DEF Init, Broadcasters
  <1>2. \A c \in Sv1 : work[c] = 0
    BY Zenon DEF Init, Clients
  <1>3. InHand
    BY <1>1, Zenon DEF InHand, Working, Sending
  <1> QED
    BY <1>1, <1>2, <1>3, Zenon DEF CleanInv, TemplatesSent

\* Only the work thread touches its template, its flag and last_prevhash_.
LEMMA WorkMoves ==
  ASSUME TypeOK, [Next]_vars
  PROVE  /\ clean'["zmq"] = clean["zmq"]
         /\ \/ WorkThread \/ WorkWake \/ WorkTimeout
            \/ /\ pc'["work"] = pc["work"] /\ job'["work"] = job["work"]
               /\ stamp'["work"] = stamp["work"] /\ clean'["work"] = clean["work"]
               /\ recipients'["work"] = recipients["work"]
               /\ last_prevhash' = last_prevhash
  <1> DEFINE Left == /\ pc'["work"] = pc["work"] /\ job'["work"] = job["work"]
                     /\ stamp'["work"] = stamp["work"] /\ clean'["work"] = clean["work"]
                     /\ recipients'["work"] = recipients["work"]
                     /\ last_prevhash' = last_prevhash
             Zmq == clean'["zmq"] = clean["zmq"]
  <1>0. /\ pc \in [Broadcasters -> ThreadStates] /\ job \in [Broadcasters -> Jobs]
        /\ stamp \in [Broadcasters -> Nat] /\ clean \in [Broadcasters -> BOOLEAN]
        /\ recipients \in [Broadcasters -> SUBSET Clients]
        /\ "work" \in Broadcasters /\ "zmq" \in Broadcasters
    BY Zenon DEF TypeOK, Broadcasters
  <1>1. ASSUME UNCHANGED <<pc, job, stamp, clean, recipients, last_prevhash>>
        PROVE  Left /\ Zmq
    BY <1>1, Zenon
  <1>2. CASE Node \/ ReloadConfig \/ PublicationThread \/ UNCHANGED vars
    BY <1>1, <1>2, Zenon DEF Node, NodeMoves, TemplateChanges, ReloadConfig, vars,
         PublicationThread, PopPublication, PlanPublication, CommitPublication
  <1>3. CASE Reactors
    BY <1>1, <1>3, Zenon DEF Reactors, AddClient, RemoveClient, Authorize, OpenChannel,
         UpdateChannel, PlanRefresh, CommitRefresh
  <1>4. CASE ZmqThread
    <2>1. clean' = clean /\ last_prevhash' = last_prevhash
      BY <1>4, Zenon DEF ZmqThread, Fanout, Publish, CopyClients, FanoutDone, NotifySv1,
           EnqueueSv2, ZmqReceive, ZmqHeader, ZmqFails, ZmqRecheck, ZmqClear, ZmqNotify
    <2>2. pc' = pc \/ \E v : pc' = [pc EXCEPT !["zmq"] = v]
      BY <1>4, Zenon DEF ZmqThread, Fanout, Publish, CopyClients, FanoutDone, NotifySv1,
           EnqueueSv2, ZmqReceive, ZmqHeader, ZmqFails, ZmqRecheck, ZmqClear, ZmqNotify
    <2>3. job' = job \/ \E v : job' = [job EXCEPT !["zmq"] = v]
      BY <1>4, Zenon DEF ZmqThread, Fanout, Publish, CopyClients, FanoutDone, NotifySv1,
           EnqueueSv2, ZmqReceive, ZmqHeader, ZmqFails, ZmqRecheck, ZmqClear, ZmqNotify
    <2>4. stamp' = stamp \/ \E v : stamp' = [stamp EXCEPT !["zmq"] = v]
      BY <1>4, Zenon DEF ZmqThread, Fanout, Publish, CopyClients, FanoutDone, NotifySv1,
           EnqueueSv2, ZmqReceive, ZmqHeader, ZmqFails, ZmqRecheck, ZmqClear, ZmqNotify
    <2>5. \/ recipients' = recipients
          \/ \E v : recipients' = [recipients EXCEPT !["zmq"] = v]
      BY <1>4, Zenon DEF ZmqThread, Fanout, Publish, CopyClients, FanoutDone, NotifySv1,
           EnqueueSv2, ZmqReceive, ZmqHeader, ZmqFails, ZmqRecheck, ZmqClear, ZmqNotify
    <2> QED
      BY <1>0, <2>1, <2>2, <2>3, <2>4, <2>5, Zenon
  <1>5. CASE WorkThread \/ WorkWake \/ WorkTimeout
    <2>1. clean' = clean \/ \E v : clean' = [clean EXCEPT !["work"] = v]
      BY <1>5, Zenon DEF WorkThread, Fanout, Publish, CopyClients, FanoutDone, NotifySv1,
           EnqueueSv2, WorkDecide, WorkFails, WorkProbe, WorkFetch, WorkBook, WorkWake,
           WorkTimeout, WaitReturns
    <2> QED
      BY <1>0, <1>5, <2>1, Zenon
  <1> QED
    BY <1>2, <1>3, <1>4, <1>5, Zenon DEF Next

\* A published job stays where it is.
LEMMA LogKept ==
  ASSUME TypeOK, [Next]_vars
  PROVE  \A i \in DOMAIN log : i \in DOMAIN log' /\ log'[i] = log[i]
  <1>1. ASSUME NEW b \in Broadcasters, log' = Append(log, job[b])
        PROVE  \A i \in DOMAIN log : i \in DOMAIN log' /\ log'[i] = log[i]
    <2>1. /\ Len(log) \in Nat /\ DOMAIN log = 1..Len(log) /\ log \in Seq(Jobs)
          /\ job[b] \in Jobs
      BY TypeFacts, Zenon DEF TypeOK
    <2>2. /\ DOMAIN log' = 1..(Len(log) + 1)
          /\ \A i \in 1..Len(log) : log'[i] = log[i]
      BY <1>1, <2>1, Appended
    <2> QED
      BY <2>1, <2>2
  <1> QED
    BY <1>1, LogGrows, Zenon

\* A template is in hand from the fetch on: its flag is decided against
\* last_prevhash_, it is published, or was before, and then sent and booked.
LEMMA NextInHand ==
  ASSUME TypeOK, JobsInv, InHand, [Next]_vars
  PROVE  InHand'
  <1> DEFINE Same == pc'["work"] = pc["work"] /\ job'["work"] = job["work"]
                     /\ stamp'["work"] = stamp["work"] /\ clean'["work"] = clean["work"]
                     /\ last_prevhash' = last_prevhash
  <1>0. /\ pc \in [Broadcasters -> ThreadStates] /\ job \in [Broadcasters -> Jobs]
        /\ stamp \in [Broadcasters -> Nat] /\ clean \in [Broadcasters -> BOOLEAN]
        /\ "work" \in Broadcasters /\ tip \in Blocks
    BY Zenon DEF TypeOK, Broadcasters
  <1>1. \A i \in DOMAIN log : i \in DOMAIN log' /\ log'[i] = log[i]
    BY LogKept, Zenon
  <1>2. ASSUME Same PROVE InHand'
    <2>1. Working' <=> Working
      BY <1>2, Zenon DEF Working
    <2>2. Sending' <=> Sending
      BY <1>2, Zenon DEF Sending
    <2>3. Booked => Booked'
      BY <1>1, <1>2, <2>2, Zenon DEF Booked
    <2> QED
      BY <1>1, <1>2, <2>1, <2>2, <2>3, Zenon DEF InHand
  <1>3. ASSUME ~Working', last_prevhash' = last_prevhash PROVE InHand'
    <2>1. ~Sending' /\ pc'["work"] # "book"
      BY <1>3, Zenon DEF Working, Sending
    <2>2. Booked => Booked'
      BY <1>1, <1>3, <2>1, Zenon DEF Booked
    <2> QED
      BY <1>3, <2>1, <2>2, Zenon DEF InHand
  <1>4. CASE \/ WorkDecide(TRUE) \/ WorkDecide(FALSE) \/ WorkFails \/ WorkProbe
             \/ WaitReturns
    <2>1. \E v \in {"fetch", "probe", "wait", "idle"} : pc' = [pc EXCEPT !["work"] = v]
      BY <1>4, Zenon DEF WorkDecide, WorkFails, WorkProbe, WaitReturns
    <2>2. ~Working'
      BY <1>0, <2>1, Zenon DEF Working
    <2>3. last_prevhash' = last_prevhash
      BY <1>4, Zenon DEF WorkDecide, WorkFails, WorkProbe, WaitReturns
    <2> QED
      BY <1>3, <2>2, <2>3, Zenon
  <1>5. CASE WorkFetch
    <2>1. /\ job'["work"] = [prev |-> tip, body |-> revision]
          /\ clean'["work"] = (tip # last_prevhash)
          /\ last_prevhash' = last_prevhash
          /\ pc'["work"] \in {"wait", "publish"}
      BY <1>0, <1>5, Zenon DEF WorkFetch, NewBlock
    <2>2. ~Sending' /\ pc'["work"] # "book"
      BY <2>1, Zenon DEF Sending
    <2>3. job'["work"].body # 0 /\ job'["work"].prev = tip
      BY <2>1 DEF JobsInv
    <2>4. Booked => Booked'
      BY <1>1, <2>1, <2>2, Zenon DEF Booked
    <2>5. ~clean'["work"] => job'["work"].prev = last_prevhash'
      BY <2>1, <2>3, Zenon
    <2> QED
      BY <2>1, <2>2, <2>3, <2>4, <2>5, Zenon DEF InHand
  <1>6. CASE WorkBook
    <2>1. /\ last_prevhash' = job["work"].prev /\ pc["work"] = "book"
          /\ pc'["work"] = "wait" /\ log' = log
      BY <1>0, <1>6, Zenon DEF WorkBook
    <2>2. ~Working' /\ ~Sending' /\ Working
      BY <2>1, Zenon DEF Working, Sending
    <2>3. Booked'
      BY <2>1, <2>2, Zenon DEF Booked, InHand
    <2> QED
      BY <2>1, <2>2, <2>3, Zenon DEF InHand
  <1>7. CASE Publish("work")
    <2>0. /\ pc["work"] = "publish" /\ Working /\ ~Sending
          /\ job' = job /\ clean' = clean /\ last_prevhash' = last_prevhash
      BY <1>7, Zenon DEF Publish, Working, Sending
    <2>1. CASE Outcome("work") = "Published"
      <3>1. /\ log' = Append(log, job["work"]) /\ stamp'["work"] = Len(log) + 1
            /\ pc'["work"] = "copy"
        BY <1>0, <1>7, <2>1, Zenon DEF Publish
      <3>2. /\ Len(log) \in Nat /\ DOMAIN log = 1..Len(log) /\ log \in Seq(Jobs)
            /\ job["work"] \in Jobs
        BY <1>0, TypeFacts, Zenon DEF TypeOK
      <3>3. Len(log) + 1 \in DOMAIN log' /\ log'[Len(log) + 1] = job["work"]
        BY <3>1, <3>2, Appended
      <3>4. Sending' /\ pc'["work"] # "book" /\ Working'
        BY <3>1, Zenon DEF Sending, Working
      <3>5. \A i \in DOMAIN log : i # Len(log) + 1
        BY <3>2
      <3>6. Booked => Booked'
        BY <1>1, <2>0, <3>1, <3>5, Zenon DEF Booked
      <3> QED
        BY <2>0, <3>1, <3>3, <3>4, <3>6, Zenon DEF InHand
    <2>2. CASE Outcome("work") = "StaleHeight"
      <3>1. pc'["work"] = "wait"
        BY <1>0, <1>7, <2>2, Zenon DEF Publish, AfterRefusal
      <3> QED
        BY <1>3, <2>0, <3>1, Zenon DEF Working
    <2>3. CASE Outcome("work") = "Duplicate"
      <3>1. pc'["work"] = "book" /\ log' = log
        BY <1>0, <1>7, <2>3, Zenon DEF Publish, AfterRefusal
      <3>2. log # << >> /\ Current = job["work"]
        BY <2>3, Zenon DEF Outcome
      <3>3. Len(log) \in DOMAIN log' /\ log'[Len(log)] = job["work"]
        BY <3>1, <3>2, TypeFacts DEF Current
      <3>4. ~Sending' /\ Working'
        BY <3>1, Zenon DEF Sending, Working
      <3>5. Booked => Booked'
        BY <1>1, <2>0, <3>4, Zenon DEF Booked
      <3> QED
        BY <2>0, <3>1, <3>3, <3>4, <3>5, Zenon DEF InHand
    <2> QED
      BY <2>1, <2>2, <2>3, Zenon DEF Outcome
  <1>8. CASE CopyClients("work")
    <2>1. /\ pc["work"] = "copy" /\ pc'["work"] = "fanout"
          /\ UNCHANGED <<log, job, stamp, clean, last_prevhash>>
      BY <1>0, <1>8, Zenon DEF CopyClients
    <2>2. Sending /\ Sending' /\ Working /\ pc'["work"] # "book"
      BY <2>1, Zenon DEF Sending, Working
    <2>3. Booked => Booked'
      BY <2>1, <2>2, Zenon DEF Booked
    <2> QED
      BY <2>1, <2>2, <2>3, Zenon DEF InHand
  <1>9. CASE FanoutDone("work")
    <2>1. /\ pc["work"] = "fanout" /\ pc'["work"] = "book"
          /\ UNCHANGED <<log, job, stamp, clean, last_prevhash>>
      BY <1>0, <1>9, Zenon DEF FanoutDone
    <2>2. Sending /\ ~Sending' /\ Working
      BY <2>1, Zenon DEF Sending, Working
    <2>3. Booked => Booked'
      BY <2>1, <2>2, Zenon DEF Booked
    <2> QED
      BY <2>1, <2>2, <2>3, Zenon DEF InHand
  <1>10. CASE \/ \E c \in Sv1 : NotifySv1("work", c)
              \/ \E c \in Sv2 : EnqueueSv2("work", c)
    <2>1. UNCHANGED <<pc, job, stamp, clean, last_prevhash>>
      BY <1>10, Zenon DEF NotifySv1, EnqueueSv2
    <2> QED
      BY <1>2, <2>1, Zenon
  <1> QED
    BY <1>2, <1>4, <1>5, <1>6, <1>7, <1>8, <1>9, <1>10, WorkMoves, Zenon
    DEF WorkThread, Fanout, WorkWake, WorkTimeout

\* Who may be served: a client list is copied, and grows only by a session that
\* was never connected before.
LEMMA Joins ==
  ASSUME TypeOK, [Next]_vars,
         NEW c \in clients' \cup recipients'["work"], c \notin clients \cup recipients["work"]
  PROVE  c \notin clients \cup departed /\ UNCHANGED ready
  <1>0. recipients \in [Broadcasters -> SUBSET Clients] /\ "work" \in Broadcasters
    BY Zenon DEF TypeOK, Broadcasters
  <1>1. recipients'["work"] \subseteq clients \cup recipients["work"]
    <2>1. CASE Fanout("work")
      <3>1. \/ recipients' = recipients
            \/ recipients' = [recipients EXCEPT !["work"] = clients]
            \/ \E d : recipients' = [recipients EXCEPT !["work"] = @ \ {d}]
        BY <2>1, Zenon DEF Fanout, Publish, CopyClients, FanoutDone, NotifySv1, EnqueueSv2
      <3> QED
        BY <1>0, <3>1, Zenon
    <2>2. CASE ~Fanout("work") /\ (WorkThread \/ WorkWake \/ WorkTimeout)
      BY <2>2, Zenon DEF WorkThread, WorkDecide, WorkFails, WorkProbe, WorkFetch, WorkBook,
           WorkWake, WorkTimeout, WaitReturns
    <2> QED
      BY <2>1, <2>2, WorkMoves, Zenon
  <1>2. c \in clients' /\ c \notin clients
    BY <1>1, Zenon
  <1>3. clients' # clients
    BY <1>2, Zenon
  <1>4. \/ Reactors \/ Node \/ WorkThread \/ WorkWake \/ WorkTimeout \/ ZmqThread
        \/ ReloadConfig \/ PublicationThread \/ UNCHANGED vars
    BY Zenon DEF Next
  <1>5. Reactors
    <2>1. ~Node /\ ~WorkWake /\ ~WorkTimeout /\ ~ReloadConfig /\ ~UNCHANGED vars
      BY <1>3, Zenon DEF Node, NodeMoves, TemplateChanges, WorkWake, WorkTimeout,
           WaitReturns, ReloadConfig, vars
    <2>2. ~PublicationThread
      BY <1>3, Zenon DEF PublicationThread, PopPublication, PlanPublication,
           CommitPublication
    <2>3. ~WorkThread
      BY <1>3, Zenon DEF WorkThread, Fanout, Publish, CopyClients, FanoutDone, NotifySv1,
           EnqueueSv2, WorkDecide, WorkFails, WorkProbe, WorkFetch, WorkBook
    <2>4. ~ZmqThread
      BY <1>3, Zenon DEF ZmqThread, Fanout, Publish, CopyClients, FanoutDone, NotifySv1,
           EnqueueSv2, ZmqReceive, ZmqHeader, ZmqFails, ZmqRecheck, ZmqClear, ZmqNotify
    <2> QED
      BY <1>4, <2>1, <2>2, <2>3, <2>4, Zenon
  <1>6. PICK d \in Clients : AddClient(d) \/ RemoveClient(d)
    BY <1>3, <1>5, Zenon DEF Reactors, Authorize, OpenChannel, UpdateChannel, PlanRefresh,
         CommitRefresh
  <1>7. AddClient(d)
    BY <1>2, <1>6, Zenon DEF RemoveClient
  <1> QED
    BY <1>2, <1>7, Zenon DEF AddClient

\* While the template in hand is being sent to a session, it is sent to it next or
\* stays on its way.
LEMMA StaysToSend ==
  ASSUME TypeOK, [Next]_vars, NEW c \in Sv1, NEW i, ToSend(i, c),
         c \in clients' \cup recipients'["work"], ~NotifySv1("work", c)
  PROVE  ToSend(i, c)'
  <1>0. /\ pc \in [Broadcasters -> ThreadStates] /\ stamp \in [Broadcasters -> Nat]
        /\ recipients \in [Broadcasters -> SUBSET Clients]
        /\ "work" \in Broadcasters /\ c \notin Sv2
        /\ pc["work"] \in {"copy", "fanout"}
    BY ConstantsAssumption, Zenon DEF TypeOK, Broadcasters, ToSend
  <1>1. CASE /\ pc'["work"] = pc["work"] /\ stamp'["work"] = stamp["work"]
             /\ recipients'["work"] = recipients["work"]
    BY <1>1, Zenon DEF ToSend
  <1>2. CASE CopyClients("work")
    <2>1. /\ pc'["work"] = "fanout" /\ recipients'["work"] = clients
          /\ clients' = clients /\ stamp' = stamp
      BY <1>0, <1>2, Zenon DEF CopyClients
    <2> QED
      BY <2>1, Zenon DEF ToSend
  <1>3. ASSUME NEW d, NotifySv1("work", d) \/ EnqueueSv2("work", d), d # c
        PROVE  ToSend(i, c)'
    <2>1. /\ recipients' = [recipients EXCEPT !["work"] = @ \ {d}]
          /\ pc' = pc /\ stamp' = stamp
      BY <1>3, Zenon DEF NotifySv1, EnqueueSv2
    <2>2. recipients'["work"] = recipients["work"] \ {d}
      BY <1>0, <2>1, Zenon
    <2> QED
      BY <1>3, <2>1, <2>2, Zenon DEF ToSend
  <1>4. ~FanoutDone("work") /\ ~Publish("work")
    BY <1>0, Zenon DEF FanoutDone, Publish, ToSend
  <1>5. /\ ~WorkDecide(TRUE) /\ ~WorkDecide(FALSE) /\ ~WorkFails /\ ~WorkProbe
        /\ ~WorkFetch /\ ~WorkBook /\ ~WaitReturns
    BY <1>0, Zenon DEF WorkDecide, WorkFails, WorkProbe, WorkFetch, WorkBook, WaitReturns
  <1> QED
    BY <1>0, <1>1, <1>2, <1>3, <1>4, <1>5, WorkMoves, Zenon
    DEF WorkThread, Fanout, WorkWake, WorkTimeout

\* A published template reaches the sessions of the client list copied after it,
\* and a session that joins later starts with a later job.
LEMMA NextTemplates ==
  ASSUME DeliveryInv, LogInv, InHand, TemplatesSent, [Next]_vars
  PROVE  TemplatesSent'
  <1> SUFFICES ASSUME NEW i \in DOMAIN log', log'[i].body # 0, NEW c \in Sv1,
                      c \in clients' \cup recipients'["work"], ready'[c]
               PROVE  work'[c] >= i \/ ToSend(i, c)'
    BY Zenon DEF TemplatesSent
  <1>0. /\ TypeOK /\ c \in Clients /\ work[c] \in Nat /\ work'[c] \in Nat
        /\ work[c] = last_sequence[c] /\ work'[c] >= work[c]
        /\ Len(log) \in Nat /\ DOMAIN log = 1..Len(log)
    <2>1. TypeOK /\ TypeOK' /\ c \in Clients
      BY NextDelivery, Zenon DEF DeliveryInv, Clients
    <2>2. work[c] = last_sequence[c] /\ work'[c] >= work[c]
      BY Sv1Step, Zenon DEF LogInv
    <2> QED
      BY <2>1, <2>2, TypeFacts, Zenon DEF TypeOK
  <1>1. ASSUME NEW j \in Nat, j \in DOMAIN log, log[j].body # 0, ready[c],
               c \in clients \cup recipients["work"]
        PROVE  work'[c] >= j \/ ToSend(j, c)
    <2>1. work[c] >= j \/ ToSend(j, c)
      BY <1>1, Zenon DEF TemplatesSent
    <2> QED
      BY <1>0, <1>1, <2>1
  <1>2. CASE Authorize(c)
    <2>1. log' = log
      BY <1>2, Zenon DEF Authorize
    <2>2. log # << >>
      BY <1>0, <2>1, TypeFacts
    <2>3. work'[c] = Len(log)
      BY <1>0, <1>2, <2>2, StateTypes, Zenon DEF Authorize
    <2> QED
      BY <1>0, <2>1, <2>3
  <1>3. CASE NotifySv1("work", c)
    <2>1. /\ log' = log /\ ready' = ready /\ pc["work"] = "fanout"
          /\ c \in recipients["work"]
      BY <1>3, Zenon DEF NotifySv1
    <2>2. i \in Nat /\ (work'[c] >= i \/ ToSend(i, c))
      BY <1>0, <1>1, <2>1
    <2>3. stamp["work"] \in Nat /\ last_sequence[c] \in Nat
      BY <1>0, StateTypes, Zenon DEF Broadcasters
    <2>4. stamp["work"] > last_sequence[c] => work'[c] = stamp["work"]
      BY <1>0, <1>3, <2>1, StateTypes, Zenon DEF NotifySv1
    <2>5. ToSend(i, c) => i = stamp["work"]
      BY Zenon DEF ToSend
    <2> QED
      BY <1>0, <2>2, <2>3, <2>4, <2>5
  <1>4. CASE ~Authorize(c) /\ ~NotifySv1("work", c)
    <2>1. ready[c] /\ c \in clients \cup recipients["work"]
      <3>1. ready[c]
        BY <1>4, Sv1Moves, Zenon DEF NotifySv1
      <3>2. ready[c] => c \in clients \cup departed
        BY <1>0, Zenon DEF DeliveryInv, Addressed
      <3> QED
        BY <1>0, <3>1, <3>2, Joins, Zenon
    <2>2. CASE i \in DOMAIN log
      <3>1. log[i].body # 0 /\ i \in Nat
        BY <1>0, <2>2, LogKept
      <3> QED
        BY <1>0, <1>1, <1>4, <2>1, <2>2, <3>1, StaysToSend, Zenon
    <2>3. CASE i \notin DOMAIN log
      <3>1. PICK b \in Broadcasters : Publish(b) /\ log' = Append(log, job[b])
        BY <1>0, <2>3, LogGrows, Zenon
      <3>2. job[b] \in Jobs /\ log \in Seq(Jobs)
        BY <1>0, Zenon DEF TypeOK
      <3>3. i = Len(log) + 1 /\ log'[i] = job[b]
        <4>1. DOMAIN log' = 1..(Len(log) + 1) /\ log'[Len(log) + 1] = job[b]
          BY <3>1, <3>2, Appended
        <4> QED
          BY <1>0, <2>3, <4>1
      <3>4. b = "work"
        BY <3>3, Zenon DEF LogInv, JobsInv, Broadcasters
      <3>5. log' # log
        BY <2>3, Zenon
      <3>6. stamp'["work"] = Len(log) + 1 /\ pc'["work"] = "copy"
        BY <1>0, <3>1, <3>4, <3>5, StateTypes, Zenon DEF Publish, Broadcasters
      <3> QED
        BY <3>3, <3>6, Zenon DEF ToSend
    <2> QED
      BY <2>2, <2>3, Zenon
  <1> QED
    BY <1>2, <1>3, <1>4, Zenon

\* The facts about the clean flag hold in every reachable state.
LEMMA AlwaysClean == Spec => []CleanInv
  <1>1. DeliveryInv /\ LogInv /\ CleanInv /\ [Next]_vars => CleanInv'
    <2> SUFFICES ASSUME DeliveryInv, LogInv, CleanInv, [Next]_vars PROVE CleanInv'
      BY Zenon
    <2>0. TypeOK /\ JobsInv /\ InHand /\ TemplatesSent
      BY Zenon DEF DeliveryInv, LogInv, CleanInv
    <2>1. InHand' /\ TemplatesSent'
      BY <2>0, NextInHand, NextTemplates, Zenon
    <2>2. clean'["zmq"]
      BY <2>0, WorkMoves, Zenon DEF CleanInv
    <2>3. ASSUME NEW c \in Sv1, work'[c] # 0 PROVE ready'[c]
      <3>0. c \in Clients /\ ready \in [Clients -> BOOLEAN] /\ work \in [Clients -> Nat]
        BY <2>0, StateTypes, Zenon DEF Clients
      <3>1. CASE work'[c] = work[c] /\ ready'[c] = ready[c]
        BY <2>3, <3>1, Zenon DEF CleanInv
      <3>2. CASE Authorize(c)
        BY <3>0, <3>2, Zenon DEF Authorize
      <3>3. ASSUME NEW b \in Broadcasters, NotifySv1(b, c) PROVE ready'[c]
        BY <2>3, <3>0, <3>3, Zenon DEF NotifySv1, CleanInv
      <3> QED
        BY <3>1, <3>2, <3>3, Sv1Moves, Zenon
    <2> QED
      BY <2>1, <2>2, <2>3, Zenon DEF CleanInv
  <1> QED
    BY <1>1, InitClean, AlwaysLog, PTL DEF Spec

\* The flag of a full template is decided against last_prevhash_, which only a
\* template that was sent to everyone sets.  So a miner that is notified without it
\* is on work between the two templates of one parent, hence of the same height.
THEOREM NewHeightsAreClean == Spec => CleanOnNewHeight
  <1> DEFINE Told == \A c \in Sv1 : work[c] # 0 /\ WorkHeight(c)' # WorkHeight(c)
                        => clean_sent'[c]
  <1>1. DeliveryInv /\ LogInv /\ CleanInv /\ (DeliveryInv /\ LogInv)' /\ [Next]_vars
          => [Told]_vars
    <2> SUFFICES ASSUME DeliveryInv, LogInv, CleanInv, (DeliveryInv /\ LogInv)',
                        [Next]_vars, NEW c \in Sv1, work[c] # 0,
                        WorkHeight(c)' # WorkHeight(c)
                 PROVE  clean_sent'[c]
      BY Zenon
    <2>0. /\ TypeOK /\ c \in Clients /\ clean_sent \in [Clients -> BOOLEAN]
          /\ clean \in [Broadcasters -> BOOLEAN] /\ work \in [Clients -> Nat]
      BY Zenon DEF DeliveryInv, TypeOK, Clients
    <2>1. /\ work[c] \in DOMAIN log' /\ work'[c] \in DOMAIN log'
          /\ work'[c] >= work[c] /\ log'[work[c]] = log[work[c]]
      BY Sv1Work, Zenon
    <2>2. work'[c] # work[c]
      BY <2>1, Zenon DEF WorkHeight, JobHeight
    <2>3. CASE Authorize(c)
      BY <2>0, <2>2, <2>3, Zenon DEF Authorize
    <2>4. ASSUME NEW b \in Broadcasters, NotifySv1(b, c), clean[b] PROVE clean_sent'[c]
      BY <2>0, <2>2, <2>4, Zenon DEF NotifySv1
    <2>5. ASSUME NotifySv1("work", c), ~clean["work"] PROVE FALSE
      <3>1. /\ work'[c] = stamp["work"] /\ log' = log /\ ready[c]
            /\ pc["work"] = "fanout" /\ c \in recipients["work"]
        BY <2>0, <2>2, <2>5, Zenon DEF NotifySv1
      <3>2. Working /\ Sending
        BY <3>1, Zenon DEF Working, Sending
      <3>3. /\ job["work"].prev = last_prevhash /\ job["work"] \in Jobs
            /\ log[stamp["work"]] = job["work"]
        BY <2>0, <2>5, <3>2, Zenon DEF CleanInv, InHand, TypeOK, Broadcasters
      <3>4. last_prevhash # None
        BY <3>3, ConstantsAssumption, Zenon DEF Jobs
      <3>5. PICK i \in DOMAIN log : /\ log[i].prev = last_prevhash /\ log[i].body # 0
                                    /\ i # stamp["work"]
        BY <3>2, <3>4, Zenon DEF CleanInv, InHand, Booked
      <3>6. work[c] >= i
        BY <3>1, <3>5, Zenon DEF CleanInv, TemplatesSent, ToSend
      <3>7. JobHeight(log[i]) = JobHeight(log[stamp["work"]])
        BY <3>3, <3>5, Zenon DEF JobHeight
      <3>8. /\ JobHeight(log[i]) <= JobHeight(log[work[c]])
            /\ JobHeight(log[work[c]]) <= JobHeight(log[stamp["work"]])
        <4>1. DOMAIN log = 1..Len(log) /\ Len(log) \in Nat
          BY <2>0, TypeFacts, Zenon
        <4> QED
          BY <2>1, <3>1, <3>5, <3>6, <4>1, Zenon DEF LogInv, OrderInv
      <3>9. /\ JobHeight(log[i]) \in Nat /\ JobHeight(log[work[c]]) \in Nat
        <4>1. log[i] \in Jobs /\ log[work[c]] \in Jobs
          BY <2>0, <2>1, <3>1, <3>5, ElementOfSeq, TypeFacts, Zenon DEF TypeOK
        <4> QED
          BY <4>1, HeightIsNat, Zenon
      <3>10. JobHeight(log[work[c]]) = JobHeight(log[stamp["work"]])
        BY <3>7, <3>8, <3>9
      <3> QED
        BY <3>1, <3>10, Zenon DEF WorkHeight, JobHeight
    <2>6. clean["zmq"]
      BY Zenon DEF CleanInv
    <2> QED
      BY <2>2, <2>3, <2>4, <2>5, <2>6, Sv1Moves, Zenon DEF Broadcasters
  <1> QED
    BY <1>1, AlwaysLog, AlwaysClean, PTL DEF Spec, CleanOnNewHeight

------------------------------------------------------------------------------
\* One step seen by all SV1 sessions: none is given work, or one is, and then
\* nothing is published.
LEMMA OneMiner ==
  ASSUME DeliveryInv, [Next]_vars
  PROVE  \/ \A c \in Sv1 : work'[c] = work[c]
         \/ log' = log /\ \E d \in Sv1 : \A c \in Sv1 \ {d} : work'[c] = work[c]
  <1> DEFINE NoMiner == \A c \in Sv1 : work'[c] = work[c]
             OneServed == /\ log' = log
                          /\ \E d \in Sv1 : \A c \in Sv1 \ {d} : work'[c] = work[c]
  <1>0. TypeOK /\ work \in [Clients -> Nat] /\ Sv1 \subseteq Clients
    BY Zenon DEF DeliveryInv, TypeOK, Clients
  <1>1. ASSUME work' = work PROVE NoMiner
    BY <1>1, Zenon
  <1>2. \A d \in Clients : (\E n : work' = [work EXCEPT ![d] = n])
                           => \A c \in Sv1 \ {d} : work'[c] = work[c]
    BY <1>0, Zenon
  <1>3. \A d \in Clients \ Sv1 : (\E n : work' = [work EXCEPT ![d] = n]) => NoMiner
    BY <1>2, Zenon
  <1>4. \A d \in Sv1 :
          log' = log /\ (\E n : work' = [work EXCEPT ![d] = n]) => OneServed
    BY <1>0, <1>2, Zenon
  <1> SUFFICES NoMiner \/ OneServed
    BY Zenon
  <1> HIDE DEF NoMiner, OneServed
  <1>5. ASSUME NEW b \in Broadcasters, Fanout(b) PROVE NoMiner \/ OneServed
    <2>1. CASE \/ Publish(b) \/ CopyClients(b) \/ FanoutDone(b)
               \/ \E d \in Sv2 : EnqueueSv2(b, d)
      BY <1>1, <2>1, Zenon DEF Publish, CopyClients, FanoutDone, EnqueueSv2
    <2>2. ASSUME NEW d \in Sv1, NotifySv1(b, d) PROVE NoMiner \/ OneServed
      <3>1. log' = log /\ (work' = work \/ work' = [work EXCEPT ![d] = stamp[b]])
        BY <2>2, Zenon DEF NotifySv1
      <3> QED
        BY <1>1, <1>4, <3>1, Zenon
    <2> QED
      BY <1>5, <2>1, <2>2, Zenon DEF Fanout
  <1>6. CASE Node \/ WorkWake \/ WorkTimeout \/ ReloadConfig \/ UNCHANGED vars
    BY <1>1, <1>6, Zenon DEF Node, NodeMoves, TemplateChanges, WorkWake, WorkTimeout,
                      WaitReturns, ReloadConfig, vars
  <1>7. CASE WorkThread /\ ~Fanout("work")
    BY <1>1, <1>7, Zenon DEF WorkThread, WorkDecide, WorkFails, WorkProbe, WorkFetch,
                      WorkBook
  <1>8. CASE ZmqThread /\ ~Fanout("zmq")
    BY <1>1, <1>8, Zenon DEF ZmqThread, ZmqReceive, ZmqHeader, ZmqFails,
                             ZmqRecheck, ZmqClear, ZmqNotify
  <1>9. CASE PublicationThread
    <2>1. CASE PopPublication \/ PlanPublication
      BY <1>1, <2>1, Zenon DEF PopPublication, PlanPublication
    <2>2. CASE CommitPublication
      <3>1. pub.to \in Sv2
        BY <2>2, Zenon DEF DeliveryInv, Addressed, CommitPublication
      <3>2. pub.to \in Clients /\ pub.to \notin Sv1
        BY <3>1, ConstantsAssumption, Zenon DEF Clients
      <3>3. work' = work \/ work' = [work EXCEPT ![pub.to] = pub.seq]
        BY <2>2, Zenon DEF CommitPublication, CommitJob
      <3> QED
        BY <1>1, <1>3, <3>2, <3>3, Zenon
    <2> QED
      BY <1>9, <2>1, <2>2, Zenon DEF PublicationThread
  <1>10. ASSUME NEW d \in Clients,
                \/ AddClient(d) \/ RemoveClient(d) \/ Authorize(d)
                \/ OpenChannel(d) \/ UpdateChannel(d)
                \/ PlanRefresh(d) \/ CommitRefresh(d)
         PROVE  NoMiner \/ OneServed
    <2>1. CASE AddClient(d) \/ RemoveClient(d) \/ PlanRefresh(d)
      BY <1>1, <2>1, Zenon DEF AddClient, RemoveClient, PlanRefresh
    <2>2. CASE Authorize(d)
      <3>1. /\ d \in Sv1 /\ log' = log
            /\ work' = work \/ work' = [work EXCEPT ![d] = Len(log)]
        BY <2>2, Zenon DEF Authorize
      <3> QED
        BY <1>1, <1>4, <3>1, Zenon
    <2>3. CASE OpenChannel(d) \/ UpdateChannel(d) \/ CommitRefresh(d)
      <3>1. d \in Sv2
        BY <2>3, Zenon DEF DeliveryInv, Addressed, OpenChannel, UpdateChannel,
                           CommitRefresh
      <3>2. d \notin Sv1
        BY <3>1, ConstantsAssumption, Zenon
      <3>3. work' = work \/ \E n : work' = [work EXCEPT ![d] = n]
        BY <2>3, Zenon DEF OpenChannel, UpdateChannel, CommitRefresh, CommitJob
      <3> QED
        BY <1>1, <1>3, <3>2, <3>3, Zenon
    <2> QED
      BY <1>10, <2>1, <2>2, <2>3, Zenon
  <1> QED
    BY <1>5, <1>6, <1>7, <1>8, <1>9, <1>10, Zenon DEF Next, Reactors, Broadcasters

\* What broadcast_job publishes is acceptable to the feed, and no session is
\* given work by publishing.
LEMMA PublishIsFeedPublish ==
  ASSUME TypeOK, JobsInv, NEW b \in Broadcasters, Publish(b),
         log' = Append(log, job[b]), log' # log
  PROVE  Feed!Publish
  <1> DEFINE n == Len(log)
  <1>1. /\ n \in Nat /\ log \in Seq(Jobs) /\ job[b] \in Jobs
        /\ (log # << >> <=> n # 0)
    BY TypeFacts, Zenon DEF TypeOK
  <1>2. Len(log') = n + 1 /\ log'[n + 1] = job[b]
    BY <1>1, AppendProperties, Zenon
  <1>3. Feed!Newest(log') = job[b]
    BY <1>2, Zenon DEF Feed!Newest
  <1>4. Outcome(b) = "Published" /\ work' = work
    BY Zenon DEF Publish
  <1>5. log # << >> =>
          /\ job[b] # Current
          /\ Height[Current.prev] <= Height[job[b].prev]
          /\ job[b].body = 0 => Current.prev # job[b].prev
    <2> SUFFICES ASSUME log # << >>
                 PROVE  /\ job[b] # Current
                        /\ Height[Current.prev] <= Height[job[b].prev]
                        /\ job[b].body = 0 => Current.prev # job[b].prev
      BY Zenon
    <2>1. Current \in Jobs
      BY <1>1, ElementOfSeq DEF Current
    <2>2. Height[Current.prev] \in Nat /\ Height[job[b].prev] \in Nat
      BY <1>1, <2>1, ConstantsAssumption, Zenon DEF Jobs
    <2>3. job[b] # Current /\ ~(JobHeight(job[b]) < JobHeight(Current))
      BY <1>4, Zenon DEF Outcome
    <2>4. job[b].body = 0 => b = "zmq"
      BY Zenon DEF JobsInv, Publish, Broadcasters
    <2>5. b = "zmq" => Current.prev # job[b].prev
      BY <1>4, Zenon DEF Outcome
    <2> QED
      BY <2>2, <2>3, <2>4, <2>5 DEF JobHeight
  <1>6. Feed!Acceptable(Feed!Newest(log'))
    BY <1>3, <1>5, Zenon DEF Feed!Acceptable, Feed!Newest, Current
  <1>7. [c \in Sv1 |-> work'[c]] = [c \in Sv1 |-> work[c]]
    BY <1>4, Zenon
  <1> QED
    BY <1>2, <1>3, <1>6, <1>7, Zenon DEF Feed!Publish

\* A step of the pool is a step of the feed, or leaves what it shows alone.
LEMMA StepIsFeedStep ==
  ASSUME DeliveryInv, LogInv, (DeliveryInv /\ LogInv)', [Next]_vars
  PROVE  \/ Feed!Next
         \/ log' = log /\ [c \in Sv1 |-> work'[c]] = [c \in Sv1 |-> work[c]]
  <1>0. TypeOK /\ JobsInv /\ Sv1 \subseteq Clients
    BY Zenon DEF DeliveryInv, LogInv, Clients
  <1>1. CASE log' # log
    <2>1. PICK b \in Broadcasters : Publish(b) /\ log' = Append(log, job[b])
      BY <1>0, <1>1, LogGrows, Zenon
    <2> QED
      BY <1>0, <1>1, <2>1, PublishIsFeedPublish, Zenon DEF Feed!Next
  <1>2. CASE log' = log /\ \A c \in Sv1 : work'[c] = work[c]
    BY <1>2, Zenon
  <1>3. ASSUME log' = log, NEW d \in Sv1, work'[d] # work[d],
               \A c \in Sv1 \ {d} : work'[c] = work[c]
        PROVE  Feed!Next
    <2>1. /\ work[d] \in Nat /\ work'[d] \in Nat /\ Len(log) \in Nat
          /\ work'[d] <= Len(log)
      <3>1. work \in [Clients -> Nat] /\ Len(log) \in Nat
        BY <1>0, TypeFacts, Zenon DEF TypeOK
      <3>2. work' \in [Clients -> Nat] /\ work'[d] <= Len(log')
        BY <1>0, Zenon DEF DeliveryInv, TypeOK, Sequenced
      <3> QED
        BY <1>0, <1>3, <3>1, <3>2, Zenon
    <2>2. work[d] <= work'[d]
      BY <2>1, Sv1Step, Zenon DEF LogInv
    <2>3. work'[d] \in 1..Len(log)
      BY <1>3, <2>1, <2>2
    <2>4. [c \in Sv1 |-> work'[c]]
            = [[c \in Sv1 |-> work[c]] EXCEPT ![d] = work'[d]]
      <3>1. \A c \in Sv1 :
              work'[c] = [[x \in Sv1 |-> work[x]] EXCEPT ![d] = work'[d]][c]
        BY <1>3, Zenon
      <3> QED
        BY <3>1, Zenon
    <2> QED
      BY <1>3, <2>2, <2>3, <2>4, Zenon DEF Feed!Next, Feed!Serve
  <1> QED
    BY <1>1, <1>2, <1>3, OneMiner, Zenon

\* The pool with its threads, queues and races implements the feed SV1 miners
\* rely on: each publication is acceptable after the one before it, and a
\* miner is served one publication at a time and only later ones.
THEOREM PoolImplementsFeed == Spec => ImplementsFeed
  <1>1. Init => Feed!Init
    BY Zenon DEF Init, Feed!Init, Clients
  <1>2. DeliveryInv /\ LogInv /\ (DeliveryInv /\ LogInv)' /\ [Next]_vars
          => [Feed!Next]_<<log, [c \in Sv1 |-> work[c]]>>
    BY StepIsFeedStep, Zenon
  <1> QED
    BY <1>1, <1>2, AlwaysLog, PTL DEF Spec, ImplementsFeed, Feed!Spec
=============================================================================

--------------------------- MODULE WorkPublication ---------------------------
(***************************************************************************)
(* How a new block becomes work at every miner (pool/pool.cpp, with the    *)
(* parts of stratum/session.cpp and sv2/session.cpp that receive work).    *)
(*                                                                         *)
(* Two threads publish: the work thread (refresh_work), which polls the    *)
(* node and publishes full templates, and the ZMQ thread (on_zmq_block),   *)
(* which answers a block notification with an empty "fastblock" job.  Both *)
(* go through broadcast_job: the decision and the stamp are made under     *)
(* jobs_mutex_, the client list is then copied under mutex_, SV1 sessions  *)
(* are notified one by one, and SV2 sessions get an entry of               *)
(* publication_queue_ that the publication thread delivers later.  Every   *)
(* lock region is one step here, so the two fan-outs, the publication      *)
(* thread and the sessions' own requests interleave as they do in the      *)
(* process.                                                                *)
(*                                                                         *)
(* A job is its parent block and its body: body 0 is the fastblock's       *)
(* single-coinbase body, body n > 0 the n-th state of the node's template  *)
(* (transactions, time).  Two jobs are equal exactly when work_signature() *)
(* is.  An SV2 session is modelled with the one channel it has opened.     *)
(***************************************************************************)
EXTENDS Integers, Sequences, FiniteSets

CONSTANTS
    Blocks,            \* block hashes the node may have as its tip
    None,              \* no value: last_prevhash_ before the first template
    Genesis,           \* the node's tip when the pool starts
    Height,            \* height of each block
    RetargetInterval,  \* 2016 in fastblock_eligible
    TestChain,         \* chain_name_ is "test" or "testnet4"
    Sv1, Sv2,          \* sessions by protocol
    Standard,          \* SV2 sessions whose channel is a Standard Channel
    MaxRecentJobs,     \* kMaxRecentJobs
    ZmqReliable,       \* FALSE: notifications may be lost
    MaxMoves,          \* bound: tip changes of the node
    MaxRevisions,      \* bound: distinct template bodies per run
    MaxFailures        \* bound: failed RPC calls

Clients == Sv1 \cup Sv2
Broadcasters == {"work", "zmq"}
Jobs == [prev : Blocks, body : Nat]

ASSUME ConstantsAssumption ==
    /\ None \notin Blocks \cup Clients
    /\ Genesis \in Blocks
    /\ Height \in [Blocks -> Nat]
    /\ RetargetInterval \in Nat \ {0}
    /\ TestChain \in BOOLEAN
    /\ ZmqReliable \in BOOLEAN
    /\ Sv1 \cap Sv2 = {} /\ Standard \subseteq Sv2
    /\ MaxRecentJobs \in Nat \ {0}
    /\ MaxMoves \in Nat /\ MaxRevisions \in Nat /\ MaxFailures \in Nat

VARIABLES
    \* the node and the notification channel
    tip, moves, revision, failures, announced,
    \* jobs_mutex_: published jobs, the n-th one stamped with sequence n.
    \* publish_counter_ is Len(log), current_job_ its last element and
    \* recent_jobs_ its last MaxRecentJobs elements.
    log,
    \* mutex_: clients_ (departed: connections that have ended), template state
    clients, departed, last_prevhash, has_template, fastblock_pending,
    \* wakeup_mutex_
    new_block_flag,
    \* publication_mutex_
    publication_queue,
    \* per session: may receive work; the sequence its duplicate guard holds;
    \* the sequence and clean flag of the last job sent; requires_frequent_job_refresh
    ready, last_sequence, work, clean_sent, hot,
    \* the two publishing threads
    pc, job, stamp, clean, recipients,
    \* locals of refresh_work and of on_zmq_block
    refresh_failing, seen_prev, header_confirmed,
    \* the publication thread, and maybe_refresh_job of each reactor
    pub_pc, pub, refresh_plan

node == <<tip, moves, revision, failures, announced>>
shared == <<last_prevhash, has_template, fastblock_pending>>
members == <<clients, departed>>
sessions == <<ready, last_sequence, work, clean_sent, hot>>
thread == <<pc, job, stamp, clean, recipients>>
locals == <<refresh_failing, seen_prev, header_confirmed>>
publisher == <<pub_pc, pub>>
vars == <<node, log, members, shared, new_block_flag, publication_queue,
          sessions, thread, locals, publisher, refresh_plan>>

-----------------------------------------------------------------------------
JobHeight(j) == Height[j.prev] + 1
Current == log[Len(log)]

Init ==
    /\ tip = Genesis /\ moves = 0 /\ revision = 1 /\ failures = 0
    /\ announced = << >>
    /\ log = << >>
    /\ clients = {} /\ departed = {}
    /\ last_prevhash = None /\ has_template = FALSE
    /\ fastblock_pending = FALSE
    /\ new_block_flag = FALSE
    /\ publication_queue = << >>
    /\ ready = [c \in Clients |-> FALSE]
    /\ last_sequence = [c \in Clients |-> 0]
    /\ work = [c \in Clients |-> 0]
    /\ clean_sent = [c \in Clients |-> FALSE]
    /\ hot = [c \in Clients |-> FALSE]
    /\ pc = [b \in Broadcasters |-> "idle"]
    /\ job = [b \in Broadcasters |-> [prev |-> Genesis, body |-> 0]]
    /\ stamp = [b \in Broadcasters |-> 0]
    /\ clean = [b \in Broadcasters |-> TRUE]
    /\ recipients = [b \in Broadcasters |-> {}]
    /\ refresh_failing = FALSE /\ seen_prev = Genesis
    /\ header_confirmed = FALSE
    /\ pub_pc = "idle"
    /\ pub = [to |-> None, seq |-> 0, clean |-> FALSE]
    /\ refresh_plan = [c \in Clients |-> 0]

-----------------------------------------------------------------------------
(* The node (external).  Its tip may move to any block: a new block, a      *)
(* reorganisation, or the endpoint the RPC client has failed over to.       *)

NodeMoves(b) ==
    /\ b # tip
    /\ moves < MaxMoves
    /\ tip' = b
    /\ moves' = moves + 1
    /\ \/ announced' = Append(announced, b)
       \/ ~ZmqReliable /\ announced' = announced
    /\ UNCHANGED <<revision, failures, log, members, shared, new_block_flag,
                   publication_queue, sessions, thread, locals, publisher,
                   refresh_plan>>

\* A new transaction or a later curtime changes what getblocktemplate returns.
TemplateChanges ==
    /\ revision < MaxRevisions
    /\ revision' = revision + 1
    /\ UNCHANGED <<tip, moves, failures, announced, log, members, shared,
                   new_block_flag, publication_queue, sessions, thread,
                   locals, publisher, refresh_plan>>

Fails ==
    /\ failures < MaxFailures
    /\ failures' = failures + 1

-----------------------------------------------------------------------------
(* broadcast_job, for either thread b.                                      *)

\* Fault: fastblock jobs are not checked against the current parent.
OutcomeAnyPrevhash(b) ==
    IF log = << >> THEN "Published"
    ELSE IF Current = job[b] THEN "Duplicate"
    ELSE IF JobHeight(job[b]) < JobHeight(Current) THEN "StaleHeight"
    ELSE "Published"

Outcome(b) ==
    IF log = << >> THEN "Published"
    ELSE IF Current = job[b] THEN "Duplicate"
    ELSE IF JobHeight(job[b]) < JobHeight(Current) THEN "StaleHeight"
    ELSE IF b = "zmq" /\ Current.prev = job[b].prev THEN "StalePrevhash"
    ELSE "Published"

\* Where the caller continues: build_and_broadcast returns on StaleHeight and
\* keeps its books otherwise; on_zmq_block clears its pending flag.
AfterRefusal(b, outcome) ==
    IF b = "zmq" THEN "clear"
    ELSE IF outcome = "StaleHeight" THEN "wait" ELSE "book"

Publish(b) ==
    /\ pc[b] = "publish"
    /\ IF Outcome(b) = "Published"
       THEN /\ log' = Append(log, job[b])
            /\ stamp' = [stamp EXCEPT ![b] = Len(log) + 1]
            /\ pc' = [pc EXCEPT ![b] = "copy"]
       ELSE /\ pc' = [pc EXCEPT ![b] = AfterRefusal(b, Outcome(b))]
            /\ UNCHANGED <<log, stamp>>
    /\ UNCHANGED <<node, members, shared, new_block_flag, publication_queue,
                   sessions, job, clean, recipients, locals, publisher,
                   refresh_plan>>

CopyClients(b) ==
    /\ pc[b] = "copy"
    /\ recipients' = [recipients EXCEPT ![b] = clients]
    /\ pc' = [pc EXCEPT ![b] = "fanout"]
    /\ UNCHANGED <<node, log, members, shared, new_block_flag,
                   publication_queue, sessions, job, stamp, clean, locals,
                   publisher, refresh_plan>>

\* Fault: the session does not compare sequences.
NotifySv1Unordered(b, c) ==
    /\ pc[b] = "fanout"
    /\ c \in recipients[b] \cap Sv1
    /\ recipients' = [recipients EXCEPT ![b] = @ \ {c}]
    /\ IF ready[c]
       THEN /\ last_sequence' = [last_sequence EXCEPT ![c] = stamp[b]]
            /\ work' = [work EXCEPT ![c] = stamp[b]]
            /\ clean_sent' = [clean_sent EXCEPT ![c] = clean[b]]
       ELSE UNCHANGED <<last_sequence, work, clean_sent>>
    /\ UNCHANGED <<node, log, members, shared, new_block_flag,
                   publication_queue, ready, hot, pc, job, stamp, clean,
                   locals, publisher, refresh_plan>>

\* send_notify of an SV1 session, under the session's mutex: a publication
\* not newer than the last one is dropped, and so is one the session is not
\* ready for.
NotifySv1(b, c) ==
    /\ pc[b] = "fanout"
    /\ c \in recipients[b] \cap Sv1
    /\ recipients' = [recipients EXCEPT ![b] = @ \ {c}]
    /\ IF stamp[b] > last_sequence[c] /\ ready[c]
       THEN /\ last_sequence' = [last_sequence EXCEPT ![c] = stamp[b]]
            /\ work' = [work EXCEPT ![c] = stamp[b]]
            /\ clean_sent' = [clean_sent EXCEPT ![c] = clean[b]]
       ELSE UNCHANGED <<last_sequence, work, clean_sent>>
    /\ UNCHANGED <<node, log, members, shared, new_block_flag,
                   publication_queue, ready, hot, pc, job, stamp, clean,
                   locals, publisher, refresh_plan>>

Queued(c) == \E i \in DOMAIN publication_queue : publication_queue[i].to = c
Place(c) == CHOOSE i \in DOMAIN publication_queue : publication_queue[i].to = c

\* Fault: coalescing keeps the job that was queued first.
CoalescedToOldest(entry, b) ==
    [to |-> entry.to, seq |-> entry.seq, clean |-> entry.clean \/ clean[b]]

\* enqueue_publication: one entry per session, coalesced to the newest job,
\* keeping a clean flag either of them had.
Coalesced(entry, b) ==
    [to |-> entry.to,
     seq |-> IF stamp[b] >= entry.seq THEN stamp[b] ELSE entry.seq,
     clean |-> entry.clean \/ clean[b]]

\* Fault: the session is not looked up in clients_ again.
EnqueueSv2Unchecked(b, c) ==
    /\ pc[b] = "fanout"
    /\ recipients[b] \cap Sv1 = {}
    /\ c \in recipients[b]
    /\ recipients' = [recipients EXCEPT ![b] = @ \ {c}]
    /\ publication_queue' =
         IF Queued(c)
         THEN [publication_queue EXCEPT ![Place(c)] = Coalesced(@, b)]
         ELSE Append(publication_queue,
                     [to |-> c, seq |-> stamp[b], clean |-> clean[b]])
    /\ UNCHANGED <<node, log, members, shared, new_block_flag, sessions, pc,
                   job, stamp, clean, locals, publisher, refresh_plan>>

EnqueueSv2(b, c) ==
    /\ pc[b] = "fanout"
    /\ recipients[b] \cap Sv1 = {}
    /\ c \in recipients[b]
    /\ recipients' = [recipients EXCEPT ![b] = @ \ {c}]
    /\ publication_queue' =
         IF c \notin clients THEN publication_queue
         ELSE IF Queued(c)
         THEN [publication_queue EXCEPT ![Place(c)] = Coalesced(@, b)]
         ELSE Append(publication_queue,
                     [to |-> c, seq |-> stamp[b], clean |-> clean[b]])
    /\ UNCHANGED <<node, log, members, shared, new_block_flag, sessions, pc,
                   job, stamp, clean, locals, publisher, refresh_plan>>

FanoutDone(b) ==
    /\ pc[b] = "fanout"
    /\ recipients[b] = {}
    /\ pc' = [pc EXCEPT ![b] = IF b = "work" THEN "book" ELSE "notify"]
    /\ UNCHANGED <<node, log, members, shared, new_block_flag,
                   publication_queue, sessions, job, stamp, clean,
                   recipients, locals, publisher, refresh_plan>>

-----------------------------------------------------------------------------
(* The work thread: refresh_work and build_and_broadcast.  Only this thread *)
(* writes last_prevhash, so a lock region of it that only reads             *)
(* last_prevhash is merged with the RPC call before it.                     *)

\* Fault: the rebroadcast timer is ignored.
WorkDecideUntimed(due) ==
    /\ pc["work"] = "idle"
    /\ IF refresh_failing \/ log = << >>
       THEN pc' = [pc EXCEPT !["work"] = "fetch"] /\ seen_prev' = seen_prev
       ELSE pc' = [pc EXCEPT !["work"] = "probe"] /\ seen_prev' = Current.prev
    /\ UNCHANGED <<node, log, members, shared, new_block_flag,
                   publication_queue, sessions, job, stamp, clean,
                   recipients, refresh_failing, header_confirmed, publisher,
                   refresh_plan>>

\* due: work_rebroadcast_seconds have passed since the last broadcast.
WorkDecide(due) ==
    /\ pc["work"] = "idle"
    /\ IF refresh_failing \/ due \/ log = << >>
       THEN pc' = [pc EXCEPT !["work"] = "fetch"] /\ seen_prev' = seen_prev
       ELSE pc' = [pc EXCEPT !["work"] = "probe"] /\ seen_prev' = Current.prev
    /\ UNCHANGED <<node, log, members, shared, new_block_flag,
                   publication_queue, sessions, job, stamp, clean,
                   recipients, refresh_failing, header_confirmed, publisher,
                   refresh_plan>>

\* The catch block of refresh_work.
WorkFails ==
    /\ pc["work"] \in {"probe", "fetch"}
    /\ Fails
    /\ refresh_failing' = TRUE
    /\ pc' = [pc EXCEPT !["work"] = "wait"]
    /\ UNCHANGED <<tip, moves, revision, announced, log, members, shared,
                   new_block_flag, publication_queue, sessions, job, stamp,
                   clean, recipients, seen_prev, header_confirmed, publisher,
                   refresh_plan>>

\* Fault: an empty job on the tip counts as up to date.
WorkProbeCurrentOnly ==
    /\ pc["work"] = "probe"
    /\ pc' = [pc EXCEPT !["work"] = IF seen_prev # tip THEN "fetch" ELSE "wait"]
    /\ UNCHANGED <<node, log, members, shared, new_block_flag,
                   publication_queue, sessions, job, stamp, clean,
                   recipients, locals, publisher, refresh_plan>>

\* get_tip answers: fetch when the job read before the call is not on that
\* tip, or when the last full template was not (an empty job is current).
WorkProbe ==
    /\ pc["work"] = "probe"
    /\ pc' = [pc EXCEPT !["work"] =
                 IF seen_prev # tip \/ tip # last_prevhash
                 THEN "fetch" ELSE "wait"]
    /\ UNCHANGED <<node, log, members, shared, new_block_flag,
                   publication_queue, sessions, job, stamp, clean,
                   recipients, locals, publisher, refresh_plan>>

\* Fault: decided against the current job, which may be the empty one.
NewBlockOfCurrent == log = << >> \/ tip # Current.prev

\* The clean flag of a full template is decided against last_prevhash_.
NewBlock == tip # last_prevhash

\* fetch_template answers; build_and_broadcast's height check, made without
\* jobs_mutex_, may already drop the template.
WorkFetch ==
    /\ pc["work"] = "fetch"
    /\ job' = [job EXCEPT !["work"] = [prev |-> tip, body |-> revision]]
    /\ clean' = [clean EXCEPT !["work"] = NewBlock]
    /\ pc' = [pc EXCEPT !["work"] =
                 IF log # << >> /\ Height[tip] + 1 < JobHeight(Current)
                 THEN "wait" ELSE "publish"]
    /\ refresh_failing' = FALSE
    /\ UNCHANGED <<node, log, members, shared, new_block_flag,
                   publication_queue, sessions, stamp, recipients, seen_prev,
                   header_confirmed, publisher, refresh_plan>>

\* The books build_and_broadcast keeps, for a published and for a duplicate job.
WorkBook ==
    /\ pc["work"] = "book"
    /\ last_prevhash' = job["work"].prev
    /\ has_template' = TRUE
    /\ fastblock_pending' = FALSE
    /\ pc' = [pc EXCEPT !["work"] = "wait"]
    /\ UNCHANGED <<node, log, members, new_block_flag, publication_queue,
                   sessions, job, stamp, clean, recipients, locals,
                   publisher, refresh_plan>>

\* wait_for returns, on the flag or on the poll interval, and resets the flag.
WaitReturns ==
    /\ pc["work"] = "wait"
    /\ new_block_flag' = FALSE
    /\ pc' = [pc EXCEPT !["work"] = "idle"]
    /\ UNCHANGED <<node, log, members, shared, publication_queue, sessions,
                   job, stamp, clean, recipients, locals, publisher,
                   refresh_plan>>
WorkWake == new_block_flag /\ WaitReturns
WorkTimeout == ~new_block_flag /\ WaitReturns

-----------------------------------------------------------------------------
(* The ZMQ thread: on_zmq_block.                                            *)

MaybeEligible(h) ==
    /\ has_template /\ ~fastblock_pending
    /\ h # last_prevhash
    /\ ~TestChain

\* fastblock_eligible; confirmations == 1 is header_confirmed.  An empty
\* bits_hex is one of the headers that do not confirm.
Eligible(h) ==
    /\ MaybeEligible(h)
    /\ header_confirmed
    /\ (Height[h] + 1) % RetargetInterval # 0

\* A notification arrives.  ~fast: fast_block_notify is off, or the hash frame
\* was not 32 bytes.
ZmqReceive ==
    /\ pc["zmq"] = "idle"
    /\ announced # << >>
    /\ announced' = Tail(announced)
    /\ \E fast \in BOOLEAN :
         pc' = [pc EXCEPT !["zmq"] =
                  IF fast /\ MaybeEligible(Head(announced))
                  THEN "header" ELSE "notify"]
    /\ job' = [job EXCEPT !["zmq"] = [prev |-> Head(announced), body |-> 0]]
    /\ UNCHANGED <<tip, moves, revision, failures, log, members, shared,
                   new_block_flag, publication_queue, sessions, stamp, clean,
                   recipients, locals, publisher, refresh_plan>>

\* fetch_header, off the lock.
ZmqHeader ==
    /\ pc["zmq"] = "header"
    /\ header_confirmed' \in {FALSE, job["zmq"].prev = tip}
    /\ pc' = [pc EXCEPT !["zmq"] = "recheck"]
    /\ UNCHANGED <<node, log, members, shared, new_block_flag,
                   publication_queue, sessions, job, stamp, clean,
                   recipients, refresh_failing, seen_prev, publisher,
                   refresh_plan>>

\* The two catch blocks: fetch_header throws, or the job cannot be built.
ZmqFails ==
    /\ Fails
    /\ \/ pc["zmq"] = "header" /\ pc' = [pc EXCEPT !["zmq"] = "notify"]
       \/ pc["zmq"] = "publish" /\ pc' = [pc EXCEPT !["zmq"] = "clear"]
    /\ UNCHANGED <<tip, moves, revision, announced, log, members, shared,
                   new_block_flag, publication_queue, sessions, job, stamp,
                   clean, recipients, locals, publisher, refresh_plan>>

ZmqRecheck ==
    /\ pc["zmq"] = "recheck"
    /\ IF Eligible(job["zmq"].prev)
       THEN /\ fastblock_pending' = TRUE
            /\ pc' = [pc EXCEPT !["zmq"] = "publish"]
       ELSE /\ fastblock_pending' = fastblock_pending
            /\ pc' = [pc EXCEPT !["zmq"] = "notify"]
    /\ UNCHANGED <<node, log, members, last_prevhash, has_template,
                   new_block_flag, publication_queue, sessions, job, stamp,
                   clean, recipients, locals, publisher, refresh_plan>>

ZmqClear ==
    /\ pc["zmq"] = "clear"
    /\ fastblock_pending' = FALSE
    /\ pc' = [pc EXCEPT !["zmq"] = "notify"]
    /\ UNCHANGED <<node, log, members, last_prevhash, has_template,
                   new_block_flag, publication_queue, sessions, job, stamp,
                   clean, recipients, locals, publisher, refresh_plan>>

ZmqNotify ==
    /\ pc["zmq"] = "notify"
    /\ new_block_flag' = TRUE
    /\ pc' = [pc EXCEPT !["zmq"] = "idle"]
    /\ UNCHANGED <<node, log, members, shared, publication_queue, sessions,
                   job, stamp, clean, recipients, locals, publisher,
                   refresh_plan>>

\* reload_config ends in notify_new_block too.
ReloadConfig ==
    /\ new_block_flag' = TRUE
    /\ UNCHANGED <<node, log, members, shared, publication_queue, sessions,
                   thread, locals, publisher, refresh_plan>>

-----------------------------------------------------------------------------
(* The publication thread: publication_loop and the SV2 publish_job.        *)

PopPublication ==
    /\ pub_pc = "idle"
    /\ publication_queue # << >>
    /\ pub' = Head(publication_queue)
    /\ publication_queue' = Tail(publication_queue)
    /\ pub_pc' = "plan"
    /\ UNCHANGED <<node, log, members, shared, new_block_flag, sessions,
                   thread, locals, refresh_plan>>

RecentJob(n) == n > Len(log) - MaxRecentJobs

\* recent_job, then the plan made under the session's mutex.
PlanPublication ==
    /\ pub_pc = "plan"
    /\ pub_pc' = IF /\ RecentJob(pub.seq)
                    /\ ready[pub.to]
                    /\ pub.seq > last_sequence[pub.to]
                 THEN "commit" ELSE "idle"
    /\ UNCHANGED <<node, log, members, shared, new_block_flag,
                   publication_queue, sessions, thread, locals, pub,
                   refresh_plan>>

\* requires_new_prevhash_locked: the channel's previous hash is the parent of
\* the last job it was sent.
RequiresNewPrevhash(c, n) == work[c] = 0 \/ log[work[c]].prev # log[n].prev

\* commit_job_locked of publication n.
CommitJob(c, n, isClean) ==
    /\ work' = [work EXCEPT ![c] = n]
    /\ clean_sent' = [clean_sent EXCEPT ![c] =
                         isClean \/ RequiresNewPrevhash(c, n)]

\* The work was built without the lock, so the guard is evaluated again.
CommitPublication ==
    /\ pub_pc = "commit"
    /\ pub_pc' = "idle"
    /\ IF pub.seq > last_sequence[pub.to]
       THEN /\ last_sequence' = [last_sequence EXCEPT ![pub.to] = pub.seq]
            /\ CommitJob(pub.to, pub.seq, pub.clean)
       ELSE UNCHANGED <<last_sequence, work, clean_sent>>
    /\ UNCHANGED <<node, log, members, shared, new_block_flag,
                   publication_queue, ready, hot, thread, locals, pub,
                   refresh_plan>>

-----------------------------------------------------------------------------
(* Requests of the sessions, on their reactor threads.  One reactor serves  *)
(* a connection, so a request never overlaps the connection's own           *)
(* maybe_refresh_job.                                                       *)

\* add_client and add_sv2_client.  A client is one connection.
AddClient(c) ==
    /\ c \notin clients \cup departed
    /\ clients' = clients \cup {c}
    /\ UNCHANGED <<departed, node, log, shared, new_block_flag, publication_queue,
                   sessions, thread, locals, publisher, refresh_plan>>

Without(queue, c) ==
    IF \E i \in DOMAIN queue : queue[i].to = c
    THEN LET k == CHOOSE i \in DOMAIN queue : queue[i].to = c
         IN [j \in 1..(Len(queue) - 1) |-> queue[IF j < k THEN j ELSE j + 1]]
    ELSE queue

\* remove_client.  A session has at most one queued publication, so erase_if
\* erases that one.
RemoveClient(c) ==
    /\ c \in clients
    /\ refresh_plan[c] = 0
    /\ clients' = clients \ {c}
    /\ departed' = departed \cup {c}
    /\ publication_queue' = Without(publication_queue, c)
    /\ UNCHANGED <<node, log, shared, new_block_flag, sessions, thread,
                   locals, publisher, refresh_plan>>

\* The mining.subscribe or mining.authorize that completes the pair, or a
\* repeated one: send_difficulty_then_work sends the current job, if any.
Authorize(c) ==
    /\ c \in clients \cap Sv1
    /\ ready' = [ready EXCEPT ![c] = TRUE]
    /\ IF log # << >>
       THEN /\ last_sequence' = [last_sequence EXCEPT ![c] =
                                   IF Len(log) > @ THEN Len(log) ELSE @]
            /\ work' = [work EXCEPT ![c] = Len(log)]
            /\ clean_sent' = [clean_sent EXCEPT ![c] = TRUE]
       ELSE UNCHANGED <<last_sequence, work, clean_sent>>
    /\ UNCHANGED <<node, log, members, shared, new_block_flag,
                   publication_queue, hot, thread, locals, publisher,
                   refresh_plan>>

\* open_channel_locked; without a current job the request is refused.
OpenChannel(c) ==
    /\ c \in clients \cap Sv2
    /\ ~ready[c]
    /\ log # << >>
    /\ ready' = [ready EXCEPT ![c] = TRUE]
    /\ last_sequence' = [last_sequence EXCEPT ![c] = Len(log)]
    /\ \E fast \in BOOLEAN : hot' = [hot EXCEPT ![c] = fast /\ c \in Standard]
    /\ CommitJob(c, Len(log), TRUE)
    /\ UNCHANGED <<node, log, members, shared, new_block_flag,
                   publication_queue, thread, locals, publisher, refresh_plan>>

\* handle_update_locked.  A device that becomes fast without a change of its
\* target is sent the current job; last_publication_sequence is not updated.
UpdateChannel(c) ==
    /\ c \in clients \cap Sv2
    /\ ready[c] /\ refresh_plan[c] = 0
    /\ \E fast, sameTarget \in BOOLEAN :
         /\ hot' = [hot EXCEPT ![c] = fast /\ c \in Standard]
         /\ IF sameTarget /\ ~hot[c] /\ hot'[c]
            THEN CommitJob(c, Len(log), RequiresNewPrevhash(c, Len(log)))
            ELSE UNCHANGED <<work, clean_sent>>
    /\ UNCHANGED <<node, log, members, shared, new_block_flag,
                   publication_queue, ready, last_sequence, thread, locals,
                   publisher, refresh_plan>>

\* maybe_refresh_job: the current job is read and planned, built without the
\* lock, and committed if it is still not older than the channel's last one.
PlanRefresh(c) ==
    /\ c \in clients \cap Sv2
    /\ ready[c] /\ hot[c] /\ refresh_plan[c] = 0
    /\ refresh_plan' = [refresh_plan EXCEPT ![c] = Len(log)]
    /\ UNCHANGED <<node, log, members, shared, new_block_flag,
                   publication_queue, sessions, thread, locals, publisher>>

CommitRefresh(c) ==
    /\ refresh_plan[c] # 0
    /\ refresh_plan' = [refresh_plan EXCEPT ![c] = 0]
    /\ IF refresh_plan[c] >= last_sequence[c]
       THEN /\ last_sequence' = [last_sequence EXCEPT ![c] = refresh_plan[c]]
            /\ CommitJob(c, refresh_plan[c],
                         RequiresNewPrevhash(c, refresh_plan[c]))
       ELSE UNCHANGED <<last_sequence, work, clean_sent>>
    /\ UNCHANGED <<node, log, members, shared, new_block_flag,
                   publication_queue, ready, hot, thread, locals, publisher>>

-----------------------------------------------------------------------------
Fanout(b) ==
    \/ Publish(b) \/ CopyClients(b) \/ FanoutDone(b)
    \/ \E c \in Sv1 : NotifySv1(b, c)
    \/ \E c \in Sv2 : EnqueueSv2(b, c)
WorkThread ==
    \/ WorkDecide(TRUE) \/ WorkDecide(FALSE) \/ WorkFails \/ WorkProbe \/ WorkFetch \/ WorkBook
    \/ Fanout("work")
ZmqThread ==
    \/ ZmqReceive \/ ZmqHeader \/ ZmqFails \/ ZmqRecheck \/ ZmqClear
    \/ ZmqNotify \/ Fanout("zmq")
PublicationThread == PopPublication \/ PlanPublication \/ CommitPublication
Node == (\E b \in Blocks : NodeMoves(b)) \/ TemplateChanges
Reactors ==
    \E c \in Clients :
       \/ AddClient(c) \/ RemoveClient(c) \/ Authorize(c) \/ OpenChannel(c)
       \/ UpdateChannel(c) \/ PlanRefresh(c) \/ CommitRefresh(c)

Next ==
    \/ Node \/ WorkThread \/ WorkWake \/ WorkTimeout \/ ZmqThread
    \/ ReloadConfig \/ PublicationThread \/ Reactors

Spec == Init /\ [][Next]_vars

-----------------------------------------------------------------------------
(* Properties.                                                              *)

ThreadStates ==
    {"idle", "probe", "fetch", "publish", "copy", "fanout", "book", "wait",
     "header", "recheck", "clear", "notify"}
Publications == [to : Clients \cup {None}, seq : Nat, clean : BOOLEAN]

\* The type of every variable of Pool's and the sessions' publication state; a
\* job in flight always has a real parent block.
TypeOK ==
    /\ tip \in Blocks /\ moves \in Nat /\ revision \in Nat /\ failures \in Nat
    /\ announced \in Seq(Blocks)
    /\ log \in Seq(Jobs)
    /\ clients \subseteq Clients /\ departed \subseteq Clients
    /\ last_prevhash \in Blocks \cup {None}
    /\ has_template \in BOOLEAN /\ fastblock_pending \in BOOLEAN
    /\ new_block_flag \in BOOLEAN
    /\ publication_queue \in Seq(Publications)
    /\ ready \in [Clients -> BOOLEAN] /\ hot \in [Clients -> BOOLEAN]
    /\ last_sequence \in [Clients -> Nat]
    /\ work \in [Clients -> Nat]
    /\ clean_sent \in [Clients -> BOOLEAN]
    /\ pc \in [Broadcasters -> ThreadStates]
    /\ job \in [Broadcasters -> Jobs]
    /\ stamp \in [Broadcasters -> Nat]
    /\ clean \in [Broadcasters -> BOOLEAN]
    /\ recipients \in [Broadcasters -> SUBSET Clients]
    /\ refresh_failing \in BOOLEAN /\ seen_prev \in Blocks
    /\ header_confirmed \in BOOLEAN
    /\ pub_pc \in {"idle", "plan", "commit"} /\ pub \in Publications
    /\ refresh_plan \in [Clients -> Nat]

\* Publication n is on its way to session c: a thread has not yet copied the
\* client list or still has c to serve, or it is queued, or in delivery.
OnItsWay(n, c) ==
    \/ \E b \in Broadcasters :
         /\ stamp[b] = n
         /\ pc[b] = "copy" \/ (pc[b] = "fanout" /\ c \in recipients[b])
    \/ \E i \in DOMAIN publication_queue :
         publication_queue[i].to = c /\ publication_queue[i].seq = n
    \/ pub_pc # "idle" /\ pub.to = c /\ pub.seq = n

\* A connected miner that may receive work is on the current job or the
\* current job is on its way to it, whatever the fan-outs, coalescing,
\* duplicate guards and joins have done (broadcast_job, publication_loop,
\* send_notify, publish_job, open and authorize).
NoMinerLeftBehind ==
    \A c \in clients :
       ready[c] /\ log # << >> => work[c] = Len(log) \/ OnItsWay(Len(log), c)

\* publication_queue_ holds one entry per session, and only for sessions that
\* are still connected, though the fan-out works on an older client list.
QueueOnlyServesConnected ==
    /\ \A i \in DOMAIN publication_queue : publication_queue[i].to \in clients
    /\ \A i, j \in DOMAIN publication_queue :
         publication_queue[i].to = publication_queue[j].to => i = j

WorkHeight(c) == JobHeight(log[work[c]])
WorkParent(c) == log[work[c]].prev

\* An SV1 miner never goes back to older work: not to an earlier publication
\* and not to a lower height, with two threads notifying it in any order.
Sv1NeverRegresses ==
    [][\A c \in Sv1 : work[c] # 0 =>
          work'[c] >= work[c] /\ WorkHeight(c)' >= WorkHeight(c)]_vars

\* An SV1 miner moved to a parent at another height is told to drop its old
\* jobs, even when the notify that first announced the parent was skipped as
\* superseded (new_block in refresh_work).
CleanOnNewHeight ==
    [][\A c \in Sv1 : work[c] # 0 /\ WorkHeight(c)' # WorkHeight(c)
          => clean_sent'[c]]_vars

\* A miner with a full template for a parent never gets the empty job for it
\* (the fees of a block it could find would be thrown away), unless the pool
\* published work for a competing parent in between.
FeesKept ==
    [][\A c \in Sv1 :
          /\ work[c] # 0 /\ log[work[c]].body # 0
          /\ WorkParent(c)' = WorkParent(c) /\ (log[work[c]].body)' = 0
          => \E n \in work[c]..work'[c] : log'[n].prev # WorkParent(c)]_vars

\* build_and_broadcast clears fastblock_pending_ because "a fresh GBT supersedes
\* the fastblock empty job" (pool.cpp:397): when it keeps its books, the
\* current job is not the empty one for the template's parent.
TemplateSupersedesEmptyJob ==
    [][WorkBook => ~(Current.body = 0 /\ Current.prev = job["work"].prev)]_vars

\* broadcast_job: "sessions use it to drop a notify already superseded by a
\* newer publication" (pool.cpp:276), stated of SV2 sessions.
Sv2NeverRegresses ==
    [][\A c \in Sv2 : work'[c] >= work[c]]_vars

-----------------------------------------------------------------------------
(* Liveness.  Every thread keeps running; an RPC call returns or throws.    *)

ThreadFairness ==
    /\ WF_vars(WorkThread) /\ WF_vars(WorkWake)
    /\ WF_vars(ZmqThread) /\ WF_vars(PublicationThread)
    /\ \A c \in Sv2 : WF_vars(CommitRefresh(c))

\* The poll timer and the rebroadcast timer keep expiring.
FairSpec ==
    /\ Spec /\ ThreadFairness
    /\ WF_vars(WorkTimeout) /\ SF_vars(WorkDecide(TRUE))

\* Without the two timers: only a notification restarts the work thread.
NotifiedSpec == Spec /\ ThreadFairness

\* The pool has caught up with the node: every miner that may receive work has
\* the full template of the tip.  A tip below published work does not count:
\* build_and_broadcast keeps the higher work on purpose.
CaughtUp ==
    Height[tip] + 1 >= (IF log = << >> THEN 0 ELSE JobHeight(Current)) =>
       /\ log # << >> /\ Current.prev = tip /\ Current.body # 0
       /\ ~fastblock_pending
       /\ \A c \in clients : ready[c] => work[c] = Len(log)

\* Once the node's tip stays put, the pool catches up and stays there.
EventuallyCaughtUp == <>[]CaughtUp

=============================================================================

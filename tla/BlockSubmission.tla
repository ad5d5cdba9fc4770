--------------------------- MODULE BlockSubmission ---------------------------
(***************************************************************************)
(* What happens to a block a miner has found (pool/pool.cpp: on_block_found *)
(* to recovery_loop, the block counters and their file; bitcoin/           *)
(* rpc_client.cpp: submitblock).                                           *)
(*                                                                         *)
(* A reactor queues the block for the submit thread and then spools it to  *)
(* disk.  The submit thread sends it to every endpoint at once, combines   *)
(* the answers, and credits it, drops it or queues it again.  The spooled  *)
(* file outlives the process: after a restart the recovery thread submits  *)
(* every file again until it can archive it.  The process may be stopped   *)
(* in order or may die between any two steps.                              *)
(*                                                                         *)
(* Retry delays are not modelled: wait_for_submission takes the first      *)
(* entry whose delay has passed, which may be any entry.                   *)
(***************************************************************************)
EXTENDS Integers, Sequences, FiniteSets

CONSTANTS
    Found,           \* hashes of the blocks miners find
    Height,          \* height of each of them
    Invalid,         \* blocks every node refuses
    Nodes,           \* bitcoind endpoints
    FirstTip,        \* height of each node's tip at the start
    MaxTip,          \* bound: height the chain grows to
    MaxFinds,        \* bound: submissions of one block by its miner
    MaxLost,         \* bound: requests or replies lost on the way
    MaxIoFailures,   \* bound: failed spool writes and archive renames
    MaxRuns          \* bound: runs of the process

ASSUME ConstantsAssumption ==
    /\ IsFiniteSet(Found)
    /\ Invalid \subseteq Found
    /\ Height \in [Found -> Nat]
    /\ FirstTip \in [Nodes -> Nat]
    /\ MaxTip \in Nat /\ MaxFinds \in Nat /\ MaxLost \in Nat
    /\ MaxIoFailures \in Nat /\ MaxRuns \in Nat

VARIABLES
    \* the nodes: height of the tip, found blocks on and off the active chain
    tip, active, side,
    \* the process: its phase and how often it was started
    phase, runs,
    \* reactors: submissions so far, blocks of this run, blocks being spooled
    finds, fresh, spooling,
    \* the submit thread
    submit_queue, live_pc, live,
    \* credited_blocks_, sum of blocks_by_address_, blocks_found_
    credited, by_address, blocks_found,
    \* the recovery thread
    recovery_queue, rec_pc, rec,
    \* the status thread's snapshot
    status_pc, snapshot,
    \* the disk: spool files and pool.status
    file, pool_status,
    \* failures so far
    lost, io_failures,
    \* history: times each block was credited, blocks this run of the process
    \* is done with
    credits, settled

nodes == <<tip, active, side>>
process == <<phase, runs>>
reactors == <<finds, fresh, spooling>>
submitter == <<submit_queue, live_pc, live>>
counters == <<credited, by_address, blocks_found>>
recovery == <<recovery_queue, rec_pc, rec>>
status == <<status_pc, snapshot>>
disk == <<file, pool_status>>
failures == <<lost, io_failures>>
history == <<credits, settled>>
vars == <<nodes, process, reactors, submitter, counters, recovery, status,
          disk, failures, history>>

-----------------------------------------------------------------------------
NoEntry == [hash |-> "none", reply |-> "none"]
NoRecovered == [hash |-> "none", submitted_once |-> FALSE, reply |-> "none"]
ZeroStats == [found |-> 0, by_address |-> 0]

Init ==
    /\ tip = FirstTip
    /\ active = [n \in Nodes |-> {}] /\ side = [n \in Nodes |-> {}]
    /\ phase = "up" /\ runs = 1
    /\ finds = [h \in Found |-> 0] /\ fresh = {} /\ spooling = {}
    /\ submit_queue = << >> /\ live_pc = "idle" /\ live = NoEntry
    /\ credited = {} /\ by_address = 0 /\ blocks_found = 0
    /\ recovery_queue = {} /\ rec_pc = "idle" /\ rec = NoRecovered
    /\ status_pc = "idle" /\ snapshot = 0
    /\ file = [h \in Found |-> "none"] /\ pool_status = ZeroStats
    /\ lost = 0 /\ io_failures = 0
    /\ credits = [h \in Found |-> 0] /\ settled = {}

\* Threads keep taking entries until the pool is destroyed (~Pool).
Running == phase \in {"up", "stopping"}
Known(n) == active[n] \cup side[n]

-----------------------------------------------------------------------------
(* The nodes (external).                                                    *)

\* Another miner's block extends node n's chain.
NodeAdvances(n) ==
    /\ tip[n] < MaxTip
    /\ tip' = [tip EXCEPT ![n] = @ + 1]
    /\ UNCHANGED <<active, side, process, reactors, submitter, counters,
                   recovery, status, disk, failures, history>>

\* A longer branch, perhaps relayed by another node, takes over at n: the
\* found blocks on it become n's active ones.
NodeReorganises(n, branch) ==
    /\ tip[n] < MaxTip
    /\ branch \subseteq {h \in UNION {Known(m) : m \in Nodes} :
                             Height[h] <= tip[n] + 1}
    /\ branch # active[n]
    /\ \A g, h \in branch : Height[g] = Height[h] => g = h
    /\ tip' = [tip EXCEPT ![n] = @ + 1]
    /\ active' = [active EXCEPT ![n] = branch]
    /\ side' = [side EXCEPT ![n] = (Known(n) \ branch)]
    /\ UNCHANGED <<process, reactors, submitter, counters, recovery, status,
                   disk, failures, history>>

\* What node n answers to submitblock: "accepted" is no rejection string;
\* a block whose parent the node lacks is rejected like an invalid one.
Answer(n, h) ==
    IF h \in Invalid THEN "rejected"
    ELSE IF h \in active[n] THEN "duplicate"
    ELSE IF h \in side[n] THEN "inconclusive"
    ELSE IF Height[h] = tip[n] + 1 THEN "accepted"
    ELSE IF Height[h] <= tip[n] THEN "inconclusive"
    ELSE "rejected"

-----------------------------------------------------------------------------
(* RpcClient::submitblock: every endpoint at once.  Reached are the         *)
(* endpoints that get the request, heard those whose reply also arrives.    *)

\* Fault: one rejection outweighs the endpoints that could not be heard.
CombinedRejectionFirst(answers, errors) ==
    IF "accepted" \in answers THEN "accepted"
    ELSE IF "duplicate" \in answers THEN "duplicate"
    ELSE IF "inconclusive" \in answers THEN "inconclusive"
    ELSE IF "rejected" \in answers THEN "rejected"
    ELSE "error"

\* The answers of several endpoints, combined.
Combined(answers, errors) ==
    IF "accepted" \in answers THEN "accepted"
    ELSE IF "duplicate" \in answers THEN "duplicate"
    ELSE IF "inconclusive" \in answers THEN "inconclusive"
    ELSE IF errors THEN "error"
    ELSE "rejected"

Submit(h, reached, heard, reply) ==
    /\ heard \subseteq reached
    /\ reached \subseteq Nodes
    /\ lost' = lost + Cardinality(Nodes \ heard)
    /\ lost' <= MaxLost
    /\ reply = Combined({Answer(n, h) : n \in heard}, heard # Nodes)
    /\ LET joins == {n \in reached : Answer(n, h) = "accepted"}
           forks == {n \in reached : Answer(n, h) = "inconclusive"}
       IN /\ tip' = [n \in Nodes |-> IF n \in joins THEN Height[h] ELSE tip[n]]
          /\ active' = [n \in Nodes |->
                          IF n \in joins THEN active[n] \cup {h} ELSE active[n]]
          /\ side' = [n \in Nodes |->
                        IF n \in forks THEN side[n] \cup {h} ELSE side[n]]
    /\ io_failures' = io_failures

-----------------------------------------------------------------------------
(* Reactors.                                                                *)

\* on_block_found: the block is queued first and spooled afterwards.  A
\* miner may submit its block again while the pool that issued the job runs.
FindBlock(h) ==
    /\ Running
    /\ finds[h] < MaxFinds
    /\ finds[h] = 0 \/ h \in fresh
    /\ finds' = [finds EXCEPT ![h] = @ + 1]
    /\ fresh' = fresh \cup {h}
    /\ submit_queue' = Append(submit_queue, h)
    /\ spooling' = spooling \cup {h}
    /\ UNCHANGED <<nodes, process, live_pc, live, counters, recovery, status,
                   disk, failures, history>>

\* spool_block: the file appears whole (temporary file, fsync, rename) ...
SpoolBlock(h) ==
    /\ h \in spooling
    /\ spooling' = spooling \ {h}
    /\ file' = [file EXCEPT ![h] = "hex"]
    /\ UNCHANGED <<nodes, process, finds, fresh, submitter, counters, recovery,
                   status, pool_status, failures, history>>

\* ... or not at all; the failure is logged and nothing else.
SpoolFails(h) ==
    /\ h \in spooling
    /\ io_failures < MaxIoFailures
    /\ io_failures' = io_failures + 1
    /\ spooling' = spooling \ {h}
    /\ UNCHANGED <<nodes, process, finds, fresh, submitter, counters, recovery,
                   status, disk, lost, history>>

-----------------------------------------------------------------------------
(* The submit thread.                                                       *)

RemoveAt(queue, i) == SubSeq(queue, 1, i - 1) \o SubSeq(queue, i + 1, Len(queue))

\* wait_for_submission, then submitblock.
SubmitLive(i, reached, heard, reply) ==
    /\ Running
    /\ live_pc = "idle"
    /\ i \in DOMAIN submit_queue
    /\ Submit(submit_queue[i], reached, heard, reply)
    /\ submit_queue' = RemoveAt(submit_queue, i)
    /\ live' = [hash |-> submit_queue[i], reply |-> reply]
    /\ live_pc' = "reply"
    /\ UNCHANGED <<process, reactors, counters, recovery, status, disk, history>>

\* Fault: credit_block does not remember what it credited.
LiveCreditAgain ==
    /\ live_pc = "reply"
    /\ live.reply \in {"accepted", "duplicate"}
    /\ live_pc' = "count"
    /\ credited' = credited \cup {live.hash}
    /\ by_address' = by_address + 1
    /\ credits' = [credits EXCEPT ![live.hash] = @ + 1]
    /\ settled' = settled \cup {live.hash}
    /\ UNCHANGED <<nodes, process, reactors, submit_queue, live, blocks_found,
                   recovery, status, disk, failures>>

\* Accepted and AlreadyKnown: credit_block's part under mutex_.  A block
\* credited before is not counted again.
LiveCredit ==
    /\ live_pc = "reply"
    /\ live.reply \in {"accepted", "duplicate"}
    /\ IF live.hash \in credited
         THEN /\ live_pc' = "idle"
              /\ live' = NoEntry
              /\ UNCHANGED <<credited, by_address, credits>>
         ELSE /\ live_pc' = "count"
              /\ live' = live
              /\ credited' = credited \cup {live.hash}
              /\ by_address' = by_address + 1
              /\ credits' = [credits EXCEPT ![live.hash] = @ + 1]
    /\ settled' = settled \cup {live.hash}
    /\ UNCHANGED <<nodes, process, reactors, submit_queue, blocks_found,
                   recovery, status, disk, failures>>

\* credit_block's part after the lock: ++blocks_found_.
LiveCount ==
    /\ live_pc = "count"
    /\ blocks_found' = blocks_found + 1
    /\ live_pc' = "idle"
    /\ live' = NoEntry
    /\ UNCHANGED <<nodes, process, reactors, submit_queue, credited,
                   by_address, recovery, status, disk, failures, history>>

\* Inconclusive, or an error: queued again unless the pool is closing.
LiveRetry ==
    /\ live_pc = "reply"
    /\ live.reply \in {"inconclusive", "error"}
    /\ live_pc' = "idle"
    /\ live' = NoEntry
    /\ submit_queue' = IF Running THEN Append(submit_queue, live.hash)
                                  ELSE submit_queue
    /\ UNCHANGED <<nodes, process, reactors, counters, recovery, status, disk,
                   failures, history>>

\* Rejected by every endpoint: dropped.
LiveReject ==
    /\ live_pc = "reply"
    /\ live.reply = "rejected"
    /\ live_pc' = "idle"
    /\ live' = NoEntry
    /\ settled' = settled \cup {live.hash}
    /\ UNCHANGED <<nodes, process, reactors, submit_queue, counters, recovery,
                   status, disk, failures, credits>>

-----------------------------------------------------------------------------
(* The recovery thread.  recovery_queue is a set: a file is queued once     *)
(* (tracked_recovered_blocks_), and any entry may be due.                   *)

\* A block is looked up at the tip only once it was submitted by this run.
TakeRecovered(entry) ==
    /\ Running
    /\ rec_pc = "idle"
    /\ entry \in recovery_queue
    /\ recovery_queue' = recovery_queue \ {entry}
    /\ rec' = [hash |-> entry.hash, submitted_once |-> entry.submitted_once,
               reply |-> "none"]
    /\ rec_pc' = IF entry.submitted_once THEN "tip" ELSE "submit"
    /\ UNCHANGED <<nodes, process, reactors, submitter, counters, status, disk,
                   failures, history>>

\* archive_recovered_block: the rename may fail and leave the file.
Archive(h, suffix) ==
    /\ \/ /\ file' = [file EXCEPT ![h] = suffix]
          /\ UNCHANGED io_failures
       \/ /\ io_failures < MaxIoFailures
          /\ io_failures' = io_failures + 1
          /\ UNCHANGED file
    /\ settled' = settled \cup {h}
    /\ rec_pc' = "idle"
    /\ rec' = NoRecovered
    /\ UNCHANGED <<nodes, process, reactors, submitter, counters, recovery_queue,
                   status, pool_status, lost, credits>>

\* Nothing decided at this step: go on with another one.
RecoveryGoesTo(pc) ==
    /\ rec_pc' = pc
    /\ UNCHANGED <<nodes, process, reactors, submitter, counters, recovery_queue,
                   rec, status, disk, io_failures, history>>

\* Fault: a block below the tip is submitted again, never looked up.
RecoveryTipOnly(n) ==
    /\ rec_pc = "tip"
    /\ IF rec.hash \in active[n] /\ Height[rec.hash] = tip[n]
         THEN Archive(rec.hash, "submitted")
         ELSE RecoveryGoesTo("submit") /\ UNCHANGED lost

\* resolve_recovered_block_from_tip, first half: the tip of the endpoint in
\* use.  A block at or above the tip's height is submitted again.
RecoveryTip(n) ==
    /\ rec_pc = "tip"
    /\ IF rec.hash \in active[n] /\ Height[rec.hash] = tip[n]
         THEN Archive(rec.hash, "submitted")
         ELSE /\ RecoveryGoesTo(IF Height[rec.hash] >= tip[n] THEN "submit"
                                                              ELSE "candidate")
              /\ UNCHANGED lost

\* Second half: the block's own header; unknown or off the active chain is
\* stale.
RecoveryCandidate(n) ==
    /\ rec_pc = "candidate"
    /\ Archive(rec.hash, IF rec.hash \in active[n] THEN "submitted" ELSE "stale")

\* A lookup that fails falls through to the submission.
RecoveryLookupFails ==
    /\ rec_pc \in {"tip", "candidate"}
    /\ lost < MaxLost
    /\ lost' = lost + 1
    /\ RecoveryGoesTo("submit")

\* submit_recovered_block.
SubmitRecovered(reached, heard, reply) ==
    /\ rec_pc = "submit"
    /\ Submit(rec.hash, reached, heard, reply)
    /\ rec' = [rec EXCEPT !.submitted_once = TRUE, !.reply = reply]
    /\ rec_pc' = "reply"
    /\ UNCHANGED <<process, reactors, submitter, counters, recovery_queue,
                   status, disk, history>>

\* A definite answer archives the file; it is never credited.
RecoveryArchives ==
    /\ rec_pc = "reply"
    /\ rec.reply \in {"accepted", "duplicate", "rejected"}
    /\ Archive(rec.hash, IF rec.reply = "rejected" THEN "rejected" ELSE "submitted")

\* Fault: an error is not retried.
RecoveryRetriesInconclusive ==
    /\ rec_pc = "reply"
    /\ rec.reply \in {"inconclusive", "error"}
    /\ rec_pc' = "idle"
    /\ rec' = NoRecovered
    /\ recovery_queue' =
         IF Running /\ rec.reply = "inconclusive"
           THEN recovery_queue \cup
                  {[hash |-> rec.hash, submitted_once |-> rec.submitted_once]}
           ELSE recovery_queue
    /\ UNCHANGED <<nodes, process, reactors, submitter, counters, status, disk,
                   failures, history>>

\* Inconclusive, or an error: queued again unless the pool is closing.
RecoveryRetries ==
    /\ rec_pc = "reply"
    /\ rec.reply \in {"inconclusive", "error"}
    /\ rec_pc' = "idle"
    /\ rec' = NoRecovered
    /\ recovery_queue' =
         IF Running
           THEN recovery_queue \cup
                  {[hash |-> rec.hash, submitted_once |-> rec.submitted_once]}
           ELSE recovery_queue
    /\ UNCHANGED <<nodes, process, reactors, submitter, counters, status, disk,
                   failures, history>>

-----------------------------------------------------------------------------
(* The status thread: write_stats at intervals and once more at the stop.   *)

\* snapshot reads blocks_found_ first ...
SnapshotFound ==
    /\ Running
    /\ status_pc = "idle"
    /\ snapshot' = blocks_found
    /\ status_pc' = IF phase = "stopping" THEN "final" ELSE "write"
    /\ UNCHANGED <<nodes, process, reactors, submitter, counters, recovery, disk,
                   failures, history>>

AfterWrite == status_pc' = IF status_pc = "final" THEN "done" ELSE "idle"

\* ... and blocks_by_address_ later, under mutex_; the file is replaced whole.
WriteStats ==
    /\ status_pc \in {"write", "final"}
    /\ pool_status' = [found |-> snapshot, by_address |-> by_address]
    /\ snapshot' = 0
    /\ AfterWrite
    /\ UNCHANGED <<nodes, process, reactors, submitter, counters, recovery, file,
                   failures, history>>

\* A failed write is logged; the old file stays.
WriteStatsFails ==
    /\ status_pc \in {"write", "final"}
    /\ io_failures < MaxIoFailures
    /\ io_failures' = io_failures + 1
    /\ snapshot' = 0
    /\ AfterWrite
    /\ UNCHANGED <<nodes, process, reactors, submitter, counters, recovery, disk,
                   lost, history>>

-----------------------------------------------------------------------------
(* The life of the process (main.cpp).                                      *)

\* A signal stops the server and the status thread.
RequestStop ==
    /\ phase = "up"
    /\ phase' = "stopping"
    /\ UNCHANGED <<nodes, runs, reactors, submitter, counters, recovery, status,
                   disk, failures, history>>

\* Reactors and status thread are joined; ~Pool stops the two submitters.
DestroyPool ==
    /\ phase = "stopping"
    /\ status_pc = "done"
    /\ spooling = {}
    /\ phase' = "closing"
    /\ UNCHANGED <<nodes, runs, reactors, submitter, counters, recovery, status,
                   disk, failures, history>>

\* The process ends and everything in memory is gone.
Terminate ==
    /\ phase' = "down"
    /\ fresh' = {} /\ spooling' = {}
    /\ submit_queue' = << >> /\ live_pc' = "idle" /\ live' = NoEntry
    /\ credited' = {} /\ by_address' = 0 /\ blocks_found' = 0
    /\ recovery_queue' = {} /\ rec_pc' = "idle" /\ rec' = NoRecovered
    /\ status_pc' = "idle" /\ snapshot' = 0
    /\ settled' = {}
    /\ UNCHANGED <<nodes, runs, finds, disk, failures, credits>>

\* ~Pool joins both threads, each of which finishes the call it is in.
Exit ==
    /\ phase = "closing"
    /\ live_pc = "idle"
    /\ rec_pc = "idle"
    /\ Terminate

Crash ==
    /\ phase # "down"
    /\ Terminate

\* Fault: blocks_by_address is not read back.
StartWithoutAddresses ==
    /\ phase = "down"
    /\ runs < MaxRuns
    /\ runs' = runs + 1
    /\ phase' = "up"
    /\ blocks_found' = pool_status.found
    /\ by_address' = 0
    /\ recovery_queue' = {[hash |-> h, submitted_once |-> FALSE] :
                            h \in {g \in Found : file[g] = "hex"}}
    /\ UNCHANGED <<nodes, reactors, submitter, credited, rec_pc, rec, status,
                   disk, failures, history>>

\* recover_stats and resubmit_spooled_blocks, before the server starts.
Start ==
    /\ phase = "down"
    /\ runs < MaxRuns
    /\ runs' = runs + 1
    /\ phase' = "up"
    /\ blocks_found' = pool_status.found
    /\ by_address' = pool_status.by_address
    /\ recovery_queue' = {[hash |-> h, submitted_once |-> FALSE] :
                            h \in {g \in Found : file[g] = "hex"}}
    /\ UNCHANGED <<nodes, reactors, submitter, credited, rec_pc, rec, status,
                   disk, failures, history>>

-----------------------------------------------------------------------------
Replies == {"accepted", "duplicate", "inconclusive", "error", "rejected"}

NodeSteps ==
    \E n \in Nodes : \/ NodeAdvances(n)
                     \/ \E branch \in SUBSET Found : NodeReorganises(n, branch)

ReactorSteps ==
    \E h \in Found : FindBlock(h) \/ SpoolBlock(h) \/ SpoolFails(h)

LiveAnswered == LiveCredit \/ LiveCount \/ LiveRetry \/ LiveReject

SubmitThread ==
    \/ \E i \in DOMAIN submit_queue, reached, heard \in SUBSET Nodes,
          reply \in Replies : SubmitLive(i, reached, heard, reply)
    \/ LiveAnswered

RecoveryResubmits ==
    \E reached, heard \in SUBSET Nodes, reply \in Replies :
        SubmitRecovered(reached, heard, reply)

RecoveryWorks ==
    \/ \E n \in Nodes : RecoveryTip(n) \/ RecoveryCandidate(n)
    \/ RecoveryLookupFails
    \/ RecoveryResubmits
    \/ RecoveryArchives
    \/ RecoveryRetries

RecoveryThread ==
    \/ \E entry \in recovery_queue : TakeRecovered(entry)
    \/ RecoveryWorks

StatusThread == SnapshotFound \/ WriteStats \/ WriteStatsFails

ProcessSteps == RequestStop \/ DestroyPool \/ Exit \/ Crash \/ Start

Next ==
    \/ NodeSteps
    \/ ReactorSteps
    \/ SubmitThread
    \/ RecoveryThread
    \/ StatusThread
    \/ ProcessSteps

Spec == Init /\ [][Next]_vars

-----------------------------------------------------------------------------
(* Properties.                                                              *)

InLive(h) ==
    \/ \E i \in DOMAIN submit_queue : submit_queue[i] = h
    \/ live_pc # "idle" /\ live.hash = h

InRecovery(h) ==
    \/ \E entry \in recovery_queue : entry.hash = h
    \/ rec_pc # "idle" /\ rec.hash = h

\* While the pool runs, a block found by this run, or whose .hex file is on
\* disk, is queued or in the hands of the submit or the recovery thread until
\* an answer settles it (submit_loop, recovery_loop: an error, an inconclusive
\* reply, a failed lookup or a restart never drops it).
NoBlockLost ==
    Running =>
        \A h \in Found :
            (h \in fresh \/ file[h] = "hex") /\ h \notin settled
                => InLive(h) \/ InRecovery(h)

\* A block is credited at most once over all runs of the process, and only if
\* some node has it: replies may be lost and blocks submitted again, live and
\* after a restart (credit_block, submit_recovered_block).
CreditedOnce ==
    \A h \in Found : /\ credits[h] <= 1
                     /\ credits[h] = 1 => \E n \in Nodes : h \in Known(n)

\* In memory and in pool.status, the blocks counted never exceed the blocks
\* counted by address, nor those the blocks ever credited: credit_block counts
\* by address first, snapshot reads in the other order, and recover_stats may
\* load an old file but never an inflated one.
NeverOvercounted ==
    LET ever == Cardinality({h \in Found : credits[h] # 0}) IN
    /\ blocks_found <= by_address /\ by_address <= ever
    /\ pool_status.found <= pool_status.by_address
    /\ pool_status.by_address <= ever

\* submitblock reports a rejection only when every endpoint rejects: when a
\* block is dropped or archived as rejected no node has it, and one archived
\* as submitted is known to some node.
RejectionIsUnanimous ==
    /\ live_pc = "reply" /\ live.reply = "rejected"
         => \A n \in Nodes : live.hash \notin Known(n)
    /\ \A h \in Found :
         /\ file[h] = "rejected" => \A n \in Nodes : h \notin Known(n)
         /\ file[h] = "submitted" => \E n \in Nodes : h \in Known(n)

\* "final flush so a restart resumes from the latest stats" (pool.cpp:820):
\* when the process exits in order, pool.status has every block counted.
FinalFlushComplete ==
    [][Exit => pool_status.found = blocks_found]_vars

-----------------------------------------------------------------------------
(* Liveness of the recovery thread.  The thread keeps running, each queued  *)
(* entry becomes due again and again, the chain keeps growing (to MaxTip),  *)
(* and a stopping process finishes the calls it is in and exits.            *)

FairRecovery ==
    /\ \A n \in Nodes : WF_vars(NodeAdvances(n))
    /\ WF_vars(RecoveryWorks) /\ WF_vars(LiveAnswered) /\ WF_vars(Exit)
    /\ \A h \in Found :
         SF_vars(\E entry \in recovery_queue : entry.hash = h /\ TakeRecovered(entry))

FairSpec == Spec /\ FairRecovery

\* A block queued by resubmit_spooled_blocks is not retried for ever: once the
\* chain is past its height it is archived, whatever the nodes answer.
RecoveryDrains ==
    \A h \in Found : InRecovery(h) ~> ~InRecovery(h)

=============================================================================

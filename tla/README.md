# Verification of erikslund-solo-pool

TLA+ models of the solo mining pool, checked with TLC on small instances and,
where a property matters most, proved with TLAPS for every value of the
constants. Paths below are relative to the repository's `src/`, `pool.cpp` means
`src/pool/pool.cpp`. `PROJECT.json` maps every definition to the lines it models.

## 1. The system

The pool polls a Bitcoin node for block templates, turns them into jobs, sends
the jobs to miners over Stratum V1 or V2, checks the shares they send back, and
submits a share that is a block to the node. It is one process with these
threads: N reactors (epoll, each connection belongs to one), an acceptor, four
PROXY-header readers, the work thread, the ZMQ thread, the publication thread
(only with SV2 ports), the submit thread, the recovery thread, the vardiff
thread, the status thread, the HTTP API and a watcher.

| Part | Module | Hard behaviour |
| --- | --- | --- |
| Work publication (`pool.cpp`, `zmq_subscriber.cpp`) | `WorkPublication`, abstractly `WorkFeed` | two publishers, values read before an RPC call and used after it, lists copied before use, lost notifications, forks |
| Block submission, recovery, block counters (`pool.cpp`, `rpc_client.cpp`, `poolstatus.cpp`) | `BlockSubmission` | lost replies, endpoints that disagree, crashes between any two steps, two counters under different locks |
| SV1 session (`stratum/session.cpp`) | `StratumSession`, `Vardiff` | a submit in three phases with an unlocked middle, difficulty changes that take effect later |
| SV2 session (`sv2/session.cpp`) | `Sv2Session`, `Vardiff` | work built off the lock, several channels, batches of frames that break off |
| Network server (`net/server.cpp`) | `Server` | counters read one by one, queues between threads, shutdown |
| Socket, frame codec, Noise (`net/socket_connection.cpp`, `sv2/codec.cpp`, `sv2/noise_connection.cpp`, `sv2_noise/`) | `Transport`, `Noise` | senders on other threads during the handshake, partial writes, split frames |
| Credential tool (`sv2_noise/tools/credentials.c`) | `Credentials` | overlapping runs, a process killed between two files |
| RPC client and IPC work source (`bitcoin/rpc_client.cpp`, `work_source_ipc.cpp`, `capnp_mining_client.cpp`) | `Upstream` | several callers moving one index, cancellation against completion |
| Worker registry and user files (`pool.cpp`, `poolstatus.cpp`) | `Registry` | pruning against attaching, files against rows, restarts |

The parts meet in a few places. A reactor's session calls into the pool: work is
in `WorkPublication`, which has both kinds of session as receivers of work; what
a session does with it is in `StratumSession` and `Sv2Session`, where the pool is
the `Publish` action; a share that is a block leaves them for `on_block_found`,
where `BlockSubmission` begins; a credited share goes to `Registry`. `Server`
creates and destroys the connections whose bytes `Transport` follows. `Upstream`
is what is behind every RPC call that the other modules treat as an answer or a
failure.

## 2. Modules

### WorkPublication

Every lock region is one step, every RPC call a point at which other threads
run. `log` is the sequence of published jobs: `publish_counter_` is its length,
`current_job_` its last element, `recent_jobs_` its last `MaxRecentJobs`
elements. A job is a parent block and a body; body 0 is the fastblock's empty
body, other bodies are states of the node's template, so that two jobs are equal
exactly when `work_signature()` is.

| Code | Actions |
| --- | --- |
| `refresh_work`, `build_and_broadcast` | `WorkDecide`, `WorkProbe`, `WorkFetch`, `WorkFails`, `WorkBook`, `WorkWake`, `WorkTimeout` |
| `on_zmq_block` | `ZmqReceive`, `ZmqHeader`, `ZmqRecheck`, `ZmqFails`, `ZmqClear`, `ZmqNotify` |
| `broadcast_job`, `enqueue_publication` (by either thread) | `Publish`, `CopyClients`, `NotifySv1`, `EnqueueSv2`, `FanoutDone` |
| `publication_loop`, SV2 `publish_job` | `PopPublication`, `PlanPublication`, `CommitPublication` |
| `add_client`, `remove_client` | `AddClient`, `RemoveClient` |
| SV1 subscribe and authorize | `Authorize` (the request that completes the pair, or a repeated one) |
| SV2 open, update, `maybe_refresh_job` | `OpenChannel`, `UpdateChannel`, `PlanRefresh`, `CommitRefresh` |
| `reload_config` | `ReloadConfig` |
| the node (external) | `NodeMoves`, `TemplateChanges`; a reorganisation, or a failover to an endpoint on another tip, is a move to any block |

For each session the model keeps `last_sequence`, the value the code's
duplicate guard compares with, apart from `work`, the publication actually sent:
whether the guard tells the truth is what the properties depend on.

Left out: exceptions from memory allocation in a fan-out; a change of nBits with
the same parent; several channels of one SV2 session and closing a channel.
`generator_ready_` is the negation of `refresh_failing` and not a variable.

### BlockSubmission

One module for the life of a found block: reactors, submit thread, recovery
thread, status thread, disk, nodes, and the life of the process (`up`,
`stopping`, `closing`, `down`). `submitblock` sends to all endpoints at once:
`Submit(h, reached, heard, reply)` says which endpoints got the request and
which replies arrived. `Crash` ends the process between any two steps, and
`Start` runs `recover_stats` and `resubmit_spooled_blocks` on what the disk has.

| Code | Actions |
| --- | --- |
| `on_block_found`, `spool_block` | `FindBlock`, `SpoolBlock`, `SpoolFails` |
| `submit_loop`, `submit_block`, `credit_block` | `SubmitLive`, `LiveCredit`, `LiveCount`, `LiveRetry`, `LiveReject` |
| `recovery_loop` and what it calls | `TakeRecovered`, `RecoveryTip`, `RecoveryCandidate`, `RecoveryLookupFails`, `SubmitRecovered`, `RecoveryArchives`, `RecoveryRetries` |
| `status_loop`, `write_stats`, `snapshot` | `SnapshotFound`, `WriteStats`, `WriteStatsFails` |
| `main`, `~Pool` | `RequestStop`, `DestroyPool`, `Exit`, `Crash`, `Start` |

`credits` and `settled` are history variables. Left out: retry delays (any
queued entry may be due), power loss (files written are kept), spool files that
cannot be read or whose name does not parse, two reactors writing the temporary
file of the same block at once, the time of the last block.

### WorkFeed

The promise to SV1 miners, and nothing of how it is kept: a feed of jobs that
grows only by acceptable jobs (never lower, never the empty job right after work
on its parent), and a position per miner that only moves forward.
`WorkPublicationFeed` maps `log` to the feed and the last job sent to the
position; `ImplementsFeed` is the refinement.

### StratumSession

One SV1 session under its mutex, which is released only while a share is
validated. The hash of a share is an input: the difficulty it meets.

| Code | Actions |
| --- | --- |
| `handle_subscribe`, `handle_configure`, `handle_authorize`, `handle_suggest_difficulty` | `Subscribe`, `Configure`, `Authorize`, `BadAuthorize`, `SuggestDifficulty` |
| `handle_submit` | `Submit` (checks and the seen sets), `Validate` (no lock), `Finish` (credit) |
| `send_notify` | `Notify`; the pool's side is `Publish` |
| `maybe_retarget` on the vardiff thread | `MaybeRetarget` |

`ledger`, `sent` and `rotations` are history variables: what was credited, the
difficulty the newest job came with, and how often the seen shares were rotated.
Difficulties are natural numbers where the code has doubles.

### Sv2Session

One SV2 session with several channels. A publication and a refresh are prepared
without the mutex and committed under it.

| Code | Actions |
| --- | --- |
| `handle_setup_locked`, frames that are not allowed | `Setup`, `Unexpected` |
| open, update, close | `OpenChannel`, `UpdateChannel`, `CloseChannel` |
| `prepare_share_locked`, `validate_and_account_share`, `finish_share_locked` | `SubmitShare`, `Validate`, `FinishShare`; `EndBatch` hands over the blocks of a batch |
| `publish_job` | `PublishPrepare`, `PublishCommit`; the pool's side is `Publish` |
| `maybe_refresh_job` | `RefreshPrepare`, `RefreshCommit` |
| `maybe_retarget` | `MaybeRetarget` |

`found` is a history variable: the blocks among the shares, in the order they
were validated. The payout address of a channel is left out, it never changes.
`Vardiff` has `vardiff_next` and the clamp, used by both sessions.

### Server

| Code | Actions |
| --- | --- |
| `Server::run` | `Start`, `Accept`, `CountNext` (one counter at a time), `Decide`, `Admit`, `AfterAdmit`, `StopAccepting`, `StopWorkers`, `Stopped` |
| `proxy_reader_loop` | `ReaderPop`, `ReaderRead`, `ReaderFinish`, `ReaderStop` |
| the workers | `Wake`, `TakeBatch`, `Adopt`, `Register`, `WorkerStop` |
| connections | `CompleteHandshake`, `RefuseHandshake`, `Disconnect`, `HandshakeTimeout` |
| `reload_config` | `ReloadConfig` |

Descriptors are reused as the kernel does. Clocks are choices.

### Transport and Noise

One SV2 connection: the miner (external), the bytes in both directions, the
reactor that receives and flushes, and a publishing thread that sends.

| Code | Actions |
| --- | --- |
| `worker_loop`, `NoiseConnection::receive`, `FrameDecoder::push`, `handle_bytes` | `Recv`, `Receive`, `Dispatch`, `AfterRead` |
| `send_bytes`, `uncork`, `drain_locked` | `Uncork`, `Flush`, `Publish`, `PublishSend` |
| `fail_locked`, `should_close` | `Reap` |
| the miner and the wire (external) | `MinerHello`, `MinerSend`, `MinerRead`, `MinerClose`, `Damage` |

`Noise` has the handshake and the ciphers as terms: a ciphertext opens under its
key and nonce and no other.

### Credentials

Runs of `keypair` and `issue` that fail at any system call or are killed between
two: `BeginKeypair`, `BeginIssue`, `ReadSecret`, `ReadAuthority`,
`ReadServerPublic`, then for each file of `write_new_file` `WriteTemporary`,
`Link`, `UnlinkTemporary`, and `Undo`, `Crash`. `Remove` is the administrator.
`LoadCredentials` is what the server accepts.

### Upstream

The endpoints (external: `Change`, `Advance`), the work thread (`WorkFetches`,
`WorkAsksTip`, `WorkStep`), another caller (`OtherCall`, `OtherAttempt`,
`OtherFails`), the status thread (`StatusProbe`, `StatusAnswer`), and the IPC
client's connection loop (`LoopStep`, `Interrupt`, `InterruptRetires`).

### Registry

| Code | Actions |
| --- | --- |
| `attach_worker`, `note_accepted_share`, `note_rejected_share` | `Attach`, `AcceptShare`, `RejectShare`, `Disconnect` |
| `write_stats` | `Prune`, `Snapshot`, `WriteUserFile`, `Sweep`, `NoSweep` |
| `recover_user_stats` | `Restart`: the process ends anywhere and a new one reads the files |

`evicted` is a history variable. `Tick` is the wall clock.

### Faults

Next to some definitions stands a variant marked "Fault" with a plausible error
put in (a dropped guard, a wrong operand, a swapped order). It is not used by
the specification; it serves to confirm that the property it is paired with in
`PROJECT.json` would notice.

## 3. Model checking

| Run | Instance | Shows |
| --- | --- | --- |
| `work` | one SV1 and one SV2 session of which one is connected at a time, one new block | `NoMinerLeftBehind`, `QueueOnlyServesConnected`, `Sv1NeverRegresses`, `FeesKept`, `CleanOnNewHeight`, `ImplementsFeed` |
| `notified` | the same sessions, a new body of the template, reliable notifications, no timers | `EventuallyCaughtUp` |
| `poll` | no session, two competing blocks and one a height above, lost notifications, one RPC failure | `EventuallyCaughtUp` with the timers |
| `update` | one Standard Channel, two bodies | `Sv2NeverRegresses` is violated, section 5 |
| `blocks` | a valid block found up to twice or one the nodes refuse, two nodes of which one lags, two runs, one mishap (a lost message, a failed disk operation or a second find) | `NoBlockLost`, `CreditedOnce`, `NeverOvercounted`, `RejectionIsUnanimous`, `RecoveryDrains` |
| `shares` | two addresses, three difficulties, two jobs, three submits, four changes of difficulty or address | `MinerKnowsDifficulty`, `HonoursSentDifficulty`, `CreditPaysMiner`, `CreditIsEarned`, `RememberedForAGeneration` |
| `channels` | two channels of either kind, four extranonce prefixes, two jobs, two shares, three other frames | `BlocksReachPool`, `JobsShareParent`, `WorkIsUnique`, `TargetsAsAnnounced` |
| `admission` | two descriptors, one worker, one reader, `max_clients` 1 to 3, one handshake slot | `AdmissionRespectsLimits`, `SlotsAreHeld`, `StopsClean`, `AcceptedIsServed`, `SlotsRecycle` |
| `connection` | four nonces, chunks of two, frames of 0 to 4 with a limit of 3, an outbox of three, a kernel buffer of one | `MinerDecryptsAll`, `FramesArriveIntact`, `OutboxDrains` |
| `provisioning` | two overlapping runs, three keys, three times | `PairMatches`, `IssuedLoads`, `NeverOverwrites` |
| `upstream` | two RPC endpoints, or one and IPC; two tips, two failures | `ExhaustedMeansNoneLeft`, `ReturnsToPrimary`, `IpcResumes`, `LoopStops` |
| `registry` | two addresses where one fits, or two names of one; one session, two runs, a clock of three | `ConnectedRowsKept`, `EvictedStaysGone`, `LimitsHold` |

Each finishes within five minutes; the largest have more than a million
states (`shares`, `channels`).

### Bounds, and why they are enough

* Publication: a hazard needs two publishers with a publication each in flight,
  a session that joins or leaves in the middle, and one publication after that.
  One new block gives the fastblock's empty job, its template and a revision of
  it, by two threads. `MaxRecentJobs` is 2, so that a queued job is evicted.
  Forks are in `poll`, whose heights 1 to 3 with a `RetargetInterval` of 4 reach
  both sides of the retarget test. What the small instance leaves out (more
  sessions, competing tips with miners connected, any length) the theorems of
  section 4 cover for every property of `work`.
* Submission: two finds and two runs cover a lost reply, a retry, and a crash
  before and after each of spool, credit, write and archive. `MCOneMishap`
  allows one mishap besides the crash.
* SV1 shares: two generations of one seen share each rotate within three
  submits. Four changes are enough for a difficulty to change twice between two
  jobs, with a re-authorization.
* SV2 channels: one job may be sent with four prefixes (open, update, refresh,
  publication), as many as there are; a batch of frames may have a share that is a
  block before a malformed one. A prefix that comes round again for a later job
  takes more publications than two: `UniqueTheorem` of section 4 covers it.
* Server: a second descriptor is needed for a limit to be exceeded, and a
  closed one is reused.
* Transport: four nonces are used up by the handshake and two frames, a kernel
  buffer of one makes every write partial.
* Registry: `Grace` 0 and `Retention` 1 with a clock of 3 let a row expire, be
  written before, and be read back after.

Deadlock is checked where the system never stops. In `blocks` the process may be
down for good; in `shares`, `channels` and `connection` a session whose bounds
are used up, or that was closed, has nothing more to do.

### Fairness

* Publication: every thread keeps running, and an RPC call returns or throws
  since the client has time limits (`WF` of each thread). `poll` adds the poll
  timer (`WF`) and the rebroadcast timer (`SF` of a decision with the timer
  expired: it expires again and again, not continuously). `notified` has neither.
* Submission: the recovery thread's steps and the completion of a call already
  begun are weakly fair; each queued entry is taken again and again (`SF`) as
  its delay keeps passing; the chain grows up to `MaxTip`.
* Server: every thread keeps running (`WF`); a header read has a timeout; each
  turn of a worker's loop sweeps for handshakes that take too long (`SF` of
  `HandshakeTimeout`, as adoptions interrupt it).
* Transport: the reactor, a publisher that has begun and a miner that has not
  closed go on (`WF`); `TCP_USER_TIMEOUT` ends a connection whose peer does not
  read.
* Upstream: calls have deadlines (`WF`); the status thread probes, and the
  rebroadcast makes the work thread fetch, again and again (`SF`).

Nothing is assumed of the miners' requests, of the nodes beyond what a property
says, or of crashes.


## 4. Proofs

Proved by TLAPS for any values of the constants, from the named assumptions of
each module (`ConstantsAssumption` of WorkPublication and of BlockSubmission,
`VardiffAssumption`, the three of StratumSession and the three of Sv2Session,
`RegistryAssumption`, `CredentialsAssumption`, `ServerAssumption`,
`UpstreamAssumption`):

| Module | Theorem | States |
| --- | --- | --- |
| `WorkPublication_proof` | `TypeCorrect` | `Spec => []TypeOK` |
| | `MinersKeepUp` | `Spec => []NoMinerLeftBehind` |
| | `QueueIsClean` | `Spec => []QueueOnlyServesConnected` |
| | `Sv1WorkIsMonotone` | `Spec => Sv1NeverRegresses` |
| | `FeesAreKept` | `Spec => FeesKept` |
| | `NewHeightsAreClean` | `Spec => CleanOnNewHeight` |
| | `PoolImplementsFeed` | `Spec => ImplementsFeed` |
| `BlockSubmission_proof` | `BlocksAreKept` | `Spec => []NoBlockLost` |
| | `BlocksAreCreditedOnce` | `Spec => []CreditedOnce` |
| | `CountersAreBounded` | `Spec => []NeverOvercounted` |
| | `RejectionsAreUnanimous` | `Spec => []RejectionIsUnanimous` |
| `StratumSession_proof` | `DifficultyIsTold` | `Spec => []MinerKnowsDifficulty` |
| | `SentDifficultyIsHonoured` | `Spec => []HonoursSentDifficulty` |
| | `CreditGoesToPayee` | `Spec => []CreditPaysMiner` |
| | `CreditIsForWork` | `Spec => []CreditIsEarned` |
| | `SharesAreRemembered` | `Spec => []RememberedForAGeneration` |
| `Registry_proof` | `ConnectedRowsAreKept` | `Spec => []ConnectedRowsKept` |
| | `EvictedRowsStayGone` | `Spec => []EvictedStaysGone` |
| | `RegistryIsBounded` | `Spec => []LimitsHold` |
| `Credentials_proof` | `KeyFilesMatch` | `Spec => []PairMatches` |
| | `CertificatesLoad` | `Spec => []IssuedLoads` |
| | `FilesAreNotOverwritten` | `Spec => NeverOverwrites` |
| `Server_proof` | `AdmissionTheorem` | `Spec => []AdmissionRespectsLimits` |
| | `SlotsTheorem` | `Spec => []SlotsAreHeld` |
| | `StopsCleanTheorem` | `Spec => []StopsClean` |
| `Sv2Session_proof` | `BlocksTheorem` | `Spec => []BlocksReachPool` |
| | `ParentTheorem` | `Spec => []JobsShareParent` |
| | `TargetsTheorem` | `Spec => []TargetsAsAnnounced` |
| | `UniqueTheorem` | `Spec => []WorkIsUnique`, if `PrefixSpace >= MaxFrames + MaxTicks` |
| `Upstream_proof` | `ExhaustedTheorem` | `Spec => []ExhaustedMeansNoneLeft` |

### Publication

`NoMinerLeftBehind` is not inductive: a guard may drop the current job because it
claims a sequence whose work was never sent. `DeliveryInv` adds that sequence
numbers never run ahead of the counter (`Sequenced`), that a guard that has
reached the newest publication means the session is on it (`GuardTellsWork`), that
deferred work is addressed to SV2 sessions (`Addressed`), the shape of the queue,
and the delivery statement in terms of the guard (`Delivered`). One lemma per
action follows the newest publication from hand to hand: published, copied to a
recipient list, notified or queued, coalesced, popped, planned, committed.

For `Sv1NeverRegresses` and `FeesKept`, `LogInv` adds that the log's heights never decrease,
that an empty job never directly follows work on its own parent, and that an SV1
session's guard equals the sequence of its last job. `FeesKept` then says that
between a full template and a later empty job on the same parent the log has a
job on another parent: the one just before the empty job.

`CleanOnNewHeight` needs to know why a job without the flag cannot be the first of
its height a miner sees. `CleanInv` says where the templates are: the one
`last_prevhash_` is about was published and is not the one being sent (`Booked`);
the one the work thread has in hand, when it is sent without the flag, has the
parent of `last_prevhash_` (`InHand`); and an SV1 session that is connected and
ready has every published template or later work, except the one being sent
(`TemplatesSent`). So the miner's current work lies between two entries of the
log of one height, and heights in the log never fall.

The refinement maps an initial state to an initial state of `WorkFeed` and each
step to a step or a stutter: a step that sends work sends it to one miner
(`OneMiner`), an accepted `Publish` is the feed's (`PublishIsFeedPublish`), and
`StepIsFeedStep` collects the rest.

### Submission

`BlockInv` has, besides types and `NoBlockLost`: who holds a block (`Held`: the
submit thread blocks of this run, the recovery thread blocks of earlier runs with
their file still there, each once), what an answer in hand and a file's suffix say
of the nodes (`Truthful`), and how far each counter is behind the one before it
(`Counted`). `CreditedOnce` needs `Held`: a block is found again by the submit
thread only in the run whose `credited` set remembers it. `NeverOvercounted` needs
finitely many blocks, an assumption of the module.

### SV1 session

`SessionInv` has the level the miner was last sent with a job (`Levels`), the
payee of a cached coinbase and of the share in hand (`Paying`), and that the key of
a credited share, or of the one in hand, is in the set of its generation until two
rotations later (`Seen`). The last covers the unlocked validation between the
reservation and the credit: a concurrent rotation does not let a second copy in
for a generation.

### Registry

`RegistryInv` has, besides types and `ConnectedRowsKept`: `Aged`, no copy of a row,
with the status thread or on disk, is of a later share than the row's last
activity; `Gone`, of an evicted row the status thread has no copy and one on disk
is older than the retention; `Counted`, once the names on disk were learnt they
cover the files within the limit. `EvictedStaysGone` follows across a crash anywhere
since an evicted row's line is too old to be read back. `LimitsHold` depends on
`ConnectedRowsKept`: `note_accepted_share` with a row in hand does not look at the
limits, and a held row needs no room.

### Credentials

The invariant describes a run of the tool in the middle of a command: for `keypair`
(`Pairing`) that the public file is missing until it is linked, and that the
secret it was derived from is then there; for `issue` (`Issuing`) which of the two
outputs it has made. `Has` says that a run created the authority file and may still
remove it. At most one run has it (`Apart`), while one does the file is its own,
and no certificate exists without an authority file while any issue run is under
way. So the certificate is linked only beside the key it was signed with, and a run
that gives up removes the authority file only when no certificate is there.

### Server

The acceptor adds up its counters one by one while connections move from one to
the next. `CountingInv` says why the sum is never too small: connections move
through the counters in the order the acceptor reads them, so a descriptor that no
counter still to be read will count (`Passed`) was counted before. It needs what
each counter counts: `pending` the descriptors delivered to a worker
(`PendingInv`), the proxy counter those queued and being read, late by one for the
acceptor and for each reader that is between two of its steps (`ProxyInv`), the
registered ones (`ClientsInv`). `QueueInv`, `ReaderInv` and `WorkerInv` give every
descriptor exactly one holder; the slots and the clean stop follow from them.
`ServerAssumption` has finitely many readers, since the counts are cardinalities.
Above it, `NoiseInv` says that only Noise connections handshake.

### SV2 session

`Inv` has the types, that a plan is for a published job (`PlansInv`), the jobs of
each channel (`Sound`: on the channel's parent, few enough, held to the target
announced or, if they follow the channel, to the channel's), and where a block is
that was found (`BlocksInv`: with the pool, among those of the batch, or with the
share in hand).

`WorkIsUnique` takes more. A Standard channel is alone in its session, and an
Extended channel is sent a job once with its id as prefix (`KindsInv`), so only the
prefixes of a Standard channel can meet. All those of one job are allocated while
it is the newest, also when the job is committed later; `UniqueInv` counts the
allocations since its publication by the frames, the ticks and the one publication
(`Allotted`). There are at most `MaxFrames + MaxTicks` of them, so with that many
prefixes they differ. With fewer, the counter can come round while one job is the
newest. In the code there are `256^extranonce2_size` prefixes, and a job is the
newest until other work is published.

### RPC client

`Inv` follows every call under way: the endpoints from its start up to its offset
are tried (`Tried`), and none of them is among those that have answered ever since
the call began (`Honest`). The index is taken from where the call started and not
from the shared one, so neither the failback nor another call disturbs this. At the
last offset every endpoint has been tried once, around the ring (`AllInTurn`), so
none is left.

Each invariant was first checked with TLC as an invariant of the run's instance, or
of others of that size: `BlockInv` on 260,854 states, `SessionInv` on 1,438,000,
`RegistryInv` on 449,794, `CleanInv` on 52,139, `Inv` of Credentials on 28,928;
`Inv` and `NoiseInv` of Server on instances of 43,138, 754,134 and 1,291,845; `Inv`,
`KindsInv` and `UniqueInv` of Sv2Session on 1,076,170 and, with one Standard
channel, seven prefixes, five frames and two ticks, on 253,239; `Inv` of Upstream
on 62,286.

### Only model-checked

The properties of Transport (`MinerDecryptsAll`, `FramesArriveIntact`): the
decoder is a recursive operator over the bytes, and what it computes for every
input is an induction over data, which is beyond the prover. And all liveness
(`EventuallyCaughtUp`, `RecoveryDrains`, `AcceptedIsServed`, `SlotsRecycle`,
`OutboxDrains`, `ReturnsToPrimary`, `IpcResumes`, `LoopStops`), since liveness
under fairness and `ENABLED` are beyond it too.

Instances larger than the runs were checked by hand: publication with rival
blocks, two moves and two bodies, `ImplementsFeed` included (2,368,800 states);
`work` with rivals (995,579) and with two moves (1,158,590); submission with rival
blocks (1,079,924), with more restarts (112,255), with more endpoints (771,573),
and without the constraint on mishaps (260,854).

## 5. Findings

* `update`: `handle_update_locked` (`src/sv2/session.cpp:478`) sends the current
  job without raising `last_publication_sequence`; an older queued publication
  is then sent after it, against the comment at `src/pool/pool.cpp:276`. The next
  publication repairs it.

Observed without a run:

* With two competing tips, a template is booked as delivered while the current
  job is the empty one for the same parent (`pool.cpp:397`;
  `TemplateSupersedesEmptyJob` states what the comment says). Miners stay on the
  empty job until the rebroadcast timer; `poll` shows that the timer ends it.
* The final write of the statistics (`pool.cpp:820`) runs before the submit thread
  is joined; a block accepted in between is missing from `pool.status` for good
  (`FinalFlushComplete` of BlockSubmission states the opposite).
* A share without version bits and one with `00000000` are one solution with two
  keys for the duplicate check (`session.hpp:137`, `session.cpp:551`;
  `SpellingsCollapse` of StratumSession).
* Two SV2 channels opened on two new jobs rotate the session's share history
  twice, while a channel that is already open keeps its jobs
  (`rotate_share_history_for_clean_job_locked`, against the title of the test at
  `tests/test_sv2_session.cpp:483`).
* With `extranonce2_size` 2, which `config.cpp:168` allows, the prefix of a
  Standard job and the one of an Extended channel are both two bytes and may
  coincide.
* Two workers may publish the state of authenticated SV2 in the other order than
  their handshakes ended (`net/server.cpp:483` and `572`).
* Two `keypair` runs on one pair at the same time can leave a secret without its
  public key. `BeginKeypair` of Credentials excludes it.
* `pool.hpp:8-9` says the work thread never holds two locks, while
  `enqueue_publication` holds `mutex_` and `publication_mutex_` (always in this
  order, so without a deadlock).
* A live block on a side chain is retried for the life of the process
  (`pool.cpp:1360`). A recovered block that the endpoint in use does not know is
  archived as stale although another endpoint may have it.

## 6. Not modelled

* The payloads of SV2 messages and the lines of SV1: parsing them, and their
  layout. The framing of SV2 is in Transport.
* The HTTP API, metrics, logging and crash reports: they read state and change
  none of it.
* Encodings, 256-bit arithmetic, checksums, hashing, cryptography and the assembly
  of the coinbase: functions of bytes out of TLC's reach, covered by unit tests.
* The configuration file, apart from the settings that appear as constants.
* Decaying averages and share totals: floating point.

---------------------------- MODULE Sv2Session ----------------------------
(***************************************************************************)
(* One Stratum V2 session (sv2/session.cpp): its channels, the jobs issued *)
(* on them, and their shares.  The reactor worker handles a batch of       *)
(* frames under the session's mutex, which it releases only while a share  *)
(* is validated; the publication thread and the same worker's maintenance  *)
(* tick build work without the mutex and commit it under the mutex; the    *)
(* vardiff thread changes targets.  A step is a region under the mutex, or *)
(* what happens between two of them.                                       *)
(*                                                                         *)
(* A target is the difficulty it stands for: the device's maximum target   *)
(* is a least difficulty.  The hash of a share is an input, the difficulty *)
(* it meets.                                                               *)
(***************************************************************************)
EXTENDS Vardiff, Sequences, FiniteSets, Functions

CONSTANTS
  None,
  Kinds,            \* subset of {"standard", "extended"} that miners open
  Shapes,           \* what shares look like, a subset of AllShapes
  Difficulties,     \* difficulties hashes meet and devices ask for
  InitialDifficulty, NetworkDifficulty,
  PrefixSpace,      \* 256^extranonce2_size: when the prefix counter wraps
  ChannelLimit,     \* kMaximumActiveChannels
  LastChannelId,    \* kMaximumChannelId
  IssuedLimit,      \* kMaximumIssuedJobs
  RecentLimit,      \* kMaxRecentJobs
  SeenLimit,        \* kMaxSeenShares
  MaxJobs,          \* bound: publications
  MaxFrames,        \* bound: frames other than shares
  MaxShares,        \* bound: shares submitted
  MaxTicks          \* bound: retargets and refreshes

AllShapes == {"good", "size", "version"}
\* The hash rate a device states: none, one the initial difficulty covers, one
\* that exhausts a Standard job quickly, one beyond maximum_hash_rate.  The last
\* also stands for a target of zero and an address that does not validate.
Rates == {"none", "slow", "fast", "excessive"}
NoPlan == [ch |-> 0, id |-> 0, job |-> 0, prefix |-> 0, fresh |-> FALSE]

ASSUME KindsAssumption ==
  Kinds \subseteq {"standard", "extended"} /\ Shapes \subseteq AllShapes
ASSUME LevelsAssumption ==
  /\ Difficulties \subseteq Nat \ {0}
  /\ {InitialDifficulty, NetworkDifficulty} \subseteq Nat \ {0}
ASSUME LimitsAssumption ==
  /\ {PrefixSpace, ChannelLimit, LastChannelId, IssuedLimit, RecentLimit,
      SeenLimit} \subseteq Nat \ {0}
  /\ {MaxJobs, MaxFrames, MaxShares, MaxTicks} \subseteq Nat

VARIABLES
  parents,          \* the pool: the parent of every job published, in order
  queued,           \* this session's entry in publication_queue_: [job, clean]
  accepted_shares, rejected_shares,
  blocks,           \* what on_block_found was given, in order
  setup_complete, standard_only, close_after_response, protocol_errors,
  channels,         \* channel id -> channel, for the open channels
  next_channel_id, next_job_id, extranonce_counter,
  last_clean,       \* last_clean_job_
  seen_shares, seen_shares_previous,
  pending_blocks, shares_accepted, shares_rejected,
  pc, share,        \* the reactor worker: its step, the share it validates
  refresh,          \* the plan of its maintenance tick, or NoPlan
  publishing,       \* the publication thread: [clean, plans], plans in order
  found,            \* history: the blocks its shares found, in order
  frames, shares, ticks

pool == <<parents, queued>>
accounts == <<accepted_shares, rejected_shares, blocks>>
connection == <<setup_complete, standard_only, close_after_response>>
ids == <<next_channel_id, next_job_id, extranonce_counter>>
dedup == <<last_clean, seen_shares, seen_shares_previous>>
counters == <<shares_accepted, shares_rejected, pending_blocks>>
bounds == <<frames, shares, ticks>>
vars == <<pool, accounts, connection, protocol_errors, channels, ids, dedup,
          counters, pc, share, refresh, publishing, found, bounds>>

Published == Len(parents)
RecentJobs == {j \in 1..Published : j > Published - RecentLimit}
Open == DOMAIN channels
\* Parents are numbered in the order they first appear.
Parents == {p \in 1..(Published + 1) : p = 1 \/ p - 1 \in Range(parents)}
NoPublication == [clean |-> FALSE, plans |-> <<>>]

Init ==
  /\ parents = <<>> /\ queued = None
  /\ accepted_shares = 0 /\ rejected_shares = 0 /\ blocks = <<>>
  /\ setup_complete = FALSE /\ standard_only = FALSE
  /\ close_after_response = FALSE /\ protocol_errors = 0
  /\ channels = <<>>
  /\ next_channel_id = 1 /\ next_job_id = 1 /\ extranonce_counter = 0
  /\ last_clean = 0 /\ seen_shares = {} /\ seen_shares_previous = {}
  /\ pending_blocks = <<>> /\ shares_accepted = 0 /\ shares_rejected = 0
  /\ pc = "idle" /\ share = None
  /\ refresh = NoPlan /\ publishing = NoPublication
  /\ found = <<>> /\ frames = 0 /\ shares = 0 /\ ticks = 0

\* The reactor worker holds the mutex while it handles frames.
Unlocked == pc # "frames"
Handling == pc \in {"idle", "frames"} /\ ~close_after_response

----------------------------------------------------------------------------
(* Issuing jobs.                                                           *)

\* requires_new_prevhash_locked; a channel without a parent has none yet.
RequiresNewPrevhash(c, job) == c.parent = 0 \/ c.parent # parents[job]

\* allocate_extranonce_prefix_locked: the counter's bytes that fit.
Prefix(counter) == counter % PrefixSpace

\* Fault: a refresh announces the prefix in use.
PlanReusesPrefix(ch, job, kind, announced, k) ==
  [ch |-> ch, id |-> next_job_id + k - 1, job |-> job,
   prefix |-> IF kind = "extended" THEN ch
              ELSE Prefix(IF announced THEN extranonce_counter + k
                          ELSE extranonce_counter),
   fresh |-> kind = "standard" /\ ~announced]

\* prepare_job_locked for channel ch, its k-th allocation of this region: a
\* Standard job takes a new prefix unless the opening announced one.
Plan(ch, job, kind, announced, k) ==
  [ch |-> ch, id |-> next_job_id + k - 1, job |-> job,
   prefix |-> IF kind = "extended" THEN ch
              ELSE Prefix(extranonce_counter + k),
   fresh |-> kind = "standard" /\ ~announced]

\* Fault: jobs of the old parent stay valid.
KeepsOldJobs(c, plan, clean) ==
  LET issued == [id |-> plan.id, job |-> plan.job, prefix |-> plan.prefix,
                 level |-> c.level, announced |-> c.level,
                 follows |-> clean \/ RequiresNewPrevhash(c, plan.job)]
      jobs == Append(c.jobs, issued)
      excess == Len(jobs) - IssuedLimit IN
  [c EXCEPT !.jobs = IF excess > 0 THEN SubSeq(jobs, excess + 1, Len(jobs)) ELSE jobs,
            !.parent = parents[plan.job]]

\* commit_job_locked, what it does to the channel: a clean job replaces the
\* others, the oldest beyond the limit go, and a new parent is announced.
Committed(c, plan, clean) ==
  LET clean_job == clean \/ RequiresNewPrevhash(c, plan.job)
      issued == [id |-> plan.id, job |-> plan.job, prefix |-> plan.prefix,
                 level |-> c.level, announced |-> c.level, follows |-> clean_job]
      jobs == Append(IF clean_job THEN <<>> ELSE c.jobs, issued)
      excess == Len(jobs) - IssuedLimit IN
  [c EXCEPT !.jobs = IF excess > 0 THEN SubSeq(jobs, excess + 1, Len(jobs)) ELSE jobs,
            !.parent = IF clean_job THEN parents[plan.job] ELSE @]

\* rotate_share_history_for_clean_job_locked: once per clean job, and never to
\* an empty generation.
RotateForClean(job, clean_job) ==
  IF ~clean_job \/ last_clean = job
  THEN UNCHANGED dedup
  ELSE /\ last_clean' = job
       /\ seen_shares_previous' = IF seen_shares = {} THEN seen_shares_previous
                                  ELSE seen_shares
       /\ seen_shares' = {}

----------------------------------------------------------------------------
(* The pool's side: broadcast_job queues the session's entry, an older one is *)
(* coalesced into it.                                                      *)

Publish ==
  /\ Published < MaxJobs
  /\ \E parent \in Parents, clean \in BOOLEAN :
       /\ parents' = Append(parents, parent)
       /\ queued' = [job |-> Published + 1,
                     clean |-> clean \/ (queued # None /\ queued.clean)]
  /\ UNCHANGED <<accounts, connection, protocol_errors, channels, ids, dedup,
                 counters, pc, share, refresh, publishing, found, bounds>>

\* The channels of S in the order of channels_, by their ids.
InOrder(S) ==
  [k \in 1..Cardinality(S) |-> CHOOSE ch \in S : Cardinality({d \in S : d <= ch}) = k]

\* publish_job, the first region: a plan for every channel behind the job.
PublishPrepare ==
  /\ Unlocked /\ queued # None /\ publishing.plans = <<>>
  /\ queued' = None
  /\ LET job == queued.job
         behind == IF job \in RecentJobs
                   THEN InOrder({ch \in Open : channels[ch].seq < job})
                   ELSE <<>>
         standard == {ch \in Open : channels[ch].kind = "standard"} IN
     /\ publishing' = [clean |-> queued.clean,
                       plans |-> [k \in DOMAIN behind |->
                          Plan(behind[k], job, channels[behind[k]].kind, FALSE, k)]]
     /\ next_job_id' = next_job_id + Len(behind)
     /\ extranonce_counter' = IF standard # {} THEN extranonce_counter + Len(behind)
                              ELSE extranonce_counter
  /\ UNCHANGED <<parents, accounts, connection, protocol_errors, channels,
                 next_channel_id, dedup, counters, pc, share, refresh, found,
                 bounds>>

\* Its later regions, one per plan: the channel may be gone or further on.
PublishCommit ==
  /\ Unlocked /\ publishing.plans # <<>>
  /\ LET plan == Head(publishing.plans)
         ch == plan.ch IN
     /\ publishing' = IF Len(publishing.plans) = 1 THEN NoPublication
                      ELSE [publishing EXCEPT !.plans = Tail(@)]
     /\ \/ /\ ch \notin Open \/ (ch \in Open /\ channels[ch].seq >= plan.job)
           /\ UNCHANGED <<channels, dedup>>
        \/ /\ ch \in Open /\ channels[ch].seq < plan.job
           /\ channels' = [channels EXCEPT
                ![ch] = [Committed(@, plan, publishing.clean) EXCEPT !.seq = plan.job]]
           /\ RotateForClean(plan.job, publishing.clean
                                 \/ RequiresNewPrevhash(channels[ch], plan.job))
  /\ UNCHANGED <<pool, accounts, connection, protocol_errors, ids, counters, pc,
                 share, refresh, found, bounds>>

\* maybe_refresh_job, from the worker's maintenance tick: the current job again
\* with a new prefix, for a Standard device that exhausts one quickly.
RefreshPrepare ==
  /\ pc = "idle" /\ refresh = NoPlan /\ Published > 0 /\ ticks < MaxTicks
  /\ ticks' = ticks + 1
  /\ \E ch \in Open :
       /\ channels[ch].kind = "standard" /\ channels[ch].fast
       /\ refresh' = Plan(ch, Published, "standard", FALSE, 1)
  /\ next_job_id' = next_job_id + 1
  /\ extranonce_counter' = extranonce_counter + 1
  /\ pc' = "refreshing"
  /\ UNCHANGED <<pool, accounts, connection, protocol_errors, channels,
                 next_channel_id, dedup, counters, share, publishing, found,
                 frames, shares>>

RefreshCommit ==
  /\ pc = "refreshing" /\ pc' = "idle"
  /\ refresh' = NoPlan
  /\ LET ch == refresh.ch IN
     \/ /\ ch \notin Open \/ (ch \in Open /\ channels[ch].seq > refresh.job)
        /\ UNCHANGED <<channels, dedup>>
     \/ /\ ch \in Open /\ channels[ch].seq <= refresh.job
        /\ channels' = [channels EXCEPT
             ![ch] = [Committed(@, refresh, FALSE) EXCEPT !.seq = refresh.job]]
        /\ RotateForClean(refresh.job, RequiresNewPrevhash(channels[ch], refresh.job))
  /\ UNCHANGED <<pool, accounts, connection, protocol_errors, ids, counters,
                 share, publishing, found, bounds>>

----------------------------------------------------------------------------
(* handle_bytes: a batch of frames, one action each.                       *)

\* Fault: a malformed frame also drops the blocks found before it.
EndBatchDropping ==
  /\ pc \in {"idle", "frames"} /\ pc' = "idle"
  /\ \E malformed \in BOOLEAN :
       /\ pc = "idle" => malformed /\ ~close_after_response
       /\ close_after_response' = (close_after_response \/ malformed)
       /\ protocol_errors' = IF malformed THEN protocol_errors + 1 ELSE protocol_errors
       /\ blocks' = IF malformed THEN blocks ELSE blocks \o pending_blocks
  /\ pending_blocks' = <<>>
  /\ UNCHANGED <<pool, accepted_shares, rejected_shares, setup_complete,
                 standard_only, channels, ids, dedup, shares_accepted,
                 shares_rejected, share, refresh, publishing, found, bounds>>

\* The end of a batch, perhaps a malformed frame: the blocks its shares found go
\* to the pool, once the mutex is released.
EndBatch ==
  /\ pc \in {"idle", "frames"} /\ pc' = "idle"
  /\ \E malformed \in BOOLEAN :
       /\ pc = "idle" => malformed /\ ~close_after_response
       /\ close_after_response' = (close_after_response \/ malformed)
       /\ protocol_errors' = IF malformed THEN protocol_errors + 1 ELSE protocol_errors
  /\ blocks' = blocks \o pending_blocks
  /\ pending_blocks' = <<>>
  /\ UNCHANGED <<pool, accepted_shares, rejected_shares, setup_complete,
                 standard_only, channels, ids, dedup, shares_accepted,
                 shares_rejected, share, refresh, publishing, found, bounds>>

\* What a frame that is not a share leaves alone.
Frame ==
  /\ Handling /\ frames < MaxFrames
  /\ frames' = frames + 1
  /\ pc' = "frames"
  /\ UNCHANGED <<pool, accounts, counters, share, refresh, publishing,
                 found, shares, ticks>>

\* dispatch_locked before the setup: SetupConnection or the connection closes;
\* handle_setup_locked closes it too when the versions or flags do not match.
Setup ==
  /\ Frame /\ ~setup_complete
  /\ \/ /\ setup_complete' = TRUE
        /\ standard_only' \in BOOLEAN
        /\ UNCHANGED <<close_after_response, protocol_errors>>
     \/ /\ close_after_response' = TRUE
        /\ \E other \in BOOLEAN :
             protocol_errors' = IF other THEN protocol_errors + 1 ELSE protocol_errors
        /\ UNCHANGED <<setup_complete, standard_only>>
  /\ UNCHANGED <<channels, ids, dedup>>

\* After it: a second SetupConnection closes, an unknown message is counted.
Unexpected ==
  /\ Frame /\ setup_complete
  /\ protocol_errors' = protocol_errors + 1
  /\ close_after_response' \in BOOLEAN
  /\ UNCHANGED <<setup_complete, standard_only, channels, ids, dedup>>

\* difficulty_for_hashrate, with variable difficulty.
DifficultyForRate(rate) ==
  LET least == Larger(InitialDifficulty, MinimumDifficulty) IN
  CASE rate = "fast" -> MaximumDifficulty
    [] rate = "slow" -> Smaller(least, MaximumDifficulty)
    [] OTHER -> least

\* Why an open is refused: first what OpenExtendedMiningChannel checks itself,
\* then open_channel_locked in its order.  An "error" counts as one.
Refusal(kind, rate, narrow) ==
  IF kind = "extended" /\ (standard_only \/ narrow) THEN "error"
  ELSE IF next_channel_id > LastChannelId THEN "exhausted"
  ELSE IF \/ kind = "standard" /\ Open # {}
          \/ /\ kind = "extended"
             /\ \/ \E ch \in Open : channels[ch].kind = "standard"
                \/ Cardinality(Open) >= ChannelLimit
       THEN "limit"
  ELSE IF rate = "excessive" THEN "error"
  ELSE IF Published = 0 THEN "no work" ELSE "none"

\* The channel open_channel_locked creates, before its first job.
NewChannel(kind, rate, floor) ==
  [kind |-> kind, floor |-> floor, level |-> Larger(DifficultyForRate(rate), floor),
   fast |-> kind = "standard" /\ rate = "fast", seq |-> Published,
   mined |-> FALSE, accepted |-> 0, rejected |-> 0, jobs |-> <<>>, parent |-> 0]

\* Opening a channel issues the current job on it, as a clean one.
OpenNew(kind, rate, floor) ==
  LET ch == next_channel_id IN
  /\ channels' = [c \in Open \cup {ch} |->
       IF c = ch THEN Committed(NewChannel(kind, rate, floor),
                                Plan(ch, Published, kind, TRUE, 1), TRUE)
       ELSE channels[c]]
  /\ next_channel_id' = next_channel_id + 1
  /\ next_job_id' = next_job_id + 1
  /\ extranonce_counter' = IF kind = "standard" THEN extranonce_counter + 1
                           ELSE extranonce_counter
  /\ RotateForClean(Published, TRUE)

OpenChannel ==
  /\ Frame /\ setup_complete
  /\ \E kind \in Kinds, rate \in Rates, floor \in Difficulties, narrow \in BOOLEAN :
       LET refusal == Refusal(kind, rate, narrow) IN
       \/ /\ refusal # "none"
          /\ close_after_response' = (refusal = "exhausted")
          /\ protocol_errors' = IF refusal = "error" THEN protocol_errors + 1
                                ELSE protocol_errors
          /\ UNCHANGED <<channels, ids, dedup>>
       \/ /\ refusal = "none"
          /\ OpenNew(kind, rate, floor)
          /\ UNCHANGED <<close_after_response, protocol_errors>>
  /\ UNCHANGED <<setup_complete, standard_only>>

\* Fault: a new target applies to every job.
RetargetsEveryJob(c, level) ==
  [c EXCEPT !.level = level,
            !.jobs = [i \in DOMAIN @ |-> [@[i] EXCEPT !.level = level]]]

\* change_target_locked: the clean job follows it, later ones keep theirs.
Retargeted(c, level) ==
  [c EXCEPT !.level = level,
            !.jobs = [i \in DOMAIN @ |->
               IF @[i].follows THEN [@[i] EXCEPT !.level = level] ELSE @[i]]]

\* handle_update_locked, for an open channel: a new target, or a job at once for a
\* device that has become fast.
Update(ch, rate, floor) ==
  LET c == [channels[ch] EXCEPT !.floor = floor,
              !.fast = (channels[ch].kind = "standard" /\ rate = "fast")]
      level == Larger(IF rate = "none" THEN c.level ELSE DifficultyForRate(rate), floor) IN
  \/ /\ level # c.level
     /\ channels' = [channels EXCEPT ![ch] = Retargeted(c, level)]
     /\ UNCHANGED <<ids, dedup>>
  \/ /\ level = c.level /\ c.fast /\ ~channels[ch].fast
     /\ channels' = [channels EXCEPT
          ![ch] = Committed(c, Plan(ch, Published, c.kind, FALSE, 1), FALSE)]
     /\ next_job_id' = next_job_id + 1
     /\ extranonce_counter' = extranonce_counter + 1
     /\ RotateForClean(Published, RequiresNewPrevhash(c, Published))
     /\ UNCHANGED next_channel_id
  \/ /\ level = c.level /\ ~(c.fast /\ ~channels[ch].fast)
     /\ channels' = [channels EXCEPT ![ch] = c]
     /\ UNCHANGED <<ids, dedup>>

\* handle_update_locked.
UpdateChannel ==
  /\ Frame /\ setup_complete
  /\ \E ch \in 1..LastChannelId, rate \in Rates, floor \in Difficulties :
       \/ /\ ch \notin Open \/ rate = "excessive"
          /\ protocol_errors' = protocol_errors + 1
          /\ UNCHANGED <<channels, ids, dedup>>
       \/ /\ ch \in Open /\ rate # "excessive"
          /\ Update(ch, rate, floor)
          /\ UNCHANGED protocol_errors
  /\ UNCHANGED connection

\* handle_close_locked: one channel, or all of them through the group.
CloseChannel ==
  /\ Frame /\ setup_complete
  /\ \E closed \in {Open} \cup {{ch} : ch \in 1..LastChannelId} :
       \/ /\ closed = {} \/ ~(closed \subseteq Open)
          /\ protocol_errors' = protocol_errors + 1
          /\ UNCHANGED channels
       \/ /\ closed # {} /\ closed \subseteq Open
          /\ channels' = [ch \in Open \ closed |-> channels[ch]]
          /\ UNCHANGED protocol_errors
  /\ UNCHANGED <<connection, ids, dedup>>

----------------------------------------------------------------------------
(* Shares.                                                                 *)

\* note_rejected_share and send_share_rejection_locked, to a channel if any.
Reject(ch) ==
  /\ rejected_shares' = rejected_shares + 1
  /\ shares_rejected' = shares_rejected + 1
  /\ channels' = [c \in Open |-> IF c = ch THEN [channels[c] EXCEPT !.rejected = @ + 1]
                                 ELSE channels[c]]
  /\ UNCHANGED <<accepted_shares, shares_accepted>>

\* remember_share_locked, for a share that is new: a full set rotates first.
Remember(key) ==
  /\ IF Cardinality(seen_shares) >= SeenLimit
     THEN /\ seen_shares_previous' = seen_shares
          /\ seen_shares' = {key}
     ELSE /\ seen_shares' = seen_shares \cup {key}
          /\ UNCHANGED seen_shares_previous
  /\ UNCHANGED last_clean

IssuedIds(c) == {c.jobs[i].id : i \in DOMAIN c.jobs}
Issued(c, id) == c.jobs[CHOOSE i \in DOMAIN c.jobs : c.jobs[i].id = id]

\* prepare_share_locked: no channel, another kind, no such job, a wrong size, a
\* known share and an ntime out of its window are refused, in that order.
Submit(ch, kind, id, shape) ==
  LET key == <<ch, id, shape>>
      c == channels[ch] IN
  \/ /\ ch \notin Open \/ (ch \in Open /\ c.kind # kind)
     /\ protocol_errors' = protocol_errors + 1
     /\ Reject(ch)
     /\ pc' = "frames"
     /\ UNCHANGED <<dedup, share>>
  \/ /\ ch \in Open /\ c.kind = kind
     /\ \/ id \notin IssuedIds(c)
        \/ kind = "extended" /\ shape = "size"
        \/ key \in seen_shares \cup seen_shares_previous
     /\ Reject(ch)
     /\ pc' = "frames"
     /\ UNCHANGED <<protocol_errors, dedup, share>>
  \/ /\ ch \in Open /\ c.kind = kind
     /\ id \in IssuedIds(c)
     /\ ~(kind = "extended" /\ shape = "size")
     /\ key \notin seen_shares \cup seen_shares_previous
     /\ Remember(key)
     /\ \/ /\ Reject(ch)   \* its ntime is out of the window
           /\ pc' = "frames"
           /\ UNCHANGED share
        \/ /\ pc' = "validate"
           /\ share' = [key |-> key, ch |-> ch, shape |-> shape,
                        level |-> Issued(c, id).level, block |-> FALSE]
           /\ UNCHANGED <<accepted_shares, rejected_shares, shares_accepted,
                          shares_rejected, channels>>
     /\ UNCHANGED protocol_errors

\* A share on any channel, for any job there has been.
SubmitShare ==
  /\ Handling /\ setup_complete /\ shares < MaxShares
  /\ shares' = shares + 1
  /\ \E ch \in 1..LastChannelId, kind \in Kinds, id \in 1..(next_job_id - 1),
        shape \in Shapes : Submit(ch, kind, id, shape)
  /\ UNCHANGED <<pool, blocks, connection, ids, pending_blocks, refresh,
                 publishing, found, frames, ticks>>

\* validate_and_account_share, without the mutex: the pool's accounting.
Validate ==
  /\ pc = "validate"
  /\ \E met \in Difficulties :
       LET good == share.shape # "version"
                   /\ (met >= share.level \/ met >= NetworkDifficulty) IN
       \/ /\ ~good
          /\ pc' = "rejected"
          /\ rejected_shares' = rejected_shares + 1
          /\ UNCHANGED <<accepted_shares, share, found>>
       \/ /\ good
          /\ pc' = "accepted"
          /\ accepted_shares' = accepted_shares + 1
          /\ share' = [share EXCEPT !.block = met >= NetworkDifficulty]
          /\ found' = IF met >= NetworkDifficulty THEN Append(found, share.key) ELSE found
          /\ UNCHANGED rejected_shares
  /\ UNCHANGED <<pool, blocks, connection, protocol_errors, channels, ids, dedup,
                 counters, refresh, publishing, bounds>>

\* finish_share_locked, under the mutex again: the channel may be gone.
FinishShare ==
  /\ pc \in {"accepted", "rejected"}
  /\ pc' = "frames" /\ share' = None
  /\ \/ /\ pc = "rejected"
        /\ shares_rejected' = shares_rejected + 1
        /\ channels' = [c \in Open |->
             IF c = share.ch THEN [channels[c] EXCEPT !.rejected = @ + 1]
             ELSE channels[c]]
        /\ UNCHANGED <<shares_accepted, pending_blocks, protocol_errors>>
     \/ /\ pc = "accepted"
        /\ shares_accepted' = shares_accepted + 1
        /\ protocol_errors' = 0
        /\ channels' = [c \in Open |->
             IF c = share.ch THEN [channels[c] EXCEPT !.accepted = @ + 1, !.mined = TRUE]
             ELSE channels[c]]
        /\ pending_blocks' = IF share.block
                             THEN Append(pending_blocks, share.key) ELSE pending_blocks
        /\ UNCHANGED shares_rejected
  /\ UNCHANGED <<pool, accounts, connection, ids, dedup, refresh, publishing,
                 found, bounds>>

\* maybe_retarget, from the vardiff thread: the channels whose interval is over.
MaybeRetarget ==
  /\ Unlocked /\ ticks < MaxTicks
  /\ ticks' = ticks + 1
  /\ \E due \in SUBSET Open \ {{}} : \E rate \in [due -> {"fast", "steady", "slow"}] :
       /\ \A ch \in due : rate[ch] \in RatesAfter(channels[ch].mined)
       /\ channels' = [ch \in Open |->
            IF ch \in due
            THEN LET c == [channels[ch] EXCEPT !.mined = FALSE]
                     level == Larger(VardiffNext(c.level, rate[ch]), c.floor) IN
                 IF level = c.level THEN c ELSE Retargeted(c, level)
            ELSE channels[ch]]
  /\ UNCHANGED <<pool, accounts, connection, protocol_errors, ids, dedup, counters,
                 pc, share, refresh, publishing, found, frames, shares>>

Next ==
  \/ Publish \/ PublishPrepare \/ PublishCommit
  \/ RefreshPrepare \/ RefreshCommit \/ MaybeRetarget
  \/ EndBatch \/ Setup \/ Unexpected \/ OpenChannel \/ UpdateChannel \/ CloseChannel
  \/ SubmitShare \/ Validate \/ FinishShare

Spec == Init /\ [][Next]_vars

----------------------------------------------------------------------------
(* Properties.                                                             *)

\* Every block a share of this session found was handed to on_block_found, once
\* and in order, when its batch is over: also when a later frame of the batch was
\* malformed, closed the connection or closed the channel.
BlocksReachPool ==
  pc = "idle" => blocks = found

\* Every job a channel takes shares for mines on the parent the channel was last
\* told with SetNewPrevHash, whatever order publications, refreshes and updates
\* were prepared and committed in, and there are never more of them than
\* kMaximumIssuedJobs (commit_job_locked).
JobsShareParent ==
  \A ch \in Open :
    /\ Len(channels[ch].jobs) <= IssuedLimit
    /\ \A i \in DOMAIN channels[ch].jobs :
         parents[channels[ch].jobs[i].job] = channels[ch].parent

\* No two jobs the session takes shares for let miners search the same space: two
\* jobs of one source differ in their extranonce prefix, whoever they pay, also
\* when the prefix counter has wrapped and when plans were dropped.  A channel is
\* sent one job per publication unless its device needs refreshes.
WorkIsUnique ==
  \A c, d \in Open : \A i \in DOMAIN channels[c].jobs, j \in DOMAIN channels[d].jobs :
    LET x == channels[c].jobs[i]
        y == channels[d].jobs[j] IN
    x.job = y.job /\ x.prefix = y.prefix => x.id = y.id

\* A job that was sent as clean is held to the channel's target and every other
\* to the one it was sent with: what change_target_locked says of SetTarget, also
\* for jobs prepared before and committed after the change.
TargetsAsAnnounced ==
  \A ch \in Open : \A i \in DOMAIN channels[ch].jobs :
    LET j == channels[ch].jobs[i] IN
    j.level = IF j.follows THEN channels[ch].level ELSE j.announced

=============================================================================

-------------------------- MODULE Sv2Session_proof --------------------------
(***************************************************************************)
(* The safety properties of Sv2Session, for any limits, difficulties and   *)
(* bounds.                                                                 *)
(***************************************************************************)
EXTENDS Sv2Session, FiniteSetTheorems, TLAPS

USE DEF pool, accounts, connection, ids, dedup, counters, bounds

Issues == [id : Nat, job : Nat, prefix : Nat, level : Nat, announced : Nat,
           follows : BOOLEAN]
Channels == [kind : {"standard", "extended"}, floor : Nat, level : Nat, fast : BOOLEAN,
             seq : Nat, mined : BOOLEAN, accepted : Nat, rejected : Nat,
             jobs : Seq(Issues), parent : Nat]
Plans == [ch : Nat, id : Nat, job : Nat, prefix : Nat, fresh : BOOLEAN]
Keys == Nat \X Nat \X Shapes
SharesInHand == [key : Keys, ch : Nat, shape : Shapes, level : Nat, block : BOOLEAN]

TypeOK ==
  /\ parents \in Seq(Nat)
  /\ channels \in [Open -> Channels]
  /\ next_channel_id \in Nat \ {0} /\ next_job_id \in Nat \ {0}
  /\ extranonce_counter \in Nat
  /\ Open \subseteq 1..(next_channel_id - 1)
  /\ refresh \in Plans /\ publishing \in [clean : BOOLEAN, plans : Seq(Plans)]
  /\ pc \in {"idle", "frames", "refreshing", "validate", "accepted", "rejected"}
  /\ frames \in Nat /\ ticks \in Nat

\* What is planned is a published job, and what is queued the newest.
PlansInv ==
  /\ queued # None => queued.job = Published /\ Published > 0 /\ queued.clean \in BOOLEAN
  /\ \A k \in DOMAIN publishing.plans : publishing.plans[k].job \in 1..Published
  /\ pc = "refreshing" => refresh.job \in 1..Published
  /\ Open # {} => Published > 0

\* The jobs of a channel: published, on the channel's parent, few enough, and
\* held to the channel's target or to the one they were sent with.
Sound(c) ==
  /\ Len(c.jobs) <= IssuedLimit
  /\ \A i \in DOMAIN c.jobs :
       /\ c.jobs[i].job \in 1..Published
       /\ parents[c.jobs[i].job] = c.parent
       /\ c.jobs[i].level = IF c.jobs[i].follows THEN c.level ELSE c.jobs[i].announced
ChannelsInv == \A ch \in Open : Sound(channels[ch])

\* Where a block that was found is: with the pool, among those the batch has
\* found, or with the share that is being finished.
BlocksInv ==
  /\ blocks \in Seq(Keys) /\ pending_blocks \in Seq(Keys) /\ found \in Seq(Keys)
  /\ pc \in {"validate", "accepted", "rejected"} => share \in SharesInHand
  /\ pc \in {"idle", "refreshing"} => pending_blocks = <<>>
  /\ found = IF pc = "accepted" /\ share.block
             THEN Append(blocks \o pending_blocks, share.key)
             ELSE blocks \o pending_blocks

Inv == TypeOK /\ PlansInv /\ ChannelsInv /\ BlocksInv

\* What a channel is sent: id, job and prefix.
Issue(x) == <<x.id, x.job, x.prefix>>
-----------------------------------------------------------------------------
(* Facts about the operators.                                               *)

\* Difficulties are natural numbers.
LEMMA DifficultyIsNat ==
  ASSUME NEW d \in Nat, NEW floor \in Nat, NEW rate
  PROVE  /\ Larger(VardiffNext(d, rate), floor) \in Nat
         /\ Larger(d, floor) \in Nat
         /\ Larger(DifficultyForRate(rate), floor) \in Nat
  <1>1. /\ \A a, b \in Nat : Larger(a, b) \in Nat /\ Smaller(a, b) \in Nat
        /\ MinimumDifficulty \in Nat /\ MaximumDifficulty \in Nat /\ InitialDifficulty \in Nat
    BY VardiffAssumption, LevelsAssumption, Zenon DEF Larger, Smaller
  <1>2. Clamp(d) \in Nat
    BY <1>1, Zenon DEF Clamp
  <1>3. Clamp(d) * 2 \in Nat /\ Clamp(d) \div 2 \in Nat
    BY <1>2
  <1>4. VardiffNext(d, rate) \in Nat
    BY <1>1, <1>2, <1>3, Zenon DEF VardiffNext
  <1>5. DifficultyForRate(rate) \in Nat
    BY <1>1, Zenon DEF DifficultyForRate
  <1> QED BY <1>1, <1>4, <1>5, Zenon

IsPlan(p, ch, job, kind, k) ==
  /\ p \in Plans /\ p.ch = ch /\ p.job = job
  /\ p.prefix = IF kind = "extended" THEN ch ELSE Prefix(extranonce_counter + k)

\* A plan for a channel is one for the job it is made for.
LEMMA PlanType ==
  ASSUME TypeOK, NEW ch \in Nat, NEW job \in Nat, NEW kind, NEW k \in Nat \ {0}
  PROVE  /\ IsPlan(Plan(ch, job, kind, FALSE, k), ch, job, kind, k)
         /\ IsPlan(Plan(ch, job, kind, TRUE, k), ch, job, kind, k)
  <1>1. extranonce_counter + k \in Nat /\ PrefixSpace \in Nat \ {0} /\ next_job_id + k - 1 \in Nat
    BY LimitsAssumption DEF TypeOK
  <1>2. Prefix(extranonce_counter + k) \in Nat
    BY <1>1 DEF Prefix
  <1> QED BY <1>1, <1>2, Zenon DEF Plan, Plans, IsPlan

\* A function on 1..n is a sequence.
LEMMA FunctionIsSeq ==
  ASSUME NEW S, NEW n \in Nat, NEW f \in [1..n -> S]
  PROVE  f \in Seq(S) /\ Len(f) = n /\ DOMAIN f = 1..n
  OBVIOUS

JoinAppends(s, t, e) == Append(s \o t, e) = s \o Append(t, e)

\* What is appended to the second of two sequences is appended to both.
LEMMA AppendAfter ==
  ASSUME NEW S, NEW s \in Seq(S), NEW t \in Seq(S), NEW e \in S
  PROVE  Append(t, e) \in Seq(S) /\ JoinAppends(s, t, e)
  <1>1. Append(t, e) \in Seq(S)
    OBVIOUS
  <1>2. Append(s \o t, e) = s \o Append(t, e)
    OBVIOUS
  <1> QED BY <1>1, <1>2, Zenon DEF JoinAppends

\* The last elements of a sequence are a sequence of its elements.
LEMMA Suffix ==
  ASSUME NEW S, NEW s \in Seq(S), NEW n \in 0..Len(s)
  PROVE  /\ SubSeq(s, n + 1, Len(s)) \in Seq(S)
         /\ Len(SubSeq(s, n + 1, Len(s))) = Len(s) - n
         /\ \A i \in 1..(Len(s) - n) : /\ SubSeq(s, n + 1, Len(s))[i] = s[i + n]
                                       /\ i + n \in DOMAIN s
  OBVIOUS

\* What commit_job_locked appends to the jobs of a channel, and to which.
Cleans(c, plan, clean) == clean \/ RequiresNewPrevhash(c, plan.job)
NewIssue(c, plan, clean) ==
  [id |-> plan.id, job |-> plan.job, prefix |-> plan.prefix, level |-> c.level,
   announced |-> c.level, follows |-> Cleans(c, plan, clean)]
Kept(c, plan, clean) == IF Cleans(c, plan, clean) THEN <<>> ELSE c.jobs
Trimmed(jobs) == IF Len(jobs) - IssuedLimit > 0
                 THEN SubSeq(jobs, Len(jobs) - IssuedLimit + 1, Len(jobs)) ELSE jobs

\* Trimming keeps the newest jobs, IssuedLimit of them at most.
LEMMA TrimmedJobs ==
  ASSUME NEW S, NEW jobs \in Seq(S)
  PROVE  /\ Trimmed(jobs) \in Seq(S)
         /\ Len(Trimmed(jobs)) <= IssuedLimit
         /\ \A i \in DOMAIN Trimmed(jobs) : \E j \in DOMAIN jobs : Trimmed(jobs)[i] = jobs[j]
  <1>0. IssuedLimit \in Nat /\ Len(jobs) \in Nat
    BY LimitsAssumption
  <1>1. CASE Len(jobs) - IssuedLimit > 0
    <2>1. Len(jobs) - IssuedLimit \in 0..Len(jobs)
      BY <1>0, <1>1
    <2>2. PICK n \in 0..Len(jobs) : n = Len(jobs) - IssuedLimit
      BY <2>1
    <2>3. Trimmed(jobs) = SubSeq(jobs, n + 1, Len(jobs))
      BY <1>1, <2>2, Zenon DEF Trimmed
    <2>4. /\ Trimmed(jobs) \in Seq(S) /\ Len(Trimmed(jobs)) = Len(jobs) - n
          /\ \A i \in 1..(Len(jobs) - n) : Trimmed(jobs)[i] = jobs[i + n] /\ i + n \in DOMAIN jobs
      BY <2>3, Suffix
    <2>5. Len(jobs) - n = IssuedLimit
      BY <1>0, <2>2
    <2>6. \A s \in Seq(S) : DOMAIN s = 1..Len(s)
      OBVIOUS
    <2>7. Len(Trimmed(jobs)) <= IssuedLimit
      BY <1>0, <2>4, <2>5
    <2>8. DOMAIN Trimmed(jobs) = 1..(Len(jobs) - n)
      BY <2>4, <2>6
    <2> QED BY <2>4, <2>7, <2>8, Zenon
  <1>2. CASE ~(Len(jobs) - IssuedLimit > 0)
    BY <1>0, <1>2 DEF Trimmed
  <1> QED BY <1>1, <1>2, Zenon

Reissued(c, jobs, parent) == [c EXCEPT !.jobs = jobs, !.parent = parent]

\* A commit changes the jobs and the parent of the channel and nothing else.
LEMMA CommittedIs ==
  ASSUME NEW c \in Channels, NEW plan \in Plans, NEW clean \in BOOLEAN
  PROVE  Committed(c, plan, clean) =
           Reissued(c, Trimmed(Append(Kept(c, plan, clean), NewIssue(c, plan, clean))),
                    IF Cleans(c, plan, clean) THEN parents[plan.job] ELSE c.parent)
  BY Zenon DEF Committed, Reissued, Kept, NewIssue, Cleans, Trimmed, Channels

\* Replacing the jobs and the parent of a channel.
LEMMA WithJobs ==
  ASSUME NEW c \in Channels, NEW jobs \in Seq(Issues), NEW parent \in Nat
  PROVE  /\ Reissued(c, jobs, parent) \in Channels
         /\ Reissued(c, jobs, parent).kind = c.kind
         /\ Reissued(c, jobs, parent).level = c.level
         /\ Reissued(c, jobs, parent).fast = c.fast
         /\ Reissued(c, jobs, parent).seq = c.seq
         /\ Reissued(c, jobs, parent).jobs = jobs
         /\ Reissued(c, jobs, parent).parent = parent
  BY Zenon DEF Channels, Reissued

\* What commit_job_locked leaves of a channel.
LEMMA CommittedFields ==
  ASSUME NEW c \in Channels, NEW plan \in Plans, NEW clean \in BOOLEAN,
         parents \in Seq(Nat), plan.job \in 1..Published
  PROVE  /\ Committed(c, plan, clean) \in Channels
         /\ Committed(c, plan, clean).kind = c.kind
         /\ Committed(c, plan, clean).level = c.level
         /\ Committed(c, plan, clean).fast = c.fast
         /\ Committed(c, plan, clean).seq = c.seq
         /\ Committed(c, plan, clean).jobs =
              Trimmed(Append(Kept(c, plan, clean), NewIssue(c, plan, clean)))
         /\ Committed(c, plan, clean).parent =
              IF Cleans(c, plan, clean) THEN parents[plan.job] ELSE c.parent
  <1>1. NewIssue(c, plan, clean) \in Issues
    BY Zenon DEF NewIssue, Issues, Plans, Channels, Cleans, RequiresNewPrevhash
  <1>2. Kept(c, plan, clean) \in Seq(Issues)
    BY DEF Kept, Channels
  <1>3. Trimmed(Append(Kept(c, plan, clean), NewIssue(c, plan, clean))) \in Seq(Issues)
    <2>1. \A s \in Seq(Issues), x \in Issues : Append(s, x) \in Seq(Issues)
      OBVIOUS
    <2> QED BY <1>1, <1>2, <2>1, TrimmedJobs, Zenon
  <1>4. parents[plan.job] \in Nat
    BY DEF Published
  <1>5. c.parent \in Nat
    BY Zenon DEF Channels
  <1>6. (IF Cleans(c, plan, clean) THEN parents[plan.job] ELSE c.parent) \in Nat
    BY <1>4, <1>5, Zenon
  <1> DEFINE jobs == Trimmed(Append(Kept(c, plan, clean), NewIssue(c, plan, clean)))
             parent == IF Cleans(c, plan, clean) THEN parents[plan.job] ELSE c.parent
  <1>7. Committed(c, plan, clean) = Reissued(c, jobs, parent)
    BY CommittedIs, Zenon
  <1>8. jobs \in Seq(Issues) /\ parent \in Nat
    BY <1>3, <1>6, Zenon
  <1> HIDE DEF jobs, parent
  <1>9. /\ Committed(c, plan, clean) \in Channels
        /\ Committed(c, plan, clean).kind = c.kind
        /\ Committed(c, plan, clean).level = c.level
        /\ Committed(c, plan, clean).fast = c.fast
        /\ Committed(c, plan, clean).seq = c.seq
        /\ Committed(c, plan, clean).jobs = jobs
        /\ Committed(c, plan, clean).parent = parent
    <2> DEFINE d == Reissued(c, jobs, parent)
    <2>1. /\ d \in Channels /\ d.kind = c.kind /\ d.level = c.level /\ d.fast = c.fast
          /\ d.seq = c.seq /\ d.jobs = jobs /\ d.parent = parent
      BY <1>8, WithJobs
    <2> QED BY <1>7, <2>1, Zenon
  <1> QED BY <1>9, Zenon DEF jobs, parent

\* The jobs of a channel after a commit: kept ones and the new one.
LEMMA CommittedJobs ==
  ASSUME NEW c \in Channels, NEW plan \in Plans, NEW clean \in BOOLEAN,
         parents \in Seq(Nat), plan.job \in 1..Published,
         NEW i \in DOMAIN Committed(c, plan, clean).jobs
  PROVE  \/ Committed(c, plan, clean).jobs[i] = NewIssue(c, plan, clean)
         \/ /\ ~Cleans(c, plan, clean)
            /\ \E j \in DOMAIN c.jobs : Committed(c, plan, clean).jobs[i] = c.jobs[j]
  <1> DEFINE kept == Kept(c, plan, clean)
             new == NewIssue(c, plan, clean)
  <1>1. new \in Issues
    BY Zenon DEF NewIssue, Issues, Plans, Channels, Cleans, RequiresNewPrevhash
  <1>2. kept \in Seq(Issues)
    BY DEF Kept, Channels
  <1>3. Committed(c, plan, clean).jobs = Trimmed(Append(kept, new))
    BY CommittedFields, Zenon
  <1>4. PICK j \in DOMAIN Append(kept, new) :
          Committed(c, plan, clean).jobs[i] = Append(kept, new)[j]
    <2> HIDE DEF new, kept
    <2>1. Append(kept, new) \in Seq(Issues)
      BY <1>1, <1>2
    <2>2. i \in DOMAIN Trimmed(Append(kept, new))
      BY <1>3, Zenon
    <2>3. \E j \in DOMAIN Append(kept, new) :
            Trimmed(Append(kept, new))[i] = Append(kept, new)[j]
      BY <2>1, <2>2, TrimmedJobs, Zenon
    <2> QED BY <1>3, <2>3, Zenon
  <1>5. \/ Append(kept, new)[j] = new
        \/ j \in DOMAIN kept /\ Append(kept, new)[j] = kept[j]
    <2> HIDE DEF new, kept
    <2> QED BY <1>1, <1>2
  <1>6. kept = <<>> => DOMAIN kept = {}
    OBVIOUS
  <1> QED BY <1>4, <1>5, <1>6, Zenon DEF Kept

\* A commit keeps a channel sound, whatever it held before: a job of another
\* parent replaces all the others.
LEMMA CommittedSound ==
  ASSUME NEW c \in Channels, NEW plan \in Plans, NEW clean \in BOOLEAN,
         parents \in Seq(Nat), plan.job \in 1..Published, Sound(c)
  PROVE  Sound(Committed(c, plan, clean))
  <1> DEFINE d == Committed(c, plan, clean)
  <1>1. Len(d.jobs) <= IssuedLimit
    <2>1. NewIssue(c, plan, clean) \in Issues
      BY Zenon DEF NewIssue, Issues, Plans, Channels, Cleans, RequiresNewPrevhash
    <2>2. Kept(c, plan, clean) \in Seq(Issues)
      BY DEF Kept, Channels
    <2>3. Append(Kept(c, plan, clean), NewIssue(c, plan, clean)) \in Seq(Issues)
      BY <2>1, <2>2
    <2>4. d.jobs = Trimmed(Append(Kept(c, plan, clean), NewIssue(c, plan, clean)))
      BY CommittedFields, Zenon
    <2>5. Len(Trimmed(Append(Kept(c, plan, clean), NewIssue(c, plan, clean)))) <= IssuedLimit
      BY <2>3, TrimmedJobs, Zenon
    <2> HIDE DEF d
    <2> QED BY <2>4, <2>5, Zenon
  <1>2. ASSUME NEW i \in DOMAIN d.jobs
        PROVE  /\ d.jobs[i].job \in 1..Published
               /\ parents[d.jobs[i].job] = d.parent
               /\ d.jobs[i].level = IF d.jobs[i].follows THEN d.level ELSE d.jobs[i].announced
    <2>0. /\ d.level = c.level
          /\ d.parent = IF Cleans(c, plan, clean) THEN parents[plan.job] ELSE c.parent
      BY CommittedFields, Zenon
    <2>1. CASE d.jobs[i] = NewIssue(c, plan, clean)
      <3> HIDE DEF d
      <3>1. ~Cleans(c, plan, clean) => parents[plan.job] = c.parent
        BY Zenon DEF Cleans, RequiresNewPrevhash
      <3> QED BY <2>0, <2>1, <3>1 DEF NewIssue
    <2>2. CASE /\ ~Cleans(c, plan, clean)
               /\ \E j \in DOMAIN c.jobs : d.jobs[i] = c.jobs[j]
      <3> HIDE DEF d
      <3> QED BY <2>0, <2>2, Zenon DEF Sound
    <2> QED BY <1>2, <2>1, <2>2, CommittedJobs, Zenon
  <1> QED BY <1>1, <1>2, Zenon DEF Sound

\* A new target is the one of the job that follows it, and of no other.
LEMMA RetargetedSound ==
  ASSUME NEW c \in Channels, NEW level \in Nat
  PROVE  /\ Retargeted(c, level) \in Channels
         /\ Retargeted(c, level).kind = c.kind /\ Retargeted(c, level).fast = c.fast
         /\ Retargeted(c, level).seq = c.seq
         /\ DOMAIN Retargeted(c, level).jobs = DOMAIN c.jobs
         /\ \A i \in DOMAIN c.jobs : Issue(Retargeted(c, level).jobs[i]) = Issue(c.jobs[i])
         /\ Sound(c) => Sound(Retargeted(c, level))
  <1> DEFINE jobs == [i \in DOMAIN c.jobs |->
               IF c.jobs[i].follows THEN [c.jobs[i] EXCEPT !.level = level] ELSE c.jobs[i]]
             d == [c EXCEPT !.level = level, !.jobs = jobs]
  <1>1. Retargeted(c, level) = d
    BY Zenon DEF Retargeted, Channels
  <1>2. c.jobs \in Seq(Issues) /\ Len(c.jobs) \in Nat /\ DOMAIN c.jobs = 1..Len(c.jobs)
    BY DEF Channels
  <1>3. \A i \in DOMAIN c.jobs :
          /\ jobs[i] \in Issues /\ jobs[i].id = c.jobs[i].id /\ jobs[i].job = c.jobs[i].job
          /\ jobs[i].prefix = c.jobs[i].prefix /\ jobs[i].follows = c.jobs[i].follows
          /\ jobs[i].announced = c.jobs[i].announced
          /\ jobs[i].level = IF c.jobs[i].follows THEN level ELSE c.jobs[i].level
    <2> TAKE i \in DOMAIN c.jobs
    <2>1. c.jobs[i] \in Issues
      BY <1>2
    <2> QED BY <2>1, Zenon DEF Issues
  <1>4. DOMAIN jobs = DOMAIN c.jobs
    BY Zenon
  <1> HIDE DEF jobs
  <1>5. jobs \in Seq(Issues) /\ Len(jobs) = Len(c.jobs)
    <2>1. jobs \in [1..Len(c.jobs) -> Issues]
      BY <1>2, <1>3, <1>4, Zenon DEF jobs
    <2> QED BY <1>2, <2>1, FunctionIsSeq, Zenon
  <1>6. /\ d \in Channels /\ d.kind = c.kind /\ d.fast = c.fast /\ d.seq = c.seq
        /\ d.jobs = jobs /\ d.level = level /\ d.parent = c.parent
    BY <1>5, Zenon DEF Channels
  <1> HIDE DEF d
  <1>7. ASSUME Sound(c) PROVE Sound(d)
    BY <1>3, <1>4, <1>5, <1>6, <1>7, Zenon DEF Sound
  <1>8. \A i \in DOMAIN c.jobs : Issue(d.jobs[i]) = Issue(c.jobs[i])
    BY <1>3, <1>6, Zenon DEF Issue
  <1> QED BY <1>1, <1>4, <1>6, <1>7, <1>8, Zenon

\* InOrder lists the channels of a finite set: every place is some channel's.
LEMMA OrderIsSeq ==
  ASSUME NEW S \in SUBSET Nat, IsFiniteSet(S)
  PROVE  InOrder(S) \in Seq(S) /\ Len(InOrder(S)) = Cardinality(S)
  <1> DEFINE upto(ch) == {d \in S : d <= ch}
             place == [ch \in S |-> Cardinality(upto(ch))]
             n == Cardinality(S)
  <1>1. n \in Nat
    BY FS_CardinalityType, Zenon
  <1>2. ASSUME NEW ch \in S
        PROVE  Cardinality(upto(ch)) \in 1..n
    <2>1. upto(ch) \in SUBSET S /\ upto(ch) # {}
      <3>1. ch <= ch
        OBVIOUS
      <3> QED BY <3>1, Zenon
    <2> HIDE DEF upto
    <2>2. IsFiniteSet(upto(ch)) /\ Cardinality(upto(ch)) <= n
      BY <2>1, FS_Subset, Zenon
    <2>3. Cardinality(upto(ch)) \in Nat /\ Cardinality(upto(ch)) # 0
      BY <2>1, <2>2, FS_CardinalityType, FS_EmptySet, Zenon
    <2> QED BY <1>1, <2>2, <2>3
  <1>3. ASSUME NEW c \in S, NEW e \in S, c < e
        PROVE  Cardinality(upto(c)) # Cardinality(upto(e))
    <2>0. \A d \in S : d <= c => d <= e
      BY <1>3
    <2>1. upto(c) \in SUBSET upto(e) /\ upto(e) \in SUBSET S
      BY <2>0, Zenon
    <2>2. e \in upto(e) /\ e \notin upto(c)
      BY <1>3
    <2> HIDE DEF upto
    <2>3. IsFiniteSet(upto(e))
      BY <2>1, FS_Subset, Zenon
    <2> QED BY <2>1, <2>2, <2>3, FS_Subset, Zenon
  <1>4. place \in [S -> 1..n]
    BY <1>2, Zenon
  <1>5. IsInjective(place)
    <2>1. \A c, e \in S : c < e \/ e < c \/ c = e
      OBVIOUS
    <2>2. \A c, e \in S : Cardinality(upto(c)) = Cardinality(upto(e)) => c = e
      <3> HIDE DEF upto
      <3> QED BY <1>3, <2>1, Zenon
    <2> HIDE DEF upto
    <2> QED BY <2>2, Zenon DEF IsInjective
  <1>6. place \in Injection(S, 1..n)
    BY <1>4, <1>5, Zenon DEF Injection
  <1>7. IsFiniteSet(1..n) /\ Cardinality(1..n) = n
    BY <1>1, FS_Interval
  <1>8. place \in Surjection(S, 1..n)
    <2> HIDE DEF place, n
    <2> QED BY <1>6, <1>7, FS_Injection, Zenon DEF n
  <1>9. \A k \in 1..n : \E ch \in S : Cardinality(upto(ch)) = k
    BY <1>8, Zenon DEF Surjection
  <1>10. \A k \in 1..n : (CHOOSE ch \in S : Cardinality(upto(ch)) = k) \in S
    <2> HIDE DEF upto, n
    <2> QED BY <1>9, Zenon
  <1>11. InOrder(S) \in [1..n -> S]
    BY <1>10, Zenon DEF InOrder
  <1> QED BY <1>1, <1>11, FunctionIsSeq, Zenon

-----------------------------------------------------------------------------
(* What a step that leaves something alone leaves true.                     *)

\* The jobs published stay what they were.
LEMMA ChannelsStill ==
  ASSUME parents' = parents, \A ch \in DOMAIN channels' : Sound(channels'[ch])
  PROVE  ChannelsInv'
  BY Zenon DEF ChannelsInv, Sound, Open, Published

\* No block moves, and no share is begun or finished.
LEMMA BlocksStill ==
  ASSUME BlocksInv, UNCHANGED <<blocks, pending_blocks, found, share>>,
         \/ pc' = pc
         \/ pc \in {"idle", "frames"} /\ pc' = "frames"
         \/ pc = "idle" /\ pc' = "refreshing"
         \/ pc = "refreshing" /\ pc' = "idle"
  PROVE  BlocksInv'
  BY Zenon DEF BlocksInv

\* What is known of the channels that are open.
LEMMA OpenChannels ==
  ASSUME Inv
  PROVE  /\ IsFiniteSet(Open) /\ Open \subseteq Nat
         /\ \A ch \in Open : /\ ch \in Nat /\ ch < next_channel_id
                             /\ channels[ch] \in Channels /\ Sound(channels[ch])
  <1>1. /\ Open \in SUBSET (1..(next_channel_id - 1)) /\ next_channel_id \in Nat
        /\ channels \in [Open -> Channels]
    BY Zenon DEF Inv, TypeOK
  <1>2. IsFiniteSet(1..(next_channel_id - 1))
    BY <1>1, FS_Interval
  <1>3. IsFiniteSet(Open)
    BY <1>1, <1>2, FS_Subset, Zenon
  <1>4. \A ch \in Open : ch \in Nat /\ ch < next_channel_id
    BY <1>1
  <1>5. \A ch \in Open : channels[ch] \in Channels /\ Sound(channels[ch])
    BY <1>1, Zenon DEF Inv, ChannelsInv
  <1> QED BY <1>3, <1>4, <1>5, Zenon

\* Another channel in one place.
LEMMA ReplaceOne ==
  ASSUME Inv, NEW ch \in Open, NEW d \in Channels, Sound(d),
         channels' = [channels EXCEPT ![ch] = d]
  PROVE  /\ DOMAIN channels' = Open
         /\ channels' \in [Open -> Channels]
         /\ \A c \in DOMAIN channels' : Sound(channels'[c])
  <1>1. channels \in [Open -> Channels] /\ \A c \in Open : Sound(channels[c])
    BY Zenon DEF Inv, TypeOK, ChannelsInv
  <1>2. DOMAIN channels' = Open /\ channels' \in [Open -> Channels]
    BY <1>1, Zenon
  <1>3. \A c \in Open : channels'[c] = IF c = ch THEN d ELSE channels[c]
    BY <1>1, Zenon
  <1> QED BY <1>1, <1>2, <1>3, Zenon

\* What the counts of a channel leave alone.
SameWork(c, d) ==
  /\ d.kind = c.kind /\ d.fast = c.fast /\ d.seq = c.seq
  /\ d.level = c.level /\ d.jobs = c.jobs /\ d.parent = c.parent

\* A share counted does not change what the channel takes shares for.
LEMMA CountedSound ==
  ASSUME NEW c \in Channels
  PROVE  /\ [c EXCEPT !.rejected = @ + 1] \in Channels
         /\ SameWork(c, [c EXCEPT !.rejected = @ + 1])
         /\ [c EXCEPT !.accepted = @ + 1, !.mined = TRUE] \in Channels
         /\ SameWork(c, [c EXCEPT !.accepted = @ + 1, !.mined = TRUE])
         /\ [c EXCEPT !.mined = FALSE] \in Channels
         /\ SameWork(c, [c EXCEPT !.mined = FALSE])
         /\ SameWork(c, c)
  <1>1. [c EXCEPT !.rejected = @ + 1] \in Channels /\ SameWork(c, [c EXCEPT !.rejected = @ + 1])
    <2>1. c.rejected + 1 \in Nat
      BY DEF Channels
    <2>2. \A n \in Nat : /\ [c EXCEPT !.rejected = n] \in Channels
                         /\ SameWork(c, [c EXCEPT !.rejected = n])
      BY Zenon DEF Channels, SameWork
    <2> QED BY <2>1, <2>2, Zenon
  <1>2. /\ [c EXCEPT !.accepted = @ + 1, !.mined = TRUE] \in Channels
        /\ SameWork(c, [c EXCEPT !.accepted = @ + 1, !.mined = TRUE])
    <2>1. c.accepted + 1 \in Nat
      BY DEF Channels
    <2>2. [c EXCEPT !.accepted = @ + 1, !.mined = TRUE] =
            [c EXCEPT !.accepted = c.accepted + 1, !.mined = TRUE]
      BY Zenon DEF Channels
    <2>3. \A n \in Nat : /\ [c EXCEPT !.accepted = n, !.mined = TRUE] \in Channels
                         /\ SameWork(c, [c EXCEPT !.accepted = n, !.mined = TRUE])
      BY Zenon DEF Channels, SameWork
    <2> QED BY <2>1, <2>2, <2>3, Zenon
  <1>3. [c EXCEPT !.mined = FALSE] \in Channels /\ SameWork(c, [c EXCEPT !.mined = FALSE])
    BY Zenon DEF Channels, SameWork
  <1>4. SameWork(c, c)
    BY Zenon DEF SameWork
  <1> QED BY <1>1, <1>2, <1>3, <1>4, Zenon

\* A channel with the same work is as sound.
LEMMA SameSound ==
  ASSUME NEW c, NEW d, SameWork(c, d), Sound(c)
  PROVE  Sound(d)
  BY Zenon DEF SameWork, Sound
-----------------------------------------------------------------------------
(* Every action keeps the invariant.                                        *)

\* It holds at the start.
LEMMA InitInv == Init => Inv
  <1> SUFFICES ASSUME Init PROVE Inv
    BY Zenon
  <1> USE DEF Init
  <1>1. TypeOK
    <2>1. Open = {} /\ channels \in [Open -> Channels]
      BY DEF Open
    <2>2. refresh \in Plans /\ publishing \in [clean : BOOLEAN, plans : Seq(Plans)]
      BY DEF NoPlan, NoPublication, Plans
    <2> QED BY <2>1, <2>2 DEF TypeOK
  <1>2. PlansInv
    BY DEF PlansInv, NoPublication, Open
  <1>3. ChannelsInv
    BY DEF ChannelsInv, Open
  <1>4. BlocksInv
    BY DEF BlocksInv
  <1> QED BY <1>1, <1>2, <1>3, <1>4, Zenon DEF Inv

\* broadcast_job: a job more, and the session's entry is about it.
LEMMA PublishInv ==
  ASSUME Inv, Publish
  PROVE  Inv'
  <1> USE DEF Publish
  <1>1. PICK parent \in Parents, clean \in BOOLEAN :
          /\ parents' = Append(parents, parent)
          /\ queued' = [job |-> Published + 1,
                        clean |-> clean \/ (queued # None /\ queued.clean)]
    BY Zenon
  <1>2. parents \in Seq(Nat) /\ parent \in Nat
    BY DEF Inv, TypeOK, Parents
  <1>3. /\ parents' \in Seq(Nat) /\ Len(parents') = Len(parents) + 1
        /\ Len(parents) \in Nat
        /\ \A j \in 1..Len(parents) : parents'[j] = parents[j]
    BY <1>1, <1>2
  <1>4. TypeOK'
    BY <1>3, Zenon DEF Inv, TypeOK, Open
  <1>5. PlansInv'
    <2>1. queued'.job = Published' /\ Published' > 0
      BY <1>1, <1>3 DEF Published
    <2>2. queued'.clean \in BOOLEAN
      BY <1>1, Zenon DEF Inv, PlansInv
    <2>3. 1..Published \subseteq 1..Published'
      BY <1>3 DEF Published
    <2> QED BY <2>1, <2>2, <2>3, Zenon DEF Inv, PlansInv, Open
  <1>6. ChannelsInv'
    <2> SUFFICES ASSUME NEW ch \in Open PROVE Sound(channels[ch])'
      BY Zenon DEF ChannelsInv, Open
    <2>1. Sound(channels[ch])
      BY Zenon DEF Inv, ChannelsInv
    <2>2. channels'[ch] = channels[ch]
      BY Zenon
    <2> QED BY <1>3, <2>1, <2>2 DEF Sound, Published
  <1>7. BlocksInv'
    BY BlocksStill, Zenon DEF Inv
  <1> QED BY <1>4, <1>5, <1>6, <1>7, Zenon DEF Inv

\* publish_job, the first region: plans for open channels, in the order their
\* prefixes are allocated, and one at most when a channel is alone.
LEMMA PublishPlans ==
  ASSUME Inv, PublishPrepare
  PROVE  /\ publishing' \in [clean : BOOLEAN, plans : Seq(Plans)]
         /\ next_job_id' = next_job_id + Len(publishing'.plans)
         /\ extranonce_counter' = IF \E ch \in Open : channels[ch].kind = "standard"
                                  THEN extranonce_counter + Len(publishing'.plans)
                                  ELSE extranonce_counter
         /\ \A k \in DOMAIN publishing'.plans : \E ch \in Open :
              IsPlan(publishing'.plans[k], ch, Published, channels[ch].kind, k)
         /\ (\E ch : Open = {ch}) => Len(publishing'.plans) <= 1
  <1> DEFINE late == {ch \in Open : channels[ch].seq < queued.job}
             behind == IF queued.job \in RecentJobs THEN InOrder(late) ELSE <<>>
             plan(k) == Plan(behind[k], queued.job, channels[behind[k]].kind, FALSE, k)
             plans == [k \in DOMAIN behind |-> plan(k)]
             standard == {ch \in Open : channels[ch].kind = "standard"}
  <1>1. /\ queued # None
        /\ publishing' = [clean |-> queued.clean, plans |-> plans]
        /\ next_job_id' = next_job_id + Len(behind)
        /\ extranonce_counter' = IF standard # {} THEN extranonce_counter + Len(behind)
                                 ELSE extranonce_counter
    BY Zenon DEF PublishPrepare
  <1>2. queued.job = Published /\ queued.clean \in BOOLEAN /\ Published \in Nat
    BY <1>1 DEF Inv, PlansInv, TypeOK, Published
  <1>3. /\ behind \in Seq(Open) /\ DOMAIN behind = 1..Len(behind) /\ Len(behind) \in Nat
        /\ (\E ch : Open = {ch}) => Len(behind) <= 1
    <2>1. Open \subseteq Nat /\ IsFiniteSet(Open)
      BY OpenChannels, Zenon
    <2>2. late \in SUBSET Open
      BY Zenon
    <2> HIDE DEF late
    <2>3. /\ IsFiniteSet(late) /\ late \in SUBSET Nat
          /\ Cardinality(late) <= Cardinality(Open)
      BY <2>1, <2>2, FS_Subset, Zenon
    <2>4. InOrder(late) \in Seq(Open) /\ Len(InOrder(late)) = Cardinality(late)
      <3>1. InOrder(late) \in Seq(late) /\ Len(InOrder(late)) = Cardinality(late)
        BY <2>3, OrderIsSeq, Zenon
      <3>2. \A s \in Seq(late) : s \in Seq(Open)
        BY <2>2
      <3> QED BY <3>1, <3>2, Zenon
    <2>5. (\E ch : Open = {ch}) => Cardinality(late) <= 1
      BY <2>3, FS_Singleton, Zenon
    <2>6. <<>> \in Seq(Open) /\ Len(<<>>) <= 1
      OBVIOUS
    <2>7. behind \in Seq(Open) /\ ((\E ch : Open = {ch}) => Len(behind) <= 1)
      BY <2>4, <2>5, <2>6, Zenon
    <2>8. \A s \in Seq(Open) : DOMAIN s = 1..Len(s) /\ Len(s) \in Nat
      OBVIOUS
    <2> QED BY <2>7, <2>8, Zenon
  <1> HIDE DEF behind
  <1>4. \A k \in DOMAIN behind :
          behind[k] \in Open /\ IsPlan(plan(k), behind[k], Published, channels[behind[k]].kind, k)
    <2> SUFFICES ASSUME NEW k \in DOMAIN behind
                 PROVE  /\ behind[k] \in Open
                        /\ IsPlan(plan(k), behind[k], Published, channels[behind[k]].kind, k)
      BY Zenon
    <2>1. behind[k] \in Open
      BY <1>3
    <2>2. behind[k] \in Nat
      BY <2>1, OpenChannels, Zenon
    <2>3. k \in Nat \ {0} /\ TypeOK
      BY <1>3 DEF Inv
    <2> QED BY <1>2, <2>1, <2>2, <2>3, PlanType, Zenon
  <1> HIDE DEF plan
  <1>5. plans \in Seq(Plans) /\ Len(plans) = Len(behind) /\ DOMAIN plans = DOMAIN behind
    <2>1. plans \in [1..Len(behind) -> Plans]
      BY <1>3, <1>4, Zenon DEF IsPlan
    <2> HIDE DEF plans
    <2> QED BY <1>3, <2>1, FunctionIsSeq, Zenon
  <1>6. \A k \in DOMAIN plans : \E ch \in Open :
          IsPlan(plans[k], ch, Published, channels[ch].kind, k)
    BY <1>4, Zenon
  <1> HIDE DEF plans
  <1>7. publishing'.plans = plans /\ publishing' \in [clean : BOOLEAN, plans : Seq(Plans)]
    BY <1>1, <1>2, <1>5, Zenon
  <1>8. standard # {} <=> \E ch \in Open : channels[ch].kind = "standard"
    BY Zenon
  <1> HIDE DEF standard
  <1> QED BY <1>1, <1>3, <1>5, <1>6, <1>7, <1>8, Zenon

\* The invariant, for it.
LEMMA PublishPrepareInv ==
  ASSUME Inv, PublishPrepare
  PROVE  Inv'
  <1>1. /\ queued # None /\ queued' = None
        /\ UNCHANGED <<parents, channels, next_channel_id, pc, share, refresh, found, blocks,
                       pending_blocks, frames, ticks>>
    BY Zenon DEF PublishPrepare
  <1>2. Published \in 1..Published
    BY <1>1 DEF Inv, PlansInv, TypeOK, Published
  <1>3. publishing' \in [clean : BOOLEAN, plans : Seq(Plans)]
    BY PublishPlans, Zenon
  <1>4. TypeOK'
    <2>1. /\ channels' \in [Open' -> Channels] /\ Open' \subseteq 1..(next_channel_id' - 1)
          /\ parents' \in Seq(Nat) /\ refresh' \in Plans /\ frames' \in Nat /\ ticks' \in Nat
          /\ pc' \in {"idle", "frames", "refreshing", "validate", "accepted", "rejected"}
          /\ next_channel_id' \in Nat \ {0}
      BY <1>1, Zenon DEF Inv, TypeOK, Open
    <2>2. next_job_id' \in Nat \ {0} /\ extranonce_counter' \in Nat
      <3>1. next_job_id \in Nat \ {0} /\ extranonce_counter \in Nat
        BY Zenon DEF Inv, TypeOK
      <3>2. Len(publishing'.plans) \in Nat
        BY <1>3
      <3>3. \/ extranonce_counter' = extranonce_counter + Len(publishing'.plans)
            \/ extranonce_counter' = extranonce_counter
        BY PublishPlans, Zenon
      <3>4. next_job_id' = next_job_id + Len(publishing'.plans)
        BY PublishPlans, Zenon
      <3> QED BY <3>1, <3>2, <3>3, <3>4
    <2> QED BY <1>3, <2>1, <2>2, Zenon DEF TypeOK
  <1>5. PlansInv'
    <2>1. \A k \in DOMAIN publishing'.plans : publishing'.plans[k].job \in 1..Published
      BY <1>2, PublishPlans, Zenon DEF IsPlan
    <2> QED BY <1>1, <2>1, Zenon DEF Inv, PlansInv, Published, Open
  <1>6. ChannelsInv'
    BY <1>1, ChannelsStill, Zenon DEF Inv, ChannelsInv, Open
  <1>7. BlocksInv'
    BY <1>1, BlocksStill, Zenon DEF Inv
  <1> QED BY <1>4, <1>5, <1>6, <1>7, Zenon DEF Inv

\* What the provers need of a commit, and of the sequence number noted after it.
IsCommitted(d, c, plan) ==
  /\ d \in Channels /\ d.kind = c.kind /\ d.fast = c.fast /\ d.seq = c.seq
  /\ Sound(c) => Sound(d)
  /\ \A i \in DOMAIN d.jobs :
       \/ Issue(d.jobs[i]) = Issue(plan)
       \/ \E j \in DOMAIN c.jobs : Issue(d.jobs[i]) = Issue(c.jobs[j])
Advanced(c, n) == [c EXCEPT !.seq = n]

\* Every commit is one.
LEMMA CommitKeeps ==
  ASSUME NEW c \in Channels, NEW plan \in Plans, NEW clean \in BOOLEAN,
         parents \in Seq(Nat), plan.job \in 1..Published
  PROVE  IsCommitted(Committed(c, plan, clean), c, plan)
  <1> DEFINE d == Committed(c, plan, clean)
  <1>1. d \in Channels /\ d.kind = c.kind /\ d.fast = c.fast /\ d.seq = c.seq
    BY CommittedFields, Zenon
  <1>2. Sound(c) => Sound(d)
    BY CommittedSound, Zenon
  <1>3. ASSUME NEW i \in DOMAIN d.jobs
        PROVE  \/ Issue(d.jobs[i]) = Issue(plan)
               \/ \E j \in DOMAIN c.jobs : Issue(d.jobs[i]) = Issue(c.jobs[j])
    <2>1. \/ d.jobs[i] = NewIssue(c, plan, clean)
          \/ \E j \in DOMAIN c.jobs : d.jobs[i] = c.jobs[j]
      BY <1>3, CommittedJobs, Zenon
    <2>2. Issue(NewIssue(c, plan, clean)) = Issue(plan)
      BY Zenon DEF NewIssue, Issue
    <2> HIDE DEF d
    <2> QED BY <2>1, <2>2, Zenon
  <1> HIDE DEF d
  <1>4. IsCommitted(d, c, plan)
    BY <1>1, <1>2, <1>3, Zenon DEF IsCommitted
  <1> QED BY <1>4, Zenon DEF d

\* The sequence number says nothing of the jobs.
LEMMA AdvancedSound ==
  ASSUME NEW c \in Channels, NEW n \in Nat
  PROVE  /\ Advanced(c, n) \in Channels
         /\ Advanced(c, n).kind = c.kind /\ Advanced(c, n).fast = c.fast
         /\ Advanced(c, n).seq = n /\ Advanced(c, n).jobs = c.jobs
         /\ Sound(c) => Sound(Advanced(c, n))
  <1>1. /\ Advanced(c, n) \in Channels
        /\ Advanced(c, n).kind = c.kind /\ Advanced(c, n).fast = c.fast
        /\ Advanced(c, n).seq = n /\ Advanced(c, n).jobs = c.jobs
        /\ Advanced(c, n).parent = c.parent /\ Advanced(c, n).level = c.level
    BY Zenon DEF Advanced, Channels
  <1>2. Sound(c) => Sound(Advanced(c, n))
    BY <1>1, Zenon DEF Sound
  <1> QED BY <1>1, <1>2, Zenon

\* A commit on an open channel, its sequence number noted or not.
LEMMA CommitOne ==
  ASSUME Inv, NEW ch \in Open, NEW plan \in Plans, NEW d, NEW e,
         IsCommitted(d, channels[ch], plan), e = d \/ e = Advanced(d, plan.job),
         channels' = [channels EXCEPT ![ch] = e]
  PROVE  /\ DOMAIN channels' = Open
         /\ channels' \in [Open -> Channels]
         /\ \A c \in DOMAIN channels' : Sound(channels'[c])
  <1>1. d \in Channels /\ Sound(d)
    BY OpenChannels, Zenon DEF IsCommitted
  <1>2. plan.job \in Nat
    BY Zenon DEF Plans
  <1>3. e \in Channels /\ Sound(e)
    BY <1>1, <1>2, AdvancedSound, Zenon
  <1> QED BY <1>3, ReplaceOne, Zenon

\* A plan is committed, or its channel is gone or further on.
LEMMA PublishCommitCases ==
  ASSUME Inv, PublishCommit
  PROVE  LET plan == Head(publishing.plans) IN
         /\ plan \in Plans /\ plan.job \in 1..Published
         /\ publishing' = IF Len(publishing.plans) = 1 THEN NoPublication
                          ELSE [publishing EXCEPT !.plans = Tail(@)]
         /\ \/ channels' = channels
            \/ /\ plan.ch \in Open /\ channels[plan.ch].seq < plan.job
               /\ \E d : /\ IsCommitted(d, channels[plan.ch], plan)
                         /\ channels' = [channels EXCEPT ![plan.ch] = Advanced(d, plan.job)]
  <1> DEFINE plan == Head(publishing.plans)
             ch == plan.ch
  <1>1. plan \in Plans /\ plan.job \in 1..Published /\ publishing.clean \in BOOLEAN
    <2>1. publishing.plans \in Seq(Plans) /\ publishing.plans # <<>> /\ publishing.clean \in BOOLEAN
      BY Zenon DEF Inv, TypeOK, PublishCommit
    <2>2. plan = publishing.plans[1] /\ 1 \in DOMAIN publishing.plans /\ plan \in Plans
      BY <2>1
    <2>3. plan.job \in 1..Published
      BY <2>2, Zenon DEF Inv, PlansInv
    <2> QED BY <2>1, <2>2, <2>3, Zenon
  <1>2. \/ channels' = channels
        \/ /\ ch \in Open /\ channels[ch].seq < plan.job
           /\ channels' = [channels EXCEPT ![ch] =
                Advanced(Committed(channels[ch], plan, publishing.clean), plan.job)]
    BY Zenon DEF PublishCommit, Advanced
  <1>3. publishing' = IF Len(publishing.plans) = 1 THEN NoPublication
                      ELSE [publishing EXCEPT !.plans = Tail(@)]
    BY Zenon DEF PublishCommit
  <1>4. parents \in Seq(Nat)
    BY Zenon DEF Inv, TypeOK
  <1>5. ASSUME ch \in Open
        PROVE  IsCommitted(Committed(channels[ch], plan, publishing.clean), channels[ch], plan)
    <2>1. channels[ch] \in Channels
      BY <1>5, OpenChannels, Zenon
    <2> HIDE DEF plan, ch
    <2> QED BY <1>1, <1>4, <2>1, CommitKeeps, Zenon
  <1> HIDE DEF plan
  <1>6. \/ channels' = channels
        \/ /\ ch \in Open /\ channels[ch].seq < plan.job
           /\ \E d : /\ IsCommitted(d, channels[ch], plan)
                     /\ channels' = [channels EXCEPT ![ch] = Advanced(d, plan.job)]
    BY <1>2, <1>5, Zenon
  <1> QED BY <1>1, <1>3, <1>6, Zenon DEF plan

\* Steps that leave plans and identifiers alone, and open no channel.
LEMMA ChannelStep ==
  ASSUME Inv, UNCHANGED <<parents, queued, next_channel_id, next_job_id, extranonce_counter,
                          refresh, publishing>>,
         DOMAIN channels' \subseteq Open, channels' \in [DOMAIN channels' -> Channels],
         \A c \in DOMAIN channels' : Sound(channels'[c]),
         pc' \in {"idle", "frames", "refreshing", "validate", "accepted", "rejected"},
         pc' = "refreshing" => pc = "refreshing",
         frames' \in Nat, ticks' \in Nat
  PROVE  TypeOK' /\ PlansInv' /\ ChannelsInv'
  <1>1. TypeOK'
    BY Zenon DEF Inv, TypeOK, Open
  <1>2. PlansInv'
    <2>1. Open' # {} => Open # {}
      BY Zenon DEF Open
    <2> QED BY <2>1, Zenon DEF Inv, PlansInv, Published
  <1>3. ChannelsInv'
    BY ChannelsStill, Zenon
  <1> QED BY <1>1, <1>2, <1>3, Zenon

\* The same, when no channel changes either.
LEMMA OtherStep ==
  ASSUME Inv, UNCHANGED <<parents, queued, next_channel_id, next_job_id, extranonce_counter,
                          refresh, publishing, channels>>,
         pc' \in {"idle", "frames", "refreshing", "validate", "accepted", "rejected"},
         pc' = "refreshing" => pc = "refreshing",
         frames' \in Nat, ticks' \in Nat
  PROVE  TypeOK' /\ PlansInv' /\ ChannelsInv'
  <1>1. /\ DOMAIN channels' \subseteq Open /\ channels' \in [DOMAIN channels' -> Channels]
        /\ \A c \in DOMAIN channels' : Sound(channels'[c])
    BY OpenChannels, Zenon DEF Inv, TypeOK, Open
  <1> QED BY <1>1, ChannelStep, Zenon

\* publish_job, a later region.
LEMMA PublishCommitInv ==
  ASSUME Inv, PublishCommit
  PROVE  Inv'
  <1> DEFINE plan == Head(publishing.plans)
  <1>1. /\ plan \in Plans /\ plan.job \in 1..Published
        /\ publishing' = IF Len(publishing.plans) = 1 THEN NoPublication
                         ELSE [publishing EXCEPT !.plans = Tail(@)]
    BY PublishCommitCases, Zenon
  <1>2. /\ DOMAIN channels' = Open /\ channels' \in [Open -> Channels]
        /\ \A c \in DOMAIN channels' : Sound(channels'[c])
    <2>1. CASE channels' = channels
      BY <2>1, OpenChannels, Zenon DEF Inv, TypeOK, Open
    <2>2. CASE /\ plan.ch \in Open
               /\ \E d : /\ IsCommitted(d, channels[plan.ch], plan)
                         /\ channels' = [channels EXCEPT ![plan.ch] = Advanced(d, plan.job)]
      <3> HIDE DEF plan
      <3> QED BY <1>1, <2>2, CommitOne, Zenon
    <2> QED BY <2>1, <2>2, PublishCommitCases, Zenon
  <1>3. UNCHANGED <<parents, queued, next_channel_id, next_job_id, extranonce_counter, refresh,
                    pc, share, blocks, pending_blocks, found, frames, ticks>>
    BY Zenon DEF PublishCommit
  <1>4. /\ publishing' \in [clean : BOOLEAN, plans : Seq(Plans)]
        /\ \A k \in DOMAIN publishing'.plans : publishing'.plans[k].job \in 1..Published
    <2>1. /\ publishing \in [clean : BOOLEAN, plans : Seq(Plans)] /\ publishing.plans # <<>>
          /\ \A k \in DOMAIN publishing.plans : publishing.plans[k].job \in 1..Published
      BY Zenon DEF Inv, TypeOK, PlansInv, PublishCommit
    <2>2. CASE publishing' = NoPublication
      BY <2>2 DEF NoPublication
    <2>3. CASE publishing' = [publishing EXCEPT !.plans = Tail(@)]
      <3>1. publishing'.plans = Tail(publishing.plans) /\ publishing'.clean = publishing.clean
        BY <2>1, <2>3, Zenon
      <3>2. /\ Tail(publishing.plans) \in Seq(Plans)
            /\ \A k \in DOMAIN Tail(publishing.plans) :
                 k + 1 \in DOMAIN publishing.plans
                 /\ Tail(publishing.plans)[k] = publishing.plans[k + 1]
        BY <2>1
      <3>3. publishing' \in [clean : BOOLEAN, plans : Seq(Plans)]
        BY <2>1, <2>3, <3>2, Zenon
      <3> QED BY <2>1, <3>1, <3>2, <3>3, Zenon
    <2> QED BY <1>1, <2>2, <2>3, Zenon
  <1>5. TypeOK'
    BY <1>2, <1>3, <1>4, Zenon DEF Inv, TypeOK, Open
  <1>6. PlansInv'
    BY <1>2, <1>3, <1>4, Zenon DEF Inv, PlansInv, Published, Open
  <1>7. ChannelsInv'
    BY <1>2, <1>3, ChannelsStill, Zenon
  <1>8. BlocksInv'
    BY <1>3, BlocksStill, Zenon DEF Inv
  <1> QED BY <1>5, <1>6, <1>7, <1>8, Zenon DEF Inv

\* maybe_refresh_job, its first region: a plan for the newest job.
LEMMA RefreshPrepareInv ==
  ASSUME Inv, RefreshPrepare
  PROVE  Inv'
  <1>1. PICK ch \in Open : /\ channels[ch].kind = "standard" /\ channels[ch].fast
                           /\ refresh' = Plan(ch, Published, "standard", FALSE, 1)
    BY Zenon DEF RefreshPrepare
  <1>2. /\ Published > 0 /\ next_job_id' = next_job_id + 1
        /\ extranonce_counter' = extranonce_counter + 1
        /\ ticks' = ticks + 1 /\ pc = "idle" /\ pc' = "refreshing"
        /\ UNCHANGED <<parents, queued, next_channel_id, publishing, channels,
                       share, blocks, pending_blocks, found, frames>>
    BY Zenon DEF RefreshPrepare
  <1>3. TypeOK /\ Published \in Nat /\ 1 \in Nat \ {0} /\ ch \in Nat
    BY OpenChannels DEF Inv, TypeOK, Published
  <1>4. IsPlan(refresh', ch, Published, "standard", 1)
    BY <1>1, <1>3, PlanType, Zenon
  <1>5. refresh' \in Plans /\ refresh'.job \in 1..Published
    BY <1>2, <1>3, <1>4 DEF IsPlan
  <1>6. next_job_id' \in Nat \ {0} /\ extranonce_counter' \in Nat /\ ticks' \in Nat
    BY <1>2, <1>3 DEF TypeOK
  <1>7. TypeOK'
    BY <1>2, <1>3, <1>5, <1>6, Zenon DEF TypeOK, Open
  <1>8. PlansInv'
    BY <1>2, <1>5, Zenon DEF Inv, PlansInv, Published, Open
  <1>9. ChannelsInv'
    BY <1>2, ChannelsStill, Zenon DEF Inv, ChannelsInv, Open
  <1>10. BlocksInv'
    BY <1>2, BlocksStill, Zenon DEF Inv
  <1> QED BY <1>7, <1>8, <1>9, <1>10, Zenon DEF Inv

\* Steps after which the channels still open have issued what they had.
Alike(c, d) ==
  /\ d.kind = c.kind /\ d.seq = c.seq /\ (d.fast => c.fast \/ c.kind = "standard")
  /\ DOMAIN d.jobs = DOMAIN c.jobs
  /\ \A i \in DOMAIN c.jobs : Issue(d.jobs[i]) = Issue(c.jobs[i])
SameWorks ==
  /\ DOMAIN channels' \subseteq Open /\ channels' \in [DOMAIN channels' -> Channels]
  /\ \A ch \in DOMAIN channels' : /\ Sound(channels'[ch])
                                  /\ Alike(channels[ch], channels'[ch])

\* Counting is one.
LEMMA SameAlike ==
  ASSUME NEW c, NEW d, SameWork(c, d)
  PROVE  Alike(c, d)
  BY Zenon DEF SameWork, Alike

\* So is changing nothing.
LEMMA UnchangedWorks ==
  ASSUME Inv, channels' = channels
  PROVE  SameWorks
  <1>1. \A c : Alike(c, c)
    BY Zenon DEF Alike
  <1> QED BY <1>1, OpenChannels, Zenon DEF SameWorks, Inv, TypeOK, Open

\* So is counting a share on one channel.
LEMMA CountWorks ==
  ASSUME Inv, NEW f, DOMAIN f = Open, channels' = [c \in Open |-> f[c]],
         \A c \in Open : f[c] \in Channels /\ SameWork(channels[c], f[c])
  PROVE  SameWorks
  <1>1. DOMAIN channels' = Open /\ \A c \in Open : channels'[c] = f[c]
    BY Zenon
  <1>2. channels' \in [Open -> Channels]
    BY Zenon
  <1>3. \A c \in Open : Sound(f[c]) /\ Alike(channels[c], f[c])
    BY OpenChannels, SameSound, SameAlike, Zenon
  <1> QED BY <1>1, <1>2, <1>3, Zenon DEF SameWorks

\* maybe_refresh_job: its plan is committed, or the channel is gone or further on.
LEMMA RefreshCommitCases ==
  ASSUME Inv, RefreshCommit
  PROVE  /\ refresh \in Plans /\ refresh.job \in 1..Published
         /\ \/ channels' = channels
            \/ /\ refresh.ch \in Open /\ channels[refresh.ch].seq <= refresh.job
               /\ \E d : /\ IsCommitted(d, channels[refresh.ch], refresh)
                         /\ channels' = [channels EXCEPT ![refresh.ch] = Advanced(d, refresh.job)]
  <1> DEFINE ch == refresh.ch
  <1>1. refresh \in Plans /\ refresh.job \in 1..Published /\ parents \in Seq(Nat)
    BY Zenon DEF Inv, TypeOK, PlansInv, RefreshCommit
  <1>2. \/ channels' = channels
        \/ /\ ch \in Open /\ channels[ch].seq <= refresh.job
           /\ channels' = [channels EXCEPT ![ch] =
                Advanced(Committed(channels[ch], refresh, FALSE), refresh.job)]
    BY Zenon DEF RefreshCommit, Advanced
  <1>3. ASSUME ch \in Open
        PROVE  IsCommitted(Committed(channels[ch], refresh, FALSE), channels[ch], refresh)
    <2>1. channels[ch] \in Channels
      BY <1>3, OpenChannels, Zenon
    <2> HIDE DEF ch
    <2> QED BY <1>1, <2>1, CommitKeeps, Zenon
  <1> QED BY <1>1, <1>2, <1>3, Zenon

\* maybe_refresh_job, its second region.
LEMMA RefreshCommitInv ==
  ASSUME Inv, RefreshCommit
  PROVE  Inv'
  <1>1. /\ DOMAIN channels' = Open /\ channels' \in [Open -> Channels]
        /\ \A c \in DOMAIN channels' : Sound(channels'[c])
    <2>1. CASE channels' = channels
      BY <2>1, OpenChannels, Zenon DEF Inv, TypeOK, Open
    <2>2. CASE /\ refresh.ch \in Open
               /\ \E d : /\ IsCommitted(d, channels[refresh.ch], refresh)
                         /\ channels' = [channels EXCEPT ![refresh.ch] = Advanced(d, refresh.job)]
      BY <2>2, RefreshCommitCases, CommitOne, Zenon
    <2> QED BY <2>1, <2>2, RefreshCommitCases, Zenon
  <1>2. /\ UNCHANGED <<parents, queued, next_channel_id, next_job_id, extranonce_counter,
                       share, blocks, pending_blocks, found, frames, ticks, publishing>>
        /\ pc = "refreshing" /\ pc' = "idle" /\ refresh' = NoPlan
    BY Zenon DEF RefreshCommit
  <1>3. refresh' \in Plans
    BY <1>2, Zenon DEF NoPlan, Plans
  <1>4. TypeOK'
    BY <1>1, <1>2, <1>3, Zenon DEF Inv, TypeOK, Open
  <1>5. PlansInv'
    BY <1>1, <1>2, Zenon DEF Inv, PlansInv, Published, Open
  <1>6. ChannelsInv'
    BY <1>1, <1>2, ChannelsStill, Zenon
  <1>7. BlocksInv'
    BY <1>2, BlocksStill, Zenon DEF Inv
  <1> QED BY <1>4, <1>5, <1>6, <1>7, Zenon DEF Inv

\* maybe_retarget: new targets, on the channels whose interval is over.
LEMMA MaybeRetargetWorks ==
  ASSUME Inv, MaybeRetarget
  PROVE  SameWorks
  <1> DEFINE quiet(ch) == [channels[ch] EXCEPT !.mined = FALSE]
             next(ch, r) == Larger(VardiffNext(quiet(ch).level, r), quiet(ch).floor)
             after(ch, r) == IF next(ch, r) = quiet(ch).level THEN quiet(ch)
                             ELSE Retargeted(quiet(ch), next(ch, r))
  <1> DEFINE result(due, rate) ==
               [ch \in Open |-> IF ch \in due THEN after(ch, rate[ch]) ELSE channels[ch]]
  <1>0. \E due \in SUBSET Open \ {{}} : \E rate \in [due -> {"fast", "steady", "slow"}] :
          channels' = result(due, rate)
    BY Zenon DEF MaybeRetarget
  <1>1. PICK due, rate : channels' = result(due, rate)
    <2> HIDE DEF result
    <2> QED BY <1>0, Zenon
  <1>2. ASSUME NEW ch \in Open, NEW r
        PROVE  /\ after(ch, r) \in Channels /\ Sound(after(ch, r))
               /\ Alike(channels[ch], after(ch, r))
    <2>1. channels[ch] \in Channels /\ Sound(channels[ch])
      BY OpenChannels, Zenon
    <2>2. quiet(ch) \in Channels /\ SameWork(channels[ch], quiet(ch))
      BY <2>1, CountedSound, Zenon
    <2>3. quiet(ch).level \in Nat /\ quiet(ch).floor \in Nat
      <3> HIDE DEF quiet
      <3> QED BY <2>2, Zenon DEF Channels
    <2> HIDE DEF quiet
    <2>4. next(ch, r) \in Nat
      BY <2>3, DifficultyIsNat, Zenon
    <2> HIDE DEF next
    <2>5. Sound(quiet(ch)) /\ Alike(channels[ch], quiet(ch))
      BY <2>1, <2>2, SameSound, SameAlike, Zenon
    <2>6. /\ Retargeted(quiet(ch), next(ch, r)) \in Channels
          /\ Sound(Retargeted(quiet(ch), next(ch, r)))
      BY <2>2, <2>4, <2>5, RetargetedSound, Zenon
    <2>7. Alike(quiet(ch), Retargeted(quiet(ch), next(ch, r)))
      BY <2>2, <2>4, RetargetedSound, Zenon DEF Alike
    <2>8. \A d : Alike(quiet(ch), d) => Alike(channels[ch], d)
      BY <2>2, Zenon DEF Alike, SameWork
    <2> QED BY <2>2, <2>5, <2>6, <2>7, <2>8, Zenon
  <1> HIDE DEF after
  <1>3. \A ch \in Open : /\ channels'[ch] \in Channels /\ Sound(channels'[ch])
                         /\ Alike(channels[ch], channels'[ch])
    <2>1. \A ch \in Open : Alike(channels[ch], channels[ch])
      BY Zenon DEF Alike
    <2>2. \A ch \in Open : channels'[ch] = IF ch \in due THEN after(ch, rate[ch]) ELSE channels[ch]
      BY <1>1, Zenon
    <2> TAKE ch \in Open
    <2>3. CASE ch \in due
      BY <1>2, <2>2, <2>3, Zenon
    <2>4. CASE ch \notin due
      BY <2>1, <2>2, <2>4, OpenChannels, Zenon
    <2> QED BY <2>3, <2>4, Zenon
  <1>4. DOMAIN channels' = Open /\ channels' = [ch \in Open |-> channels'[ch]]
    BY <1>1, Zenon
  <1>5. channels' \in [Open -> Channels]
    BY <1>3, <1>4, Zenon
  <1> QED BY <1>3, <1>4, <1>5, Zenon DEF SameWorks

\* maybe_retarget touches nothing else of the invariant.
LEMMA MaybeRetargetInv ==
  ASSUME Inv, MaybeRetarget
  PROVE  Inv'
  <1>1. SameWorks
    BY MaybeRetargetWorks, Zenon
  <1>2. /\ UNCHANGED <<parents, queued, next_channel_id, next_job_id, extranonce_counter,
                       refresh, publishing, pc, share, blocks, pending_blocks, found, frames>>
        /\ ticks' = ticks + 1
    BY Zenon DEF MaybeRetarget
  <1>3. TypeOK' /\ PlansInv' /\ ChannelsInv'
    <2>1. /\ frames' \in Nat /\ ticks' \in Nat
          /\ pc' \in {"idle", "frames", "refreshing", "validate", "accepted", "rejected"}
      BY <1>2 DEF Inv, TypeOK
    <2> QED BY <1>1, <1>2, <2>1, ChannelStep, Zenon DEF SameWorks
  <1>4. BlocksInv'
    BY <1>2, BlocksStill, Zenon DEF Inv
  <1> QED BY <1>3, <1>4, Zenon DEF Inv

\* The end of a batch: the blocks it found go to the pool.
LEMMA EndBatchInv ==
  ASSUME Inv, EndBatch
  PROVE  Inv'
  <1>1. /\ UNCHANGED <<parents, queued, next_channel_id, next_job_id, extranonce_counter,
                       refresh, publishing, channels, share, found, frames, ticks>>
        /\ pc \in {"idle", "frames"} /\ pc' = "idle"
        /\ blocks' = blocks \o pending_blocks /\ pending_blocks' = <<>>
    BY Zenon DEF EndBatch
  <1>2. TypeOK' /\ PlansInv' /\ ChannelsInv'
    <2>1. frames' \in Nat /\ ticks' \in Nat
      BY <1>1, Zenon DEF Inv, TypeOK
    <2> QED BY <1>1, <2>1, OtherStep, Zenon
  <1>3. BlocksInv'
    <2>1. /\ blocks \in Seq(Keys) /\ pending_blocks \in Seq(Keys) /\ found \in Seq(Keys)
          /\ found = blocks \o pending_blocks
      BY <1>1, Zenon DEF Inv, BlocksInv
    <2>2. blocks' \in Seq(Keys) /\ pending_blocks' \in Seq(Keys)
      BY <1>1, <2>1
    <2>3. blocks' \o pending_blocks' = blocks'
      <3>1. \A s \in Seq(Keys) : s \o <<>> = s
        OBVIOUS
      <3> QED BY <1>1, <2>2, <3>1, Zenon
    <2> QED BY <1>1, <2>1, <2>2, <2>3, Zenon DEF BlocksInv
  <1> QED BY <1>2, <1>3, Zenon DEF Inv

\* A frame that is not a share leaves the blocks and the plans alone.
LEMMA FrameFacts ==
  ASSUME Inv, Frame
  PROVE  /\ UNCHANGED <<parents, queued, refresh, publishing, share, blocks, pending_blocks,
                        found, ticks>>
         /\ pc \in {"idle", "frames"} /\ pc' = "frames"
         /\ frames' = frames + 1 /\ frames' \in Nat /\ ticks' \in Nat /\ frames < MaxFrames
         /\ BlocksInv'
  <1>1. /\ UNCHANGED <<parents, queued, refresh, publishing, share, blocks, pending_blocks,
                       found, ticks>>
        /\ pc \in {"idle", "frames"} /\ pc' = "frames"
        /\ frames' = frames + 1 /\ frames < MaxFrames
    BY Zenon DEF Frame, Handling
  <1>2. frames' \in Nat /\ ticks' \in Nat
    BY <1>1 DEF Inv, TypeOK
  <1>3. BlocksInv'
    BY <1>1, BlocksStill, Zenon DEF Inv
  <1> QED BY <1>1, <1>2, <1>3, Zenon

\* A frame that allocates nothing and leaves the channels their works.
LEMMA FrameInv ==
  ASSUME Inv, Frame, SameWorks, UNCHANGED ids
  PROVE  Inv'
  <1>1. TypeOK' /\ PlansInv' /\ ChannelsInv'
    <2>1. /\ UNCHANGED <<parents, queued, next_channel_id, next_job_id, extranonce_counter,
                         refresh, publishing>>
          /\ frames' \in Nat /\ ticks' \in Nat
          /\ pc' \in {"idle", "frames", "refreshing", "validate", "accepted", "rejected"}
          /\ pc' # "refreshing"
      BY FrameFacts, Zenon
    <2> QED BY <2>1, ChannelStep, Zenon DEF SameWorks
  <1> QED BY <1>1, FrameFacts, Zenon DEF Inv

\* SetupConnection, or the connection closes.
LEMMA SetupInv ==
  ASSUME Inv, Setup
  PROVE  Inv'
  <1>1. Frame /\ UNCHANGED ids /\ channels' = channels
    BY Zenon DEF Setup
  <1> QED BY <1>1, UnchangedWorks, FrameInv, Zenon

\* A message that is not expected.
LEMMA UnexpectedInv ==
  ASSUME Inv, Unexpected
  PROVE  Inv'
  <1>1. Frame /\ UNCHANGED ids /\ channels' = channels
    BY Zenon DEF Unexpected
  <1> QED BY <1>1, UnchangedWorks, FrameInv, Zenon

\* handle_close_locked: the other channels stay as they are.
LEMMA CloseChannelWorks ==
  ASSUME Inv, CloseChannel
  PROVE  Frame /\ UNCHANGED ids /\ UNCHANGED setup_complete /\ SameWorks
  <1>1. Frame /\ UNCHANGED ids /\ UNCHANGED setup_complete
    BY Zenon DEF CloseChannel
  <1>2. CASE channels' = channels
    BY <1>1, <1>2, UnchangedWorks, Zenon
  <1>3. CASE \E closed : channels' = [ch \in Open \ closed |-> channels[ch]]
    <2>1. PICK closed : channels' = [ch \in Open \ closed |-> channels[ch]]
      BY <1>3, Zenon
    <2>2. /\ DOMAIN channels' = Open \ closed
          /\ \A ch \in DOMAIN channels' : channels'[ch] = channels[ch]
      BY <2>1, Zenon
    <2>3. \A c : Alike(c, c)
      BY Zenon DEF Alike
    <2>4. channels' \in [Open \ closed -> Channels]
      BY <2>1, OpenChannels, Zenon
    <2> QED BY <1>1, <2>2, <2>3, <2>4, OpenChannels, Zenon DEF SameWorks
  <1> QED BY <1>2, <1>3, Zenon DEF CloseChannel

\* handle_close_locked.
LEMMA CloseChannelInv ==
  ASSUME Inv, CloseChannel
  PROVE  Inv'
  BY CloseChannelWorks, FrameInv, Zenon

\* What handle_update_locked notes before it decides.
Updated(c, floor, rate) ==
  [c EXCEPT !.floor = floor, !.fast = (c.kind = "standard" /\ rate = "fast")]

\* The work is the same; only a Standard channel is fast.
LEMMA UpdatedAlike ==
  ASSUME NEW c \in Channels, NEW floor \in Nat, NEW rate
  PROVE  /\ Updated(c, floor, rate) \in Channels
         /\ Alike(c, Updated(c, floor, rate))
         /\ Updated(c, floor, rate).fast => c.kind = "standard"
         /\ Sound(c) => Sound(Updated(c, floor, rate))
  <1> DEFINE d == Updated(c, floor, rate)
  <1>1. /\ d \in Channels /\ d.kind = c.kind /\ d.seq = c.seq /\ d.jobs = c.jobs
        /\ d.level = c.level /\ d.parent = c.parent
        /\ d.fast = (c.kind = "standard" /\ rate = "fast")
    BY Zenon DEF Updated, Channels
  <1> HIDE DEF d
  <1>2. d.fast => c.kind = "standard"
    BY <1>1, Zenon
  <1>3. Alike(c, d)
    BY <1>1, <1>2, Zenon DEF Alike
  <1>4. Sound(c) => Sound(d)
    BY <1>1, Zenon DEF Sound
  <1> QED BY <1>1, <1>2, <1>3, <1>4, Zenon DEF d

\* Twice alike is alike.
LEMMA AlikeTwice ==
  ASSUME NEW b, NEW c, NEW d, Alike(b, c), Alike(c, d)
  PROVE  Alike(b, d)
  BY Zenon DEF Alike

\* A channel replaced by one with the same work.
LEMMA ReplaceWork ==
  ASSUME Inv, NEW ch \in Open, NEW d \in Channels, Sound(d), Alike(channels[ch], d),
         channels' = [channels EXCEPT ![ch] = d]
  PROVE  SameWorks
  <1>1. /\ DOMAIN channels' = Open /\ channels' \in [Open -> Channels]
        /\ \A c \in DOMAIN channels' : Sound(channels'[c])
    BY ReplaceOne, Zenon
  <1>2. channels \in [Open -> Channels]
    BY Zenon DEF Inv, TypeOK
  <1>3. \A c \in Open : channels'[c] = IF c = ch THEN d ELSE channels[c]
    BY <1>2, Zenon
  <1>4. \A c \in Open : Alike(channels[c], channels'[c])
    <2>1. \A c : Alike(c, c)
      BY Zenon DEF Alike
    <2> QED BY <1>3, <2>1, Zenon
  <1> QED BY <1>1, <1>4, Zenon DEF SameWorks

\* handle_update_locked: the same works, or a job at once on a Standard channel.
UpdateIssues ==
  \E ch \in Open, c \in Channels, d \in Channels, plan \in Plans :
    /\ Alike(channels[ch], c) /\ Sound(c) /\ c.kind = "standard"
    /\ IsPlan(plan, ch, Published, "standard", 1) /\ plan.job \in 1..Published
    /\ IsCommitted(d, c, plan)
    /\ channels' = [channels EXCEPT ![ch] = d]
    /\ next_job_id' = next_job_id + 1 /\ extranonce_counter' = extranonce_counter + 1
    /\ next_channel_id' = next_channel_id

\* An update leaves the works alone or issues a job.
LEMMA UpdateChannelWorks ==
  ASSUME Inv, UpdateChannel
  PROVE  /\ Frame /\ setup_complete /\ UNCHANGED setup_complete
         /\ (SameWorks /\ UNCHANGED ids) \/ UpdateIssues
  <1>1. Frame /\ setup_complete /\ UNCHANGED setup_complete
    BY Zenon DEF UpdateChannel
  <1>2. CASE UNCHANGED <<channels, ids>>
    BY <1>1, <1>2, UnchangedWorks, Zenon
  <1>3. CASE \E ch \in Open, rate \in Rates, floor \in Difficulties : Update(ch, rate, floor)
    <2>1. PICK ch \in Open, rate \in Rates, floor \in Difficulties : Update(ch, rate, floor)
      BY <1>3, Zenon
    <2> DEFINE c == Updated(channels[ch], floor, rate)
               level == Larger(IF rate = "none" THEN c.level ELSE DifficultyForRate(rate), floor)
               plan == Plan(ch, Published, c.kind, FALSE, 1)
    <2>2. \/ channels' = [channels EXCEPT ![ch] = Retargeted(c, level)] /\ UNCHANGED ids
          \/ channels' = [channels EXCEPT ![ch] = c] /\ UNCHANGED ids
          \/ /\ c.fast
             /\ channels' = [channels EXCEPT ![ch] = Committed(c, plan, FALSE)]
             /\ next_job_id' = next_job_id + 1
             /\ extranonce_counter' = extranonce_counter + 1
             /\ next_channel_id' = next_channel_id
      BY <2>1, Zenon DEF Update, Updated
    <2>3. floor \in Nat /\ channels[ch] \in Channels /\ Sound(channels[ch]) /\ ch \in Nat
      BY OpenChannels, LevelsAssumption, Zenon
    <2>4. /\ c \in Channels /\ Alike(channels[ch], c) /\ Sound(c)
          /\ c.fast => channels[ch].kind = "standard"
      BY <2>3, UpdatedAlike, Zenon
    <2> HIDE DEF c
    <2>5. CASE channels' = [channels EXCEPT ![ch] = c] /\ UNCHANGED ids
      BY <1>1, <2>4, <2>5, ReplaceWork, Zenon
    <2>6. CASE channels' = [channels EXCEPT ![ch] = Retargeted(c, level)] /\ UNCHANGED ids
      <3>1. level \in Nat
        <4>1. c.level \in Nat
          BY <2>4, Zenon DEF Channels
        <4> QED BY <2>3, <4>1, DifficultyIsNat, Zenon
      <3> HIDE DEF level
      <3>2. Retargeted(c, level) \in Channels /\ Sound(Retargeted(c, level))
        BY <2>4, <3>1, RetargetedSound, Zenon
      <3>3. Alike(channels[ch], Retargeted(c, level))
        <4>1. Alike(c, Retargeted(c, level))
          BY <2>4, <3>1, RetargetedSound, Zenon DEF Alike
        <4> QED BY <2>4, <4>1, AlikeTwice, Zenon
      <3> QED BY <1>1, <2>6, <3>2, <3>3, ReplaceWork, Zenon
    <2>7. CASE /\ c.fast
               /\ channels' = [channels EXCEPT ![ch] = Committed(c, plan, FALSE)]
               /\ next_job_id' = next_job_id + 1
               /\ extranonce_counter' = extranonce_counter + 1
               /\ next_channel_id' = next_channel_id
      <3>1. c.kind = "standard"
        BY <2>4, <2>7, Zenon DEF Alike
      <3>2. TypeOK /\ Published \in 1..Published /\ Published \in Nat /\ 1 \in Nat \ {0}
        BY DEF Inv, PlansInv, TypeOK, Published
      <3>3. IsPlan(plan, ch, Published, "standard", 1)
        BY <2>3, <3>1, <3>2, PlanType, Zenon
      <3> HIDE DEF plan
      <3>4. plan \in Plans /\ plan.job \in 1..Published
        BY <3>2, <3>3, Zenon DEF IsPlan
      <3>5. IsCommitted(Committed(c, plan, FALSE), c, plan)
        BY <2>4, <3>2, <3>4, CommitKeeps, Zenon DEF TypeOK
      <3>6. Committed(c, plan, FALSE) \in Channels
        BY <3>5, Zenon DEF IsCommitted
      <3>7. UpdateIssues
        BY <2>4, <2>7, <3>1, <3>3, <3>4, <3>5, <3>6, Zenon DEF UpdateIssues
      <3> QED BY <1>1, <3>7, Zenon
    <2> QED BY <2>2, <2>5, <2>6, <2>7, Zenon
  <1> QED BY <1>2, <1>3, Zenon DEF UpdateChannel

\* handle_update_locked.
LEMMA UpdateChannelInv ==
  ASSUME Inv, UpdateChannel
  PROVE  Inv'
  <1>1. Frame
    BY UpdateChannelWorks, Zenon
  <1>2. CASE SameWorks /\ UNCHANGED ids
    BY <1>1, <1>2, FrameInv, Zenon
  <1>3. CASE UpdateIssues
    <2>1. PICK ch \in Open, c \in Channels, d \in Channels, plan \in Plans :
            /\ Sound(c) /\ IsCommitted(d, c, plan)
            /\ channels' = [channels EXCEPT ![ch] = d]
            /\ next_job_id' = next_job_id + 1 /\ extranonce_counter' = extranonce_counter + 1
            /\ next_channel_id' = next_channel_id
      BY <1>3, Zenon DEF UpdateIssues
    <2>2. Sound(d)
      BY <2>1, Zenon DEF IsCommitted
    <2>3. /\ DOMAIN channels' = Open /\ channels' \in [Open -> Channels]
          /\ \A e \in DOMAIN channels' : Sound(channels'[e])
      BY <2>1, <2>2, ReplaceOne, Zenon
    <2>4. next_job_id' \in Nat \ {0} /\ extranonce_counter' \in Nat
      BY <2>1 DEF Inv, TypeOK
    <2>5. /\ UNCHANGED <<parents, queued, refresh, publishing, ticks>>
          /\ pc' = "frames" /\ frames' \in Nat
      BY <1>1, FrameFacts, Zenon
    <2>6. TypeOK'
      <3>1. pc' \in {"idle", "frames", "refreshing", "validate", "accepted", "rejected"}
        BY <2>5, Zenon
      <3> QED BY <2>1, <2>3, <2>4, <2>5, <3>1, Zenon DEF Inv, TypeOK, Open
    <2>7. PlansInv'
      BY <2>3, <2>5, Zenon DEF Inv, PlansInv, Published, Open
    <2>8. ChannelsInv'
      BY <2>3, <2>5, ChannelsStill, Zenon
    <2> QED BY <1>1, <2>6, <2>7, <2>8, FrameFacts, Zenon DEF Inv
  <1> QED BY <1>2, <1>3, UpdateChannelWorks, Zenon

\* open_channel_locked: refused, or one channel more, with the newest job.
OpenIssues ==
  \E c \in Channels, d \in Channels, plan \in Plans :
    /\ c.jobs = <<>> /\ c.seq = Published /\ (c.kind = "extended" => ~c.fast)
    /\ c.kind = "standard" => Open = {}
    /\ c.kind = "extended" => \A e \in Open : channels[e].kind # "standard"
    /\ IsPlan(plan, next_channel_id, Published, c.kind, 1) /\ plan.job \in 1..Published
    /\ IsCommitted(d, c, plan) /\ Sound(d)
    /\ channels' = [e \in Open \cup {next_channel_id} |->
                      IF e = next_channel_id THEN d ELSE channels[e]]
    /\ next_channel_id' = next_channel_id + 1 /\ next_job_id' = next_job_id + 1
    /\ extranonce_counter' = IF c.kind = "standard" THEN extranonce_counter + 1
                             ELSE extranonce_counter

\* A channel just created has issued nothing.
LEMMA NewChannelFacts ==
  ASSUME Published \in Nat, NEW kind \in {"standard", "extended"}, NEW rate, NEW floor \in Nat
  PROVE  LET c == NewChannel(kind, rate, floor) IN
         /\ c \in Channels /\ c.jobs = <<>> /\ c.seq = Published /\ c.kind = kind
         /\ c.kind = "extended" => ~c.fast
         /\ Sound(c)
  <1> DEFINE c == NewChannel(kind, rate, floor)
             level == Larger(DifficultyForRate(rate), floor)
             fast == kind = "standard" /\ rate = "fast"
  <1>1. level \in Nat /\ fast \in BOOLEAN /\ (kind = "extended" => ~fast)
    BY DifficultyIsNat, Zenon
  <1> HIDE DEF level, fast
  <1>2. c = [kind |-> kind, floor |-> floor, level |-> level,
             fast |-> fast, seq |-> Published,
             mined |-> FALSE, accepted |-> 0, rejected |-> 0, jobs |-> <<>>, parent |-> 0]
    BY Zenon DEF NewChannel, level, fast
  <1>3. /\ c \in Channels /\ c.jobs = <<>> /\ c.seq = Published /\ c.kind = kind
        /\ c.kind = "extended" => ~c.fast
    <2> HIDE DEF c
    <2> QED BY <1>1, <1>2 DEF Channels
  <1>4. Sound(c)
    <2> HIDE DEF c
    <2> QED BY <1>3, LimitsAssumption DEF Sound
  <1> QED BY <1>3, <1>4, Zenon

\* What an open that is not refused may count on.
LEMMA NotRefused ==
  ASSUME NEW kind \in {"standard", "extended"}, NEW rate, NEW narrow, Published \in Nat,
         Refusal(kind, rate, narrow) = "none"
  PROVE  /\ Published > 0
         /\ kind = "standard" => Open = {}
         /\ kind = "extended" => \A e \in Open : channels[e].kind # "standard"
  BY DEF Refusal

\* An open that is refused leaves them alone.
LEMMA OpenChannelWorks ==
  ASSUME Inv, OpenChannel
  PROVE  /\ Frame /\ setup_complete /\ UNCHANGED setup_complete
         /\ (SameWorks /\ UNCHANGED ids) \/ OpenIssues
  <1>1. Frame /\ setup_complete /\ UNCHANGED setup_complete
    BY Zenon DEF OpenChannel
  <1>2. CASE UNCHANGED <<channels, ids>>
    BY <1>1, <1>2, UnchangedWorks, Zenon
  <1>3. CASE \E kind \in Kinds, rate \in Rates, floor \in Difficulties, narrow \in BOOLEAN :
               Refusal(kind, rate, narrow) = "none" /\ OpenNew(kind, rate, floor)
    <2>1. PICK kind \in Kinds, rate \in Rates, floor \in Difficulties, narrow \in BOOLEAN :
            Refusal(kind, rate, narrow) = "none" /\ OpenNew(kind, rate, floor)
      BY <1>3, Zenon
    <2> DEFINE c == NewChannel(kind, rate, floor)
               plan == Plan(next_channel_id, Published, kind, TRUE, 1)
               d == Committed(c, plan, TRUE)
    <2>2. /\ channels' = [e \in Open \cup {next_channel_id} |->
                            IF e = next_channel_id THEN d ELSE channels[e]]
          /\ next_channel_id' = next_channel_id + 1 /\ next_job_id' = next_job_id + 1
          /\ extranonce_counter' = IF kind = "standard" THEN extranonce_counter + 1
                                   ELSE extranonce_counter
      BY <2>1, Zenon DEF OpenNew
    <2>3. /\ kind \in {"standard", "extended"} /\ floor \in Nat /\ Published \in Nat
          /\ next_channel_id \in Nat /\ 1 \in Nat \ {0} /\ TypeOK /\ parents \in Seq(Nat)
      BY KindsAssumption, LevelsAssumption DEF Inv, TypeOK, Published
    <2>4. /\ Published > 0
          /\ kind = "standard" => Open = {}
          /\ kind = "extended" => \A e \in Open : channels[e].kind # "standard"
      BY <2>1, <2>3, NotRefused, Zenon
    <2>5. /\ c \in Channels /\ c.jobs = <<>> /\ c.seq = Published /\ c.kind = kind
          /\ c.kind = "extended" => ~c.fast
          /\ Sound(c)
      BY <2>3, NewChannelFacts, Zenon
    <2> HIDE DEF c
    <2>6. IsPlan(plan, next_channel_id, Published, kind, 1)
      BY <2>3, PlanType, Zenon
    <2> HIDE DEF plan
    <2>7. plan \in Plans /\ plan.job \in 1..Published
      BY <2>3, <2>4, <2>6 DEF IsPlan
    <2>8. IsCommitted(d, c, plan)
      BY <2>3, <2>5, <2>7, CommitKeeps, Zenon
    <2> HIDE DEF d
    <2>9. d \in Channels /\ Sound(d)
      BY <2>5, <2>8, Zenon DEF IsCommitted
    <2>10. OpenIssues
      BY <2>2, <2>4, <2>5, <2>6, <2>7, <2>8, <2>9, Zenon DEF OpenIssues
    <2> QED BY <1>1, <2>10, Zenon
  <1> QED BY <1>2, <1>3, Zenon DEF OpenChannel

\* open_channel_locked.
LEMMA OpenChannelInv ==
  ASSUME Inv, OpenChannel
  PROVE  Inv'
  <1>1. Frame
    BY OpenChannelWorks, Zenon
  <1>2. CASE SameWorks /\ UNCHANGED ids
    BY <1>1, <1>2, FrameInv, Zenon
  <1>3. CASE OpenIssues
    <2>1. PICK c \in Channels, d \in Channels, plan \in Plans :
            /\ plan.job \in 1..Published /\ Sound(d)
            /\ channels' = [e \in Open \cup {next_channel_id} |->
                              IF e = next_channel_id THEN d ELSE channels[e]]
            /\ next_channel_id' = next_channel_id + 1 /\ next_job_id' = next_job_id + 1
            /\ extranonce_counter' = IF c.kind = "standard" THEN extranonce_counter + 1
                                     ELSE extranonce_counter
      BY <1>3, Zenon DEF OpenIssues
    <2>2. /\ DOMAIN channels' = Open \cup {next_channel_id}
          /\ channels' \in [DOMAIN channels' -> Channels]
          /\ \A e \in DOMAIN channels' : Sound(channels'[e])
      BY <2>1, OpenChannels, Zenon
    <2>3. /\ next_job_id' \in Nat \ {0} /\ extranonce_counter' \in Nat
          /\ next_channel_id' \in Nat \ {0} /\ Published > 0
      BY <2>1 DEF Inv, TypeOK, Published
    <2>4. Open' \subseteq 1..(next_channel_id' - 1)
      BY <2>1, <2>2 DEF Inv, TypeOK, Open
    <2>5. /\ UNCHANGED <<parents, queued, refresh, publishing, ticks>>
          /\ pc' = "frames" /\ frames' \in Nat
      BY <1>1, FrameFacts, Zenon
    <2>6. TypeOK'
      <3>1. pc' \in {"idle", "frames", "refreshing", "validate", "accepted", "rejected"}
        BY <2>5, Zenon
      <3> QED BY <2>2, <2>3, <2>4, <2>5, <3>1, Zenon DEF Inv, TypeOK, Open
    <2>7. PlansInv'
      BY <2>3, <2>5, Zenon DEF Inv, PlansInv, Published, Open
    <2>8. ChannelsInv'
      BY <2>2, <2>5, ChannelsStill, Zenon
    <2> QED BY <1>1, <2>6, <2>7, <2>8, FrameFacts, Zenon DEF Inv
  <1> QED BY <1>2, <1>3, OpenChannelWorks, Zenon

\* prepare_share_locked: the share is refused, or it is one to validate.
LEMMA SubmitShareCases ==
  ASSUME Inv, SubmitShare
  PROVE  /\ SameWorks
         /\ \/ pc' = "frames" /\ share' = share
            \/ pc' = "validate" /\ share' \in SharesInHand
  <1>1. PICK ch \in 1..LastChannelId, kind \in Kinds, id \in 1..(next_job_id - 1),
             shape \in Shapes : Submit(ch, kind, id, shape)
    BY Zenon DEF SubmitShare
  <1>2. CASE Reject(ch) /\ pc' = "frames" /\ share' = share
    <2> DEFINE f == [c \in Open |-> IF c = ch THEN [channels[c] EXCEPT !.rejected = @ + 1]
                                    ELSE channels[c]]
    <2>1. channels' = f
      BY <1>2, Zenon DEF Reject
    <2>2. \A c \in Open : f[c] \in Channels /\ SameWork(channels[c], f[c])
      <3> TAKE c \in Open
      <3>1. CASE c = ch
        BY <3>1, OpenChannels, CountedSound, Zenon
      <3>2. CASE c # ch
        BY <3>2, OpenChannels, CountedSound, Zenon
      <3> QED BY <3>1, <3>2, Zenon
    <2>3. DOMAIN f = Open /\ channels' = [c \in Open |-> f[c]]
      BY <2>1, Zenon
    <2> HIDE DEF f
    <2> QED BY <1>2, <2>2, <2>3, CountWorks, Zenon
  <1>3. CASE /\ ch \in Open /\ id \in IssuedIds(channels[ch])
             /\ pc' = "validate" /\ channels' = channels
             /\ share' = [key |-> <<ch, id, shape>>, ch |-> ch, shape |-> shape,
                          level |-> Issued(channels[ch], id).level, block |-> FALSE]
    <2>1. PICK i \in DOMAIN channels[ch].jobs : channels[ch].jobs[i].id = id
      BY <1>3, Zenon DEF IssuedIds
    <2>2. channels[ch].jobs \in Seq(Issues)
      <3>1. channels[ch] \in Channels
        BY <1>3, OpenChannels, Zenon
      <3> QED BY <3>1, Zenon DEF Channels
    <2>3. Issued(channels[ch], id).level \in Nat
      <3> DEFINE n == CHOOSE n \in DOMAIN channels[ch].jobs : channels[ch].jobs[n].id = id
      <3>1. n \in DOMAIN channels[ch].jobs
        BY <2>1, Zenon
      <3>2. Issued(channels[ch], id) = channels[ch].jobs[n]
        BY Zenon DEF Issued
      <3> HIDE DEF n
      <3>3. \A x \in Issues : x.level \in Nat
        BY Zenon DEF Issues
      <3>4. channels[ch].jobs[n] \in Issues
        BY <2>2, <3>1
      <3> QED BY <3>2, <3>3, <3>4, Zenon
    <2>4. ch \in Nat /\ id \in Nat
      BY LimitsAssumption DEF Inv, TypeOK
    <2>5. share' \in SharesInHand
      BY <1>3, <2>3, <2>4, Zenon DEF SharesInHand, Keys
    <2> QED BY <1>3, <2>5, UnchangedWorks, Zenon
  <1> QED BY <1>1, <1>2, <1>3, Zenon DEF Submit

\* prepare_share_locked.
LEMMA SubmitShareInv ==
  ASSUME Inv, SubmitShare
  PROVE  Inv'
  <1>1. /\ UNCHANGED <<parents, queued, next_channel_id, next_job_id, extranonce_counter,
                       refresh, publishing, blocks, pending_blocks, found, frames, ticks>>
        /\ pc \in {"idle", "frames"}
    BY Zenon DEF SubmitShare, Handling
  <1>2. pc' \in {"frames", "validate"} /\ frames' \in Nat /\ ticks' \in Nat
    BY <1>1, SubmitShareCases, Zenon DEF Inv, TypeOK
  <1>3. TypeOK' /\ PlansInv' /\ ChannelsInv'
    <2>1. /\ pc' \in {"idle", "frames", "refreshing", "validate", "accepted", "rejected"}
          /\ pc' # "refreshing"
      BY <1>2, Zenon
    <2> QED BY <1>1, <1>2, <2>1, SubmitShareCases, ChannelStep, Zenon DEF SameWorks
  <1>4. BlocksInv'
    BY <1>1, <1>2, SubmitShareCases, Zenon DEF Inv, BlocksInv
  <1> QED BY <1>3, <1>4, Zenon DEF Inv

\* validate_and_account_share: a block it finds is with the share.
LEMMA ValidateInv ==
  ASSUME Inv, Validate
  PROVE  Inv'
  <1>1. /\ UNCHANGED <<parents, queued, next_channel_id, next_job_id, extranonce_counter,
                       refresh, publishing, channels, blocks, pending_blocks, frames, ticks>>
        /\ pc = "validate"
    BY Zenon DEF Validate
  <1>2. PICK met \in Difficulties :
          \/ pc' = "rejected" /\ UNCHANGED <<share, found>>
          \/ /\ pc' = "accepted"
             /\ share' = [share EXCEPT !.block = met >= NetworkDifficulty]
             /\ found' = IF met >= NetworkDifficulty THEN Append(found, share.key) ELSE found
    BY Zenon DEF Validate
  <1>3. TypeOK' /\ PlansInv' /\ ChannelsInv'
    <2>1. /\ pc' \in {"idle", "frames", "refreshing", "validate", "accepted", "rejected"}
          /\ pc' # "refreshing"
      BY <1>2, Zenon
    <2>2. frames' \in Nat /\ ticks' \in Nat
      BY <1>1, Zenon DEF Inv, TypeOK
    <2> QED BY <1>1, <2>1, <2>2, OtherStep, Zenon
  <1>4. /\ blocks \in Seq(Keys) /\ pending_blocks \in Seq(Keys) /\ found \in Seq(Keys)
        /\ found = blocks \o pending_blocks /\ share \in SharesInHand
    BY <1>1, Zenon DEF Inv, BlocksInv
  <1>5. BlocksInv'
    <2>1. CASE pc' = "rejected" /\ UNCHANGED <<share, found>>
      BY <1>1, <1>4, <2>1, Zenon DEF BlocksInv
    <2>2. CASE /\ pc' = "accepted"
               /\ share' = [share EXCEPT !.block = met >= NetworkDifficulty]
               /\ found' = IF met >= NetworkDifficulty THEN Append(found, share.key) ELSE found
      <3>1. \A b \in BOOLEAN : LET s == [share EXCEPT !.block = b] IN
              s \in SharesInHand /\ s.key = share.key /\ s.block = b /\ s.key \in Keys
        BY <1>4, Zenon DEF SharesInHand
      <3>2. CASE met >= NetworkDifficulty
        <4>1. share' = [share EXCEPT !.block = TRUE]
          BY <2>2, <3>2, Zenon
        <4>2. /\ share' \in SharesInHand /\ share'.key = share.key /\ share'.block = TRUE
              /\ share'.key \in Keys /\ found' = Append(blocks \o pending_blocks, share.key)
          BY <1>4, <2>2, <3>1, <3>2, <4>1, Zenon
        <4> QED BY <1>1, <1>4, <2>2, <4>2 DEF BlocksInv
      <3>3. CASE ~(met >= NetworkDifficulty)
        <4>1. share' = [share EXCEPT !.block = FALSE]
          <5>1. (met >= NetworkDifficulty) = FALSE
            BY <3>3, LevelsAssumption
          <5> QED BY <2>2, <5>1, Zenon
        <4>2. /\ share' \in SharesInHand /\ share'.block = FALSE
              /\ found' = blocks \o pending_blocks
          BY <1>4, <2>2, <3>1, <3>3, <4>1, Zenon
        <4> QED BY <1>1, <1>4, <2>2, <4>2, Zenon DEF BlocksInv
      <3> QED BY <3>2, <3>3, Zenon
    <2> QED BY <1>2, <2>1, <2>2, Zenon
  <1> QED BY <1>3, <1>5, Zenon DEF Inv

\* finish_share_locked: the shares of a channel are counted.
LEMMA FinishShareWorks ==
  ASSUME Inv, FinishShare
  PROVE  SameWorks
  <1> DEFINE f == [c \in Open |-> IF c = share.ch THEN [channels[c] EXCEPT !.rejected = @ + 1]
                                  ELSE channels[c]]
             g == [c \in Open |-> IF c = share.ch
                                  THEN [channels[c] EXCEPT !.accepted = @ + 1, !.mined = TRUE]
                                  ELSE channels[c]]
  <1>1. channels' = f \/ channels' = g
    BY Zenon DEF FinishShare
  <1>2. \A c \in Open : /\ f[c] \in Channels /\ SameWork(channels[c], f[c])
                        /\ g[c] \in Channels /\ SameWork(channels[c], g[c])
    <2>1. \A c \in Open : c = share.ch =>
            /\ f[c] \in Channels /\ SameWork(channels[c], f[c])
            /\ g[c] \in Channels /\ SameWork(channels[c], g[c])
      BY OpenChannels, CountedSound, Zenon
    <2>2. \A c \in Open : c # share.ch =>
            /\ f[c] \in Channels /\ SameWork(channels[c], f[c])
            /\ g[c] \in Channels /\ SameWork(channels[c], g[c])
      BY OpenChannels, CountedSound, Zenon
    <2> HIDE DEF f, g
    <2> QED BY <2>1, <2>2, Zenon
  <1>3. /\ DOMAIN f = Open /\ f = [c \in Open |-> f[c]]
        /\ DOMAIN g = Open /\ g = [c \in Open |-> g[c]]
    BY Zenon
  <1> HIDE DEF f, g
  <1>4. CASE channels' = f
    BY <1>2, <1>3, <1>4, CountWorks, Zenon
  <1>5. CASE channels' = g
    BY <1>2, <1>3, <1>5, CountWorks, Zenon
  <1> QED BY <1>1, <1>4, <1>5, Zenon

\* finish_share_locked: a block goes to the batch.
LEMMA FinishShareInv ==
  ASSUME Inv, FinishShare
  PROVE  Inv'
  <1>1. /\ UNCHANGED <<parents, queued, next_channel_id, next_job_id, extranonce_counter,
                       refresh, publishing, blocks, found, frames, ticks>>
        /\ pc \in {"accepted", "rejected"} /\ pc' = "frames"
        /\ \/ pc = "rejected" /\ pending_blocks' = pending_blocks
           \/ /\ pc = "accepted"
              /\ pending_blocks' = IF share.block
                                   THEN Append(pending_blocks, share.key) ELSE pending_blocks
    BY Zenon DEF FinishShare
  <1>2. TypeOK' /\ PlansInv' /\ ChannelsInv'
    <2>1. /\ pc' \in {"idle", "frames", "refreshing", "validate", "accepted", "rejected"}
          /\ pc' # "refreshing"
      BY <1>1, Zenon
    <2>2. frames' \in Nat /\ ticks' \in Nat
      BY <1>1, Zenon DEF Inv, TypeOK
    <2> QED BY <1>1, <2>1, <2>2, FinishShareWorks, ChannelStep, Zenon DEF SameWorks
  <1>3. /\ blocks \in Seq(Keys) /\ pending_blocks \in Seq(Keys) /\ found \in Seq(Keys)
        /\ share.key \in Keys
        /\ found = IF pc = "accepted" /\ share.block
                   THEN Append(blocks \o pending_blocks, share.key)
                   ELSE blocks \o pending_blocks
    BY <1>1, Zenon DEF Inv, BlocksInv, SharesInHand
  <1>4. BlocksInv'
    <2>1. CASE pending_blocks' = pending_blocks /\ ~(pc = "accepted" /\ share.block)
      BY <1>1, <1>3, <2>1, Zenon DEF BlocksInv
    <2>2. CASE /\ pc = "accepted" /\ share.block
               /\ pending_blocks' = Append(pending_blocks, share.key)
      <3>1. found = Append(blocks \o pending_blocks, share.key)
        BY <1>3, <2>2, Zenon
      <3>2. /\ Append(pending_blocks, share.key) \in Seq(Keys)
            /\ JoinAppends(blocks, pending_blocks, share.key)
        BY <1>3, AppendAfter, Zenon
      <3>3. pending_blocks' \in Seq(Keys) /\ found = blocks \o pending_blocks'
        BY <2>2, <3>1, <3>2, Zenon DEF JoinAppends
      <3> QED BY <1>1, <1>3, <3>3, Zenon DEF BlocksInv
    <2> QED BY <1>1, <2>1, <2>2, Zenon
  <1> QED BY <1>2, <1>4, Zenon DEF Inv

\* A step that changes nothing.
LEMMA StutterInv ==
  ASSUME Inv, UNCHANGED vars
  PROVE  Inv'
  <1>1. /\ UNCHANGED <<parents, queued, next_channel_id, next_job_id, extranonce_counter,
                       refresh, publishing, channels, blocks, pending_blocks, found>>
        /\ UNCHANGED <<share, pc, frames, ticks>>
    BY Zenon DEF vars
  <1>2. TypeOK' /\ PlansInv' /\ ChannelsInv'
    <2>1. /\ frames' \in Nat /\ ticks' \in Nat
          /\ pc' \in {"idle", "frames", "refreshing", "validate", "accepted", "rejected"}
      BY <1>1, Zenon DEF Inv, TypeOK
    <2> QED BY <1>1, <2>1, OtherStep, Zenon
  <1>3. BlocksInv'
    BY <1>1, BlocksStill, Zenon DEF Inv
  <1> QED BY <1>2, <1>3, Zenon DEF Inv

\* Every step keeps the invariant.
LEMMA NextInv ==
  ASSUME Inv, [Next]_vars
  PROVE  Inv'
  BY PublishInv, PublishPrepareInv, PublishCommitInv, RefreshPrepareInv, RefreshCommitInv,
     MaybeRetargetInv, EndBatchInv, SetupInv, UnexpectedInv, OpenChannelInv,
     UpdateChannelInv, CloseChannelInv, SubmitShareInv, ValidateInv, FinishShareInv,
     StutterInv, Zenon DEF Next

\* The invariant is one.
LEMMA AlwaysInv == Spec => []Inv
  BY InitInv, NextInv, PTL DEF Spec

\* Every block a share of the session found was handed to on_block_found, once and
\* in order, when its batch is over (handle_bytes), for any limits and any number
\* of shares and frames.
THEOREM BlocksTheorem == Spec => []BlocksReachPool
  <1>1. Inv => BlocksReachPool
    <2> SUFFICES ASSUME Inv, pc = "idle" PROVE blocks = found
      BY Zenon DEF BlocksReachPool
    <2>1. blocks \in Seq(Keys) /\ pending_blocks = <<>> /\ found = blocks \o pending_blocks
      BY Zenon DEF Inv, BlocksInv
    <2>2. \A s \in Seq(Keys) : s \o <<>> = s
      OBVIOUS
    <2> QED BY <2>1, <2>2, Zenon
  <1> QED BY <1>1, AlwaysInv, PTL

\* The jobs a channel takes shares for mine on the parent it was last told, and
\* are at most kMaximumIssuedJobs (commit_job_locked), whatever was prepared and
\* committed in between.
THEOREM ParentTheorem == Spec => []JobsShareParent
  <1>1. Inv => JobsShareParent
    BY Zenon DEF Inv, ChannelsInv, Sound, JobsShareParent
  <1> QED BY <1>1, AlwaysInv, PTL

\* A job sent as clean is held to the channel's target and every other to the one
\* it was sent with (change_target_locked), for any difficulties.
THEOREM TargetsTheorem == Spec => []TargetsAsAnnounced
  <1>1. Inv => TargetsAsAnnounced
    BY Zenon DEF Inv, ChannelsInv, Sound, TargetsAsAnnounced
  <1> QED BY <1>1, AlwaysInv, PTL

-----------------------------------------------------------------------------
(* No two jobs of a session search the same space.  The prefixes of a job   *)
(* are handed out while it is the newest, so they differ as long as there   *)
(* are enough of them for what can happen meanwhile.                        *)

\* What a channel was sent, and what is planned for it.
Sent(c) == {Issue(c.jobs[i]) : i \in DOMAIN c.jobs}
Waiting(ch) == {Issue(publishing.plans[k]) : k \in {n \in DOMAIN publishing.plans :
                                                      publishing.plans[n].ch = ch}}
Refreshing(ch) == IF pc = "refreshing" /\ refresh.ch = ch THEN {Issue(refresh)} ELSE {}
Works(ch) == Sent(channels[ch]) \cup Waiting(ch) \cup Refreshing(ch)
Distinct(S) == \A x, y \in S : x[2] = y[2] /\ x[3] = y[3] => x[1] = y[1]

\* An Extended channel is sent a job once, with the prefix it has for good, and
\* never a refresh.
ExtendedOnce(ch) ==
  /\ ~channels[ch].fast
  /\ Distinct(Sent(channels[ch]))
  /\ \A x \in Sent(channels[ch]) : x[3] = ch /\ x[2] <= channels[ch].seq
  /\ \A x \in Waiting(ch) : x[3] = ch

\* Channel ids are not used again, and a Standard channel is alone.
KindsInv ==
  /\ \A k \in DOMAIN publishing.plans : publishing.plans[k].ch < next_channel_id
  /\ pc = "refreshing" => /\ refresh.ch < next_channel_id
                          /\ refresh.ch \in Open => channels[refresh.ch].kind = "standard"
  /\ \A ch \in Open :
       /\ channels[ch].kind = "standard" => Open = {ch}
       /\ channels[ch].seq <= Published
       /\ channels[ch].kind = "extended" => ExtendedOnce(ch)

\* The works of a Standard channel are distinct, and those of the newest job have
\* prefixes allocated since it was published, after "base".
Allotted == frames + ticks + (IF queued = None THEN 1 ELSE 0)
Recent(base) ==
  /\ setup_complete => extranonce_counter - base < Allotted
  /\ \A ch \in Open : channels[ch].kind = "standard" =>
       \A x \in Works(ch) : x[2] = Published =>
         \E n \in (base + 1)..extranonce_counter : x[3] = Prefix(n)
StandardDistinct ==
  \A ch \in Open : channels[ch].kind = "standard" => Distinct(Works(ch))
FramesInv ==
  /\ frames <= MaxFrames /\ ticks <= MaxTicks
  /\ setup_complete => frames > 0
  /\ ~setup_complete => Open = {} /\ extranonce_counter = 0
UniqueInv ==
  /\ FramesInv /\ StandardDistinct
  /\ \E base \in 0..extranonce_counter : Recent(base)

WorkInv == KindsInv /\ UniqueInv
-----------------------------------------------------------------------------
\* Counters that differ by less than the prefix space have different prefixes.
LEMMA PrefixesDiffer ==
  ASSUME NEW a \in Nat, NEW b \in Nat, a < b, b - a < PrefixSpace
  PROVE  Prefix(a) # Prefix(b)
  <1> DEFINE p == PrefixSpace
             k == (b \div p) - (a \div p)
  <1>1. p \in Nat \ {0}
    BY LimitsAssumption, Zenon
  <1>2. a = p * (a \div p) + (a % p) /\ b = p * (b \div p) + (b % p)
    BY <1>1
  <1>3. a \div p \in Int /\ b \div p \in Int /\ k \in Int /\ a % p \in Int /\ b % p \in Int
    BY <1>1
  <1> SUFFICES ASSUME a % p = b % p PROVE FALSE
    BY Zenon DEF Prefix
  <1>4. b - a = p * k
    BY <1>1, <1>2, <1>3
  <1> HIDE DEF p, k
  <1>5. CASE k >= 1
    <2>1. p * k >= p
      BY <1>1, <1>3, <1>5
    <2> QED BY <1>1, <1>3, <1>4, <2>1 DEF p
  <1>6. CASE k <= 0
    <2>1. p * k <= 0
      BY <1>1, <1>3, <1>6
    <2> QED BY <1>1, <1>3, <1>4, <2>1
  <1> QED BY <1>3, <1>5, <1>6

\* What alike channels were sent, and what a commit adds.
LEMMA SentFacts ==
  ASSUME NEW c, NEW d
  PROVE  /\ Alike(c, d) => Sent(d) = Sent(c)
         /\ \A plan : IsCommitted(d, c, plan) => Sent(d) \subseteq Sent(c) \cup {Issue(plan)}
         /\ Sound(c) => \A x \in Sent(c) : x[2] \in 1..Published
  <1>1. Alike(c, d) => Sent(d) = Sent(c)
    BY Zenon DEF Alike, Sent
  <1>2. \A plan : IsCommitted(d, c, plan) => Sent(d) \subseteq Sent(c) \cup {Issue(plan)}
    BY Zenon DEF IsCommitted, Sent
  <1>3. Sound(c) => \A x \in Sent(c) : x[2] \in 1..Published
    BY DEF Sound, Sent, Issue
  <1> QED BY <1>1, <1>2, <1>3, Zenon

\* Works are of jobs that were published.
LEMMA WorksPublished ==
  ASSUME Inv, NEW ch \in Open, NEW x \in Works(ch)
  PROVE  x[2] \in 1..Published
  <1>1. CASE x \in Sent(channels[ch])
    BY <1>1, OpenChannels, SentFacts, Zenon
  <1>2. CASE x \in Waiting(ch)
    BY <1>2 DEF Waiting, Issue, Inv, PlansInv
  <1>3. CASE x \in Refreshing(ch)
    BY <1>3 DEF Refreshing, Issue, Inv, PlansInv
  <1> QED BY <1>1, <1>2, <1>3, Zenon DEF Works

\* How many prefixes may have been handed out.
LEMMA AllottedIs ==
  /\ Allotted = frames + ticks + 0 \/ Allotted = frames + ticks + 1
  /\ Allotted' = frames' + ticks' + 0 \/ Allotted' = frames' + ticks' + 1
  BY Zenon DEF Allotted

\* Every frame, every tick and the publication taken up allows one more.
LEMMA AllottedGrows ==
  ASSUME frames \in Nat, ticks \in Nat, frames' \in Nat, ticks' \in Nat,
         frames <= frames', ticks <= ticks', queued' = queued \/ queued' = None
  PROVE  /\ Allotted <= Allotted'
         /\ frames + ticks < frames' + ticks' => Allotted < Allotted'
         /\ queued # None /\ queued' = None => Allotted < Allotted'
  <1>1. \A a, b, c, d \in Nat : a <= c /\ b <= d =>
          /\ a + b + 1 <= c + d + 1 /\ a + b + 0 <= c + d + 0
          /\ a + b + 0 < c + d + 1 /\ a + b + 0 <= c + d + 1
          /\ a + b < c + d => a + b + 1 < c + d + 1 /\ a + b + 0 < c + d + 0
    OBVIOUS
  <1>2. CASE queued = None
    <2>1. Allotted = frames + ticks + 1 /\ Allotted' = frames' + ticks' + 1
      BY <1>2, Zenon DEF Allotted
    <2> QED BY <1>1, <1>2, <2>1, Zenon
  <1>3. CASE queued # None /\ queued' = queued
    <2>1. Allotted = frames + ticks + 0 /\ Allotted' = frames' + ticks' + 0
      BY <1>3, Zenon DEF Allotted
    <2> QED BY <1>1, <1>3, <2>1, Zenon
  <1>4. CASE queued # None /\ queued' = None
    <2>1. Allotted = frames + ticks + 0 /\ Allotted' = frames' + ticks' + 1
      BY <1>4, Zenon DEF Allotted
    <2> QED BY <1>1, <2>1, Zenon
  <1> QED BY <1>2, <1>3, <1>4, Zenon

\* No two works become one: what is sent or planned is less, or on channels that
\* are not Standard, and nothing is allocated.
LEMMA UniqueShrinks ==
  ASSUME Inv, UniqueInv, UNCHANGED <<parents, extranonce_counter>>, FramesInv',
         setup_complete' => setup_complete, Allotted <= Allotted',
         \A ch \in DOMAIN channels' : channels'[ch].kind = "standard" =>
           /\ ch \in Open /\ channels[ch].kind = "standard"
           /\ Works(ch)' \subseteq Works(ch),
         frames' \in Nat, ticks' \in Nat
  PROVE  UniqueInv'
  <1>1. StandardDistinct'
    BY Zenon DEF StandardDistinct, Distinct, UniqueInv, Open
  <1>2. PICK base \in 0..extranonce_counter : Recent(base)
    BY Zenon DEF UniqueInv
  <1>3. setup_complete' => extranonce_counter' - base < Allotted'
    <2>1. setup_complete => extranonce_counter - base < Allotted
      BY <1>2, Zenon DEF Recent
    <2>2. /\ extranonce_counter \in Nat /\ Allotted \in Nat /\ Allotted' \in Nat
      <3>1. frames \in Nat /\ ticks \in Nat /\ extranonce_counter \in Nat
        BY Zenon DEF Inv, TypeOK
      <3> QED BY <3>1, AllottedIs
    <2> QED BY <2>1, <2>2
  <1>4. Recent(base)'
    <2> SUFFICES ASSUME NEW ch \in DOMAIN channels', channels'[ch].kind = "standard",
                        NEW x \in Works(ch)', x[2] = Published'
                 PROVE  \E n \in (base + 1)..extranonce_counter' : x[3] = Prefix(n)
      BY <1>3, Zenon DEF Recent, Open, Prefix
    <2> QED BY <1>2, Zenon DEF Recent, Published
  <1> QED BY <1>1, <1>2, <1>4, Zenon DEF UniqueInv

\* One prefix more, for the newest job: it is not among those handed out since the
\* job was published.
LEMMA UniqueGrows ==
  ASSUME PrefixSpace >= MaxFrames + MaxTicks, Inv, UniqueInv, parents' = parents,
         extranonce_counter' = extranonce_counter + 1, FramesInv',
         setup_complete, Allotted < Allotted',
         NEW new, new[2] = Published, new[3] = Prefix(extranonce_counter + 1),
         \A ch \in DOMAIN channels' : channels'[ch].kind = "standard" =>
           \A x \in Works(ch)' :
             \/ x = new
             \/ ch \in Open /\ channels[ch].kind = "standard" /\ x \in Works(ch),
         frames' \in Nat, ticks' \in Nat
  PROVE  UniqueInv'
  <1>1. PICK base \in 0..extranonce_counter : Recent(base)
    BY Zenon DEF UniqueInv
  <1>2. /\ extranonce_counter \in Nat /\ Allotted \in Nat /\ Allotted' \in Nat
        /\ Allotted' <= MaxFrames + MaxTicks + 1
        /\ PrefixSpace \in Nat /\ MaxFrames \in Nat /\ MaxTicks \in Nat
    <2>1. frames \in Nat /\ ticks \in Nat /\ extranonce_counter \in Nat
      BY Zenon DEF Inv, TypeOK
    <2>2. PrefixSpace \in Nat /\ MaxFrames \in Nat /\ MaxTicks \in Nat
      BY LimitsAssumption, Zenon
    <2>3. frames' <= MaxFrames /\ ticks' <= MaxTicks
      BY Zenon DEF FramesInv
    <2> QED BY <2>1, <2>2, <2>3, AllottedIs
  <1>3. extranonce_counter - base < Allotted
    BY <1>1, Zenon DEF Recent
  <1>4. ASSUME NEW ch \in Open, channels[ch].kind = "standard", NEW x \in Works(ch),
               x[2] = Published
        PROVE  x[3] # new[3]
    <2>1. PICK n \in (base + 1)..extranonce_counter : x[3] = Prefix(n)
      BY <1>1, <1>4, Zenon DEF Recent
    <2>2. /\ n \in Nat /\ extranonce_counter + 1 \in Nat /\ n < extranonce_counter + 1
          /\ (extranonce_counter + 1) - n < PrefixSpace
      BY <1>2, <1>3
    <2>3. Prefix(n) # Prefix(extranonce_counter + 1)
      BY <2>2, PrefixesDiffer, Zenon
    <2> QED BY <2>1, <2>3, Zenon
  <1>5. StandardDistinct'
    <2> SUFFICES ASSUME NEW ch \in DOMAIN channels', channels'[ch].kind = "standard",
                        NEW x \in Works(ch)', NEW y \in Works(ch)', x[2] = y[2], x[3] = y[3]
                 PROVE  x[1] = y[1]
      BY Zenon DEF StandardDistinct, Distinct, Open
    <2>1. CASE x = new /\ y = new
      BY <2>1, Zenon
    <2>2. CASE /\ ch \in Open /\ channels[ch].kind = "standard"
               /\ x \in Works(ch) /\ y \in Works(ch)
      BY <2>2, Zenon DEF UniqueInv, StandardDistinct, Distinct
    <2>3. CASE x = new /\ ch \in Open /\ channels[ch].kind = "standard" /\ y \in Works(ch)
      BY <1>4, <2>3, Zenon
    <2>4. CASE y = new /\ ch \in Open /\ channels[ch].kind = "standard" /\ x \in Works(ch)
      BY <1>4, <2>4, Zenon
    <2> QED BY <2>1, <2>2, <2>3, <2>4, Zenon
  <1>6. setup_complete' => extranonce_counter' - base < Allotted'
    BY <1>2, <1>3
  <1>7. Recent(base)'
    <2> SUFFICES ASSUME NEW ch \in DOMAIN channels', channels'[ch].kind = "standard",
                        NEW x \in Works(ch)', x[2] = Published'
                 PROVE  \E n \in (base + 1)..extranonce_counter' : x[3] = Prefix(n)
      BY <1>6, Zenon DEF Recent, Open, Prefix
    <2>1. CASE x = new
      <3>1. extranonce_counter + 1 \in (base + 1)..extranonce_counter'
        BY <1>2
      <3> QED BY <2>1, <3>1, Zenon
    <2>2. CASE ch \in Open /\ channels[ch].kind = "standard" /\ x \in Works(ch)
      <3>1. PICK n \in (base + 1)..extranonce_counter : x[3] = Prefix(n)
        BY <1>1, <2>2, Zenon DEF Recent, Published
      <3>2. n \in (base + 1)..extranonce_counter'
        BY <1>2
      <3> QED BY <3>1, <3>2, Zenon
    <2> QED BY <2>1, <2>2, Zenon
  <1>8. base \in 0..extranonce_counter'
    BY <1>2
  <1> QED BY <1>5, <1>7, <1>8, Zenon DEF UniqueInv

\* broadcast_job: no prefix was handed out for the new job.
LEMMA PublishUnique ==
  ASSUME Inv, UniqueInv, Publish
  PROVE  UniqueInv'
  <1>1. /\ UNCHANGED <<channels, publishing, refresh, pc, extranonce_counter, setup_complete,
                       frames, ticks>>
        /\ \E parent \in Parents : parents' = Append(parents, parent)
    BY Zenon DEF Publish
  <1>2. Published \in Nat /\ Published' = Published + 1
    BY <1>1 DEF Inv, TypeOK, Published, Parents
  <1>3. \A ch \in Open : Works(ch)' = Works(ch)
    BY <1>1, Zenon DEF Works, Waiting, Refreshing
  <1>4. FramesInv' /\ StandardDistinct'
    BY <1>1, <1>3, Zenon DEF UniqueInv, FramesInv, StandardDistinct, Open
  <1>5. extranonce_counter \in Nat /\ frames \in Nat /\ ticks \in Nat
    BY Zenon DEF Inv, TypeOK
  <1>6. PICK base \in 0..extranonce_counter' : base = extranonce_counter
    BY <1>1, <1>5
  <1>7. setup_complete' => extranonce_counter' - base < Allotted'
    <2>1. setup_complete => frames > 0
      BY Zenon DEF UniqueInv, FramesInv
    <2> QED BY <1>1, <1>5, <1>6, <2>1, AllottedIs
  <1>8. Recent(base)'
    <2>1. \A ch \in Open : \A x \in Works(ch) : x[2] # Published'
      BY <1>2, WorksPublished
    <2> QED BY <1>1, <1>3, <1>7, <2>1, Zenon DEF Recent, Open
  <1> QED BY <1>4, <1>6, <1>8, Zenon DEF UniqueInv

\* Channels that stay what they were, or are sent what was planned for them.
LEMMA KindsStill ==
  ASSUME KindsInv, UNCHANGED <<parents, next_channel_id>>, DOMAIN channels' \subseteq Open,
         \A k \in DOMAIN publishing'.plans : publishing'.plans[k].ch < next_channel_id,
         pc' = "refreshing" =>
           /\ refresh'.ch < next_channel_id
           /\ refresh'.ch \in Open => channels[refresh'.ch].kind = "standard",
         \A ch \in DOMAIN channels' :
           /\ channels'[ch].kind = channels[ch].kind
           /\ channels'[ch].seq <= Published
           /\ channels[ch].kind = "extended" => ExtendedOnce(ch)'
  PROVE  KindsInv'
  <1>1. \A ch \in DOMAIN channels' : channels'[ch].kind = "standard" => DOMAIN channels' = {ch}
    BY Zenon DEF KindsInv
  <1>2. pc' = "refreshing" /\ refresh'.ch \in DOMAIN channels' =>
          channels'[refresh'.ch].kind = "standard"
    BY Zenon
  <1> QED BY <1>1, <1>2, Zenon DEF KindsInv, Open, Published

\* What an Extended channel was sent, when that stays the same.
LEMMA ExtendedStill ==
  ASSUME NEW ch \in Open, ExtendedOnce(ch), Alike(channels[ch], channels'[ch]),
         channels[ch].kind = "extended", Waiting(ch)' \subseteq Waiting(ch)
  PROVE  ExtendedOnce(ch)'
  <1>1. Sent(channels'[ch]) = Sent(channels[ch]) /\ channels'[ch].seq = channels[ch].seq
    BY SentFacts, Zenon DEF Alike
  <1>2. ~channels'[ch].fast
    BY Zenon DEF ExtendedOnce, Alike
  <1> QED BY <1>1, <1>2, Zenon DEF ExtendedOnce

\* Steps after which the channels have the same works.
LEMMA SameWorksStep ==
  ASSUME Inv, WorkInv, SameWorks,
         UNCHANGED <<parents, queued, publishing, refresh, next_channel_id,
                     extranonce_counter, setup_complete>>,
         pc' = "refreshing" => pc = "refreshing",
         frames' \in Nat, frames <= frames', frames' <= MaxFrames,
         ticks' \in Nat, ticks <= ticks', ticks' <= MaxTicks
  PROVE  WorkInv'
  <1>1. \A ch \in DOMAIN channels' :
          /\ ch \in Open /\ Alike(channels[ch], channels'[ch])
          /\ channels'[ch].kind = channels[ch].kind /\ channels'[ch].seq = channels[ch].seq
          /\ Sent(channels'[ch]) = Sent(channels[ch])
    BY SentFacts, Zenon DEF SameWorks, Alike
  <1>2. \A ch : Waiting(ch)' = Waiting(ch) /\ Refreshing(ch)' \subseteq Refreshing(ch)
    BY Zenon DEF Waiting, Refreshing
  <1>3. KindsInv'
    <2>1. \A ch \in DOMAIN channels' : channels[ch].kind = "extended" => ExtendedOnce(ch)'
      <3>1. \A ch \in Open : channels[ch].kind = "extended" => ExtendedOnce(ch)
        BY Zenon DEF WorkInv, KindsInv
      <3>2. \A ch : Waiting(ch)' \subseteq Waiting(ch)
        BY <1>2, Zenon
      <3> QED BY <1>1, <3>1, <3>2, ExtendedStill, Zenon
    <2>2. \A ch \in DOMAIN channels' : channels'[ch].seq <= Published
      BY <1>1, Zenon DEF WorkInv, KindsInv
    <2> QED BY <1>1, <2>1, <2>2, KindsStill, Zenon DEF WorkInv, KindsInv, SameWorks
  <1>4. FramesInv'
    <2>1. setup_complete => frames' > 0
      BY DEF Inv, TypeOK, WorkInv, UniqueInv, FramesInv
    <2>2. ~setup_complete => Open' = {} /\ extranonce_counter' = 0
      BY Zenon DEF WorkInv, UniqueInv, FramesInv, SameWorks, Open
    <2> QED BY <2>1, <2>2, Zenon DEF FramesInv
  <1>5. Allotted <= Allotted'
    <2>1. frames \in Nat /\ ticks \in Nat
      BY Zenon DEF Inv, TypeOK
    <2> QED BY <2>1, AllottedGrows, Zenon
  <1>6. \A ch \in DOMAIN channels' : Works(ch)' \subseteq Works(ch)
    BY <1>1, <1>2, Zenon DEF Works
  <1>7. UniqueInv'
    BY <1>1, <1>4, <1>5, <1>6, UniqueShrinks, Zenon DEF WorkInv
  <1> QED BY <1>3, <1>7, Zenon DEF WorkInv

\* The same for a frame.
LEMMA FrameStep ==
  ASSUME Inv, WorkInv, SameWorks, Frame, UNCHANGED ids, UNCHANGED setup_complete
  PROVE  WorkInv'
  <1>1. /\ UNCHANGED <<parents, queued, publishing, refresh, ticks>> /\ pc' = "frames"
        /\ frames' = frames + 1 /\ frames < MaxFrames
        /\ frames' \in Nat /\ ticks' \in Nat
    BY FrameFacts, Zenon
  <1>2. frames <= frames' /\ frames' <= MaxFrames /\ ticks <= ticks' /\ ticks' <= MaxTicks
    <2>1. frames \in Nat /\ ticks \in Nat /\ ticks <= MaxTicks /\ MaxFrames \in Nat
      BY LimitsAssumption, Zenon DEF Inv, TypeOK, WorkInv, UniqueInv, FramesInv
    <2> QED BY <1>1, <2>1
  <1> QED BY <1>1, <1>2, SameWorksStep, Zenon

\* SetupConnection: nothing was allocated before it.
LEMMA SetupUnique ==
  ASSUME Inv, WorkInv, Setup
  PROVE  WorkInv'
  <1>1. Frame /\ UNCHANGED ids /\ channels' = channels /\ ~setup_complete
    BY Zenon DEF Setup
  <1>2. /\ UNCHANGED <<parents, queued, publishing, refresh, ticks>> /\ pc' = "frames"
        /\ frames' = frames + 1 /\ frames < MaxFrames /\ frames' \in Nat /\ ticks' \in Nat
    BY <1>1, FrameFacts, Zenon
  <1>3. Open = {} /\ Open' = {} /\ extranonce_counter = 0 /\ extranonce_counter' = 0
    BY <1>1, Zenon DEF WorkInv, UniqueInv, FramesInv, Open
  <1>4. KindsInv'
    BY <1>1, <1>2, <1>3, Zenon DEF WorkInv, KindsInv
  <1>5. FramesInv'
    <2>0. frames \in Nat /\ ticks <= MaxTicks
      BY Zenon DEF Inv, TypeOK, WorkInv, UniqueInv, FramesInv
    <2>1. frames' <= MaxFrames /\ frames' > 0 /\ ticks' <= MaxTicks
      BY <1>2, <2>0, LimitsAssumption
    <2> QED BY <1>3, <2>1, Zenon DEF FramesInv
  <1>6. StandardDistinct'
    BY <1>3, Zenon DEF StandardDistinct
  <1>7. PICK base \in 0..extranonce_counter' : base = 0
    BY <1>3
  <1>8. extranonce_counter' - base < Allotted'
    <2>1. frames \in Nat
      BY Zenon DEF Inv, TypeOK
    <2> QED BY <1>2, <1>3, <1>7, <2>1, AllottedIs
  <1>9. Recent(base)'
    BY <1>3, <1>8, Zenon DEF Recent
  <1> QED BY <1>4, <1>5, <1>6, <1>7, <1>9, Zenon DEF WorkInv, UniqueInv

\* The other steps that leave the works alone.
LEMMA QuietUnique ==
  ASSUME Inv, WorkInv,
         Unexpected \/ CloseChannel \/ MaybeRetarget \/ EndBatch \/ SubmitShare \/ Validate
         \/ FinishShare \/ UNCHANGED vars
  PROVE  WorkInv'
  <1>1. CASE Unexpected
    <2>1. Frame /\ UNCHANGED ids /\ channels' = channels /\ UNCHANGED setup_complete
      BY <1>1, Zenon DEF Unexpected
    <2> QED BY <2>1, UnchangedWorks, FrameStep, Zenon
  <1>2. CASE CloseChannel
    BY <1>2, CloseChannelWorks, FrameStep, Zenon
  <1>3. /\ frames \in Nat /\ ticks \in Nat /\ frames <= MaxFrames /\ ticks <= MaxTicks
        /\ MaxTicks \in Nat /\ frames <= frames
    BY LimitsAssumption DEF Inv, TypeOK, WorkInv, UniqueInv, FramesInv
  <1>4. CASE MaybeRetarget
    <2>1. /\ UNCHANGED <<parents, queued, publishing, refresh, next_channel_id,
                         extranonce_counter, setup_complete, pc, frames>>
          /\ ticks' = ticks + 1 /\ ticks < MaxTicks
      BY <1>4, Zenon DEF MaybeRetarget
    <2>2. ticks' \in Nat /\ ticks <= ticks' /\ ticks' <= MaxTicks
      BY <1>3, <2>1
    <2> QED BY <1>3, <1>4, <2>1, <2>2, MaybeRetargetWorks, SameWorksStep, Zenon
  <1>5. ASSUME SameWorks,
               UNCHANGED <<parents, queued, publishing, refresh, next_channel_id,
                           extranonce_counter, setup_complete, frames, ticks>>,
               pc' = "refreshing" => pc = "refreshing"
        PROVE  WorkInv'
    <2>1. ticks <= ticks
      BY <1>3
    <2> QED BY <1>3, <1>5, <2>1, SameWorksStep, Zenon
  <1>6. CASE EndBatch
    <2>1. /\ UNCHANGED <<parents, queued, publishing, refresh, next_channel_id,
                         extranonce_counter, setup_complete, frames, ticks>>
          /\ channels' = channels /\ pc' = "idle"
      BY <1>6, Zenon DEF EndBatch
    <2> QED BY <1>5, <2>1, UnchangedWorks, Zenon
  <1>7. CASE SubmitShare
    <2>1. UNCHANGED <<parents, queued, publishing, refresh, next_channel_id,
                      extranonce_counter, setup_complete, frames, ticks>>
      BY <1>7, Zenon DEF SubmitShare
    <2>2. SameWorks /\ pc' # "refreshing"
      BY <1>7, SubmitShareCases, Zenon
    <2> QED BY <1>5, <2>1, <2>2, Zenon
  <1>8. CASE Validate
    <2>1. UNCHANGED <<parents, queued, publishing, refresh, next_channel_id,
                      extranonce_counter, setup_complete, frames, ticks, channels>>
      BY <1>8, Zenon DEF Validate
    <2>2. pc' \in {"accepted", "rejected"}
      BY <1>8, Zenon DEF Validate
    <2> QED BY <1>5, <2>1, <2>2, UnchangedWorks, Zenon
  <1>9. CASE FinishShare
    <2>1. /\ UNCHANGED <<parents, queued, publishing, refresh, next_channel_id,
                         extranonce_counter, setup_complete, frames, ticks>>
          /\ pc' = "frames"
      BY <1>9, Zenon DEF FinishShare
    <2> QED BY <1>5, <1>9, <2>1, FinishShareWorks, Zenon
  <1>10. CASE UNCHANGED vars
    <2>1. UNCHANGED <<parents, queued, publishing, refresh, next_channel_id,
                      extranonce_counter, setup_complete, frames, ticks, channels, pc>>
      BY <1>10, Zenon DEF vars
    <2> QED BY <1>5, <2>1, UnchangedWorks, Zenon
  <1> QED BY <1>1, <1>2, <1>4, <1>6, <1>7, <1>8, <1>9, <1>10, Zenon

\* A plan committed on an open channel, the sequence number noted.
LEMMA CommitAdvances ==
  ASSUME Inv, NEW ch \in Open, NEW plan \in Plans, NEW d,
         IsCommitted(d, channels[ch], plan),
         channels' = [channels EXCEPT ![ch] = Advanced(d, plan.job)]
  PROVE  /\ DOMAIN channels' = Open
         /\ \A c \in Open : /\ c # ch => channels'[c] = channels[c]
                            /\ channels'[c].kind = channels[c].kind
         /\ channels'[ch].fast = channels[ch].fast /\ channels'[ch].seq = plan.job
         /\ Sent(channels'[ch]) \subseteq Sent(channels[ch]) \cup {Issue(plan)}
  <1>1. channels \in [Open -> Channels] /\ plan.job \in Nat
    BY Zenon DEF Inv, TypeOK, Plans
  <1>2. d \in Channels /\ d.kind = channels[ch].kind /\ d.fast = channels[ch].fast
    BY Zenon DEF IsCommitted
  <1>3. /\ Advanced(d, plan.job).kind = d.kind /\ Advanced(d, plan.job).fast = d.fast
        /\ Advanced(d, plan.job).seq = plan.job /\ Advanced(d, plan.job).jobs = d.jobs
    BY <1>1, <1>2, AdvancedSound, Zenon
  <1>4. /\ DOMAIN channels' = Open
        /\ \A c \in Open : channels'[c] = IF c = ch THEN Advanced(d, plan.job) ELSE channels[c]
    BY <1>1, Zenon
  <1>5. Sent(channels'[ch]) = Sent(d)
    BY <1>3, <1>4, Zenon DEF Sent
  <1>6. Sent(d) \subseteq Sent(channels[ch]) \cup {Issue(plan)}
    BY SentFacts, Zenon
  <1> QED BY <1>2, <1>3, <1>4, <1>5, <1>6, Zenon

\* The plans that are left are some of those there were.
LEMMA PlansLeft ==
  ASSUME Inv, PublishCommit
  PROVE  /\ \A k \in DOMAIN publishing'.plans : \E j \in DOMAIN publishing.plans :
              publishing'.plans[k] = publishing.plans[j]
         /\ \E j \in DOMAIN publishing.plans : Head(publishing.plans) = publishing.plans[j]
  <1>1. publishing \in [clean : BOOLEAN, plans : Seq(Plans)] /\ publishing.plans # <<>>
    BY Zenon DEF Inv, TypeOK, PublishCommit
  <1>2. publishing' = NoPublication \/ publishing' = [publishing EXCEPT !.plans = Tail(@)]
    BY PublishCommitCases, Zenon
  <1>3. Head(publishing.plans) = publishing.plans[1] /\ 1 \in DOMAIN publishing.plans
    BY <1>1
  <1>4. CASE publishing' = NoPublication
    BY <1>3, <1>4 DEF NoPublication
  <1>5. CASE publishing' = [publishing EXCEPT !.plans = Tail(@)]
    <2>1. publishing'.plans = Tail(publishing.plans)
      BY <1>1, <1>5, Zenon
    <2>2. \A k \in DOMAIN Tail(publishing.plans) :
            /\ k + 1 \in DOMAIN publishing.plans
            /\ Tail(publishing.plans)[k] = publishing.plans[k + 1]
      BY <1>1
    <2> QED BY <1>3, <2>1, <2>2, Zenon
  <1> QED BY <1>2, <1>4, <1>5, Zenon

\* publish_job, a later region: what is sent was planned.
LEMMA PublishCommitUnique ==
  ASSUME Inv, WorkInv, PublishCommit
  PROVE  WorkInv'
  <1> DEFINE plan == Head(publishing.plans)
  <1>1. UNCHANGED <<parents, queued, next_channel_id, extranonce_counter, refresh, pc,
                    setup_complete, frames, ticks>>
    BY Zenon DEF PublishCommit
  <1>2. \A c : Waiting(c)' \subseteq Waiting(c) /\ Refreshing(c)' = Refreshing(c)
    BY <1>1, PlansLeft, Zenon DEF Waiting, Refreshing
  <1>3. Issue(plan) \in Waiting(plan.ch)
    BY PlansLeft, Zenon DEF Waiting
  <1>4. plan \in Plans /\ plan.job \in 1..Published /\ Issue(plan)[2] = plan.job
    BY PublishCommitCases, Zenon DEF Issue
  <1>5. frames \in Nat /\ ticks \in Nat /\ FramesInv
    BY Zenon DEF Inv, TypeOK, WorkInv, UniqueInv
  <1>6. Allotted <= Allotted'
    <2>1. frames <= frames /\ ticks <= ticks
      BY <1>5
    <2> QED BY <1>1, <1>5, <2>1, AllottedGrows, Zenon
  <1>7. \A k \in DOMAIN publishing'.plans : publishing'.plans[k].ch < next_channel_id
    BY PlansLeft, Zenon DEF WorkInv, KindsInv
  <1> HIDE DEF plan
  <1>8. ASSUME DOMAIN channels' = Open,
               \A c \in Open : channels'[c].kind = channels[c].kind,
               \A c \in Open : channels'[c].seq <= Published,
               \A c \in Open : channels[c].kind = "extended" => ExtendedOnce(c)',
               \A c \in Open : Works(c)' \subseteq Works(c)
        PROVE  WorkInv'
    <2>1. KindsInv'
      BY <1>1, <1>7, <1>8, KindsStill, Zenon DEF WorkInv, KindsInv
    <2>2. FramesInv'
      BY <1>1, <1>5, <1>8, Zenon DEF FramesInv, Open
    <2>3. UniqueInv'
      BY <1>1, <1>5, <1>6, <1>8, <2>2, UniqueShrinks, Zenon DEF WorkInv
    <2> QED BY <2>1, <2>3, Zenon DEF WorkInv
  <1>9. CASE channels' = channels
    <2>1. \A c \in Open : channels[c].seq <= Published
      BY Zenon DEF WorkInv, KindsInv
    <2>2. \A c \in Open : channels[c].kind = "extended" => ExtendedOnce(c)'
      BY <1>2, <1>9, Zenon DEF WorkInv, KindsInv, ExtendedOnce
    <2>3. \A c \in Open : Works(c)' \subseteq Works(c)
      BY <1>2, <1>9, Zenon DEF Works
    <2> QED BY <1>8, <1>9, <2>1, <2>2, <2>3, Zenon DEF Open
  <1>10. CASE /\ plan.ch \in Open /\ channels[plan.ch].seq < plan.job
              /\ \E d : /\ IsCommitted(d, channels[plan.ch], plan)
                        /\ channels' = [channels EXCEPT ![plan.ch] = Advanced(d, plan.job)]
    <2>1. /\ DOMAIN channels' = Open
          /\ \A c \in Open : /\ c # plan.ch => channels'[c] = channels[c]
                             /\ channels'[c].kind = channels[c].kind
          /\ channels'[plan.ch].fast = channels[plan.ch].fast
          /\ channels'[plan.ch].seq = plan.job
          /\ Sent(channels'[plan.ch]) \subseteq Sent(channels[plan.ch]) \cup {Issue(plan)}
      BY <1>4, <1>10, CommitAdvances, Zenon
    <2>2. \A c \in Open : channels'[c].seq <= Published
      <3>1. \A c \in Open : channels[c].seq <= Published
        BY Zenon DEF WorkInv, KindsInv
      <3>2. plan.job <= Published
        BY <1>4 DEF Inv, TypeOK, Published
      <3> QED BY <2>1, <3>1, <3>2, Zenon
    <2>3. \A c \in Open : Works(c)' \subseteq Works(c)
      BY <1>2, <1>3, <2>1, Zenon DEF Works
    <2>4. \A c \in Open : channels[c].kind = "extended" => ExtendedOnce(c)'
      <3> SUFFICES ASSUME NEW c \in Open, channels[c].kind = "extended"
                   PROVE  ExtendedOnce(c)'
        BY Zenon
      <3>1. ExtendedOnce(c)
        BY Zenon DEF WorkInv, KindsInv
      <3>2. CASE c # plan.ch
        BY <1>2, <2>1, <3>1, <3>2, Zenon DEF ExtendedOnce
      <3>3. CASE c = plan.ch
        <4>1. /\ \A x \in Sent(channels[c]) : x[2] \in Nat /\ x[2] <= channels[c].seq
              /\ channels[c].seq \in Nat /\ plan.job \in Nat
          <5>1. channels[c] \in Channels /\ Sound(channels[c])
            BY OpenChannels, Zenon
          <5>2. \A x \in Sent(channels[c]) : x[2] \in 1..Published
            BY <5>1, SentFacts, Zenon
          <5>3. channels[c].seq \in Nat /\ plan.job \in Nat
            BY <1>4, <5>1 DEF Channels
          <5> QED BY <3>1, <5>2, <5>3 DEF ExtendedOnce
        <4>2. \A x \in Sent(channels[c]) : x[2] # plan.job /\ x[2] <= plan.job
          BY <1>10, <3>3, <4>1
        <4>3. plan.job <= plan.job
          BY <4>1
        <4>4. \A x \in Sent(channels'[c]) : x \in Sent(channels[c]) \/ x = Issue(plan)
          BY <2>1, <3>3, Zenon
        <4>5. Issue(plan)[3] = c
          BY <1>3, <3>1, <3>3, Zenon DEF ExtendedOnce
        <4>6. Distinct(Sent(channels'[c]))
          BY <1>4, <3>1, <4>2, <4>4, Zenon DEF Distinct, ExtendedOnce
        <4>7. \A x \in Sent(channels'[c]) : x[3] = c /\ x[2] <= channels'[c].seq
          BY <1>4, <2>1, <3>1, <3>3, <4>2, <4>3, <4>4, <4>5, Zenon DEF ExtendedOnce
        <4> QED BY <1>2, <2>1, <3>1, <3>3, <4>6, <4>7, Zenon DEF ExtendedOnce
      <3> QED BY <3>2, <3>3, Zenon
    <2> QED BY <1>8, <2>1, <2>2, <2>3, <2>4, Zenon
  <1> QED BY <1>9, <1>10, PublishCommitCases, Zenon DEF plan

\* broadcast_job: the channels and what is planned for them stay as they are.
LEMMA PublishWork ==
  ASSUME Inv, WorkInv, Publish
  PROVE  WorkInv'
  <1>1. /\ UNCHANGED <<channels, publishing, refresh, pc, next_channel_id>>
        /\ \E parent \in Parents : parents' = Append(parents, parent)
    BY Zenon DEF Publish
  <1>2. Published \in Nat /\ Published' = Published + 1
    BY <1>1 DEF Inv, TypeOK, Published, Parents
  <1>3. \A ch \in Open : channels[ch].seq <= Published'
    <2>1. \A ch \in Open : channels[ch].seq \in Nat /\ channels[ch].seq <= Published
      BY Zenon DEF Inv, TypeOK, Channels, WorkInv, KindsInv
    <2> QED BY <1>2, <2>1
  <1>4. \A ch \in Open : ExtendedOnce(ch) => ExtendedOnce(ch)'
    BY <1>1, Zenon DEF ExtendedOnce, Waiting
  <1>5. KindsInv'
    BY <1>1, <1>3, <1>4, Zenon DEF WorkInv, KindsInv, Open
  <1> QED BY <1>5, PublishUnique, Zenon DEF WorkInv

\* maybe_refresh_job, the later region: what is sent was planned.
LEMMA RefreshCommitUnique ==
  ASSUME Inv, WorkInv, RefreshCommit
  PROVE  WorkInv'
  <1>1. /\ UNCHANGED <<parents, queued, next_channel_id, extranonce_counter, publishing,
                       setup_complete, frames, ticks>>
        /\ pc = "refreshing" /\ pc' = "idle"
    BY Zenon DEF RefreshCommit
  <1>2. \A c : Waiting(c)' = Waiting(c)
    BY <1>1, Zenon DEF Waiting
  <1>3. \A c : Refreshing(c)' = {}
    <2>1. pc' # "refreshing"
      BY <1>1, Zenon
    <2> QED BY <2>1, Zenon DEF Refreshing
  <1>4. Issue(refresh) \in Refreshing(refresh.ch)
    BY <1>1, Zenon DEF Refreshing
  <1>5. frames \in Nat /\ ticks \in Nat /\ FramesInv
    BY Zenon DEF Inv, TypeOK, WorkInv, UniqueInv
  <1>6. Allotted <= Allotted'
    <2>1. frames <= frames /\ ticks <= ticks
      BY <1>5
    <2> QED BY <1>1, <1>5, <2>1, AllottedGrows, Zenon
  <1>7. ASSUME DOMAIN channels' = Open,
               \A c \in Open : channels'[c].kind = channels[c].kind,
               \A c \in Open : channels'[c].seq <= Published,
               \A c \in Open : channels[c].kind = "extended" => ExtendedOnce(c)',
               \A c \in Open : Works(c)' \subseteq Works(c)
        PROVE  WorkInv'
    <2>0. pc' # "refreshing"
      BY <1>1, Zenon
    <2>1. KindsInv'
      BY <1>1, <1>7, <2>0, KindsStill, Zenon DEF WorkInv, KindsInv
    <2>2. FramesInv'
      BY <1>1, <1>5, <1>7, Zenon DEF FramesInv, Open
    <2>3. UniqueInv'
      BY <1>1, <1>5, <1>6, <1>7, <2>2, UniqueShrinks, Zenon DEF WorkInv
    <2> QED BY <2>1, <2>3, Zenon DEF WorkInv
  <1>8. \A c \in Open : channels[c].kind = "extended" /\ channels'[c] = channels[c]
                        => ExtendedOnce(c)'
    BY <1>2, Zenon DEF WorkInv, KindsInv, ExtendedOnce
  <1>9. \A c \in Open : channels[c].seq <= Published
    BY Zenon DEF WorkInv, KindsInv
  <1>10. CASE channels' = channels
    <2>1. \A c \in Open : Works(c)' \subseteq Works(c)
      BY <1>2, <1>3, <1>10, Zenon DEF Works
    <2> QED BY <1>7, <1>8, <1>9, <1>10, <2>1, Zenon DEF Open
  <1>11. CASE /\ refresh.ch \in Open
              /\ \E d : /\ IsCommitted(d, channels[refresh.ch], refresh)
                        /\ channels' = [channels EXCEPT ![refresh.ch] = Advanced(d, refresh.job)]
    <2>1. /\ DOMAIN channels' = Open
          /\ \A c \in Open : /\ c # refresh.ch => channels'[c] = channels[c]
                             /\ channels'[c].kind = channels[c].kind
          /\ channels'[refresh.ch].seq = refresh.job
          /\ Sent(channels'[refresh.ch]) \subseteq Sent(channels[refresh.ch]) \cup {Issue(refresh)}
      BY <1>11, RefreshCommitCases, CommitAdvances, Zenon
    <2>2. refresh.job <= Published
      BY RefreshCommitCases DEF Inv, TypeOK, Published
    <2>3. \A c \in Open : channels'[c].seq <= Published
      BY <1>9, <2>1, <2>2, Zenon
    <2>4. \A c \in Open : Works(c)' \subseteq Works(c)
      BY <1>2, <1>3, <1>4, <2>1, Zenon DEF Works
    <2>5. channels[refresh.ch].kind = "standard"
      BY <1>1, <1>11, Zenon DEF WorkInv, KindsInv
    <2>6. channels[refresh.ch].kind # "extended"
      BY <2>5, Zenon
    <2>7. \A c \in Open : channels[c].kind = "extended" => ExtendedOnce(c)'
      BY <1>8, <2>1, <2>6, Zenon
    <2> QED BY <1>7, <2>1, <2>3, <2>4, <2>7, Zenon
  <1> QED BY <1>10, <1>11, RefreshCommitCases, Zenon

\* maybe_refresh_job, the first region: the newest job with a new prefix.
LEMMA RefreshPrepareUnique ==
  ASSUME PrefixSpace >= MaxFrames + MaxTicks, Inv, WorkInv, RefreshPrepare
  PROVE  WorkInv'
  <1>1. PICK ch \in Open : /\ channels[ch].kind = "standard"
                           /\ refresh' = Plan(ch, Published, "standard", FALSE, 1)
    BY Zenon DEF RefreshPrepare
  <1>2. /\ extranonce_counter' = extranonce_counter + 1
        /\ ticks' = ticks + 1 /\ ticks < MaxTicks /\ pc = "idle"
        /\ UNCHANGED <<parents, queued, next_channel_id, publishing, channels,
                       setup_complete, frames>>
    BY Zenon DEF RefreshPrepare
  <1>3. TypeOK /\ Published \in Nat /\ 1 \in Nat \ {0} /\ ch \in Nat
    BY OpenChannels DEF Inv, TypeOK, Published
  <1>4. IsPlan(refresh', ch, Published, "standard", 1)
    BY <1>1, <1>3, PlanType, Zenon
  <1>5. /\ refresh'.ch = ch /\ Issue(refresh')[2] = Published
        /\ Issue(refresh')[3] = Prefix(extranonce_counter + 1)
    <2>1. /\ refresh'.ch = ch /\ refresh'.job = Published
          /\ refresh'.prefix = Prefix(extranonce_counter + 1)
      BY <1>4, Zenon DEF IsPlan
    <2> QED BY <2>1, Zenon DEF Issue
  <1>6. \A c : Waiting(c)' = Waiting(c) /\ Refreshing(c)' \subseteq {Issue(refresh')}
    BY <1>2, Zenon DEF Waiting, Refreshing
  <1>7. \A c \in Open : \A x \in Works(c)' : x = Issue(refresh') \/ x \in Works(c)
    BY <1>2, <1>6, Zenon DEF Works
  <1>8. /\ frames \in Nat /\ ticks \in Nat /\ ticks' \in Nat /\ ticks' <= MaxTicks
        /\ frames + ticks < frames + ticks' /\ frames <= frames /\ ticks <= ticks'
    BY <1>2, <1>3, LimitsAssumption DEF TypeOK
  <1>9. setup_complete
    BY Zenon DEF WorkInv, UniqueInv, FramesInv
  <1>10. FramesInv'
    BY <1>2, <1>8, <1>9, Zenon DEF WorkInv, UniqueInv, FramesInv, Open
  <1>11. Allotted < Allotted'
    BY <1>2, <1>8, AllottedGrows, Zenon
  <1>12. UniqueInv'
    BY <1>2, <1>5, <1>7, <1>8, <1>9, <1>10, <1>11, UniqueGrows, Zenon DEF WorkInv, Open
  <1>13. ch < next_channel_id
    BY <1>3 DEF TypeOK
  <1>14. \A c \in Open : channels[c].kind = "extended" => ExtendedOnce(c)'
    BY <1>2, <1>6, Zenon DEF WorkInv, KindsInv, ExtendedOnce
  <1>15. KindsInv'
    BY <1>1, <1>2, <1>5, <1>13, <1>14, KindsStill, Zenon DEF WorkInv, KindsInv, Open
  <1> QED BY <1>12, <1>15, Zenon DEF WorkInv

\* A frame that issues a job: what is waiting stays, and one prefix is allowed more.
LEMMA FrameAllots ==
  ASSUME Inv, WorkInv, Frame, setup_complete, UNCHANGED setup_complete
  PROVE  /\ UNCHANGED <<parents, queued, publishing, ticks>> /\ pc' = "frames"
         /\ frames' \in Nat /\ ticks' \in Nat /\ FramesInv' /\ Allotted < Allotted'
         /\ \A c : Waiting(c)' = Waiting(c) /\ Refreshing(c)' = {}
  <1>1. /\ UNCHANGED <<parents, queued, publishing, ticks>> /\ pc' = "frames"
        /\ frames' = frames + 1 /\ frames < MaxFrames /\ frames' \in Nat /\ ticks' \in Nat
    BY FrameFacts, Zenon
  <1>2. /\ frames \in Nat /\ ticks \in Nat /\ frames' <= MaxFrames /\ frames' > 0
        /\ frames + ticks < frames' + ticks' /\ frames <= frames' /\ ticks <= ticks'
    <2>1. frames \in Nat /\ ticks \in Nat
      BY Zenon DEF Inv, TypeOK
    <2> QED BY <1>1, <2>1, LimitsAssumption
  <1>3. FramesInv'
    BY <1>1, <1>2, Zenon DEF WorkInv, UniqueInv, FramesInv
  <1>4. Allotted < Allotted'
    BY <1>1, <1>2, AllottedGrows, Zenon
  <1>5. pc' # "refreshing"
    BY <1>1, Zenon
  <1> QED BY <1>1, <1>3, <1>4, <1>5, Zenon DEF Waiting, Refreshing

\* handle_update_locked: a device that has become fast gets the newest job with a
\* new prefix.
LEMMA UpdateUnique ==
  ASSUME PrefixSpace >= MaxFrames + MaxTicks, Inv, WorkInv, UpdateChannel
  PROVE  WorkInv'
  <1>1. Frame /\ setup_complete /\ UNCHANGED setup_complete
    BY UpdateChannelWorks, Zenon
  <1>2. CASE SameWorks /\ UNCHANGED ids
    BY <1>1, <1>2, FrameStep, Zenon
  <1>3. CASE UpdateIssues
    <2>1. PICK ch \in Open, c \in Channels, d \in Channels, plan \in Plans :
            /\ Alike(channels[ch], c) /\ c.kind = "standard"
            /\ IsPlan(plan, ch, Published, "standard", 1)
            /\ IsCommitted(d, c, plan)
            /\ channels' = [channels EXCEPT ![ch] = d]
            /\ extranonce_counter' = extranonce_counter + 1
            /\ next_channel_id' = next_channel_id
      BY <1>3, Zenon DEF UpdateIssues
    <2>2. /\ UNCHANGED <<parents, queued, publishing, ticks>> /\ pc' = "frames"
          /\ frames' \in Nat /\ ticks' \in Nat /\ FramesInv' /\ Allotted < Allotted'
          /\ \A e : Waiting(e)' = Waiting(e) /\ Refreshing(e)' = {}
      BY <1>1, FrameAllots, Zenon
    <2>3. Issue(plan)[2] = Published /\ Issue(plan)[3] = Prefix(extranonce_counter + 1)
      <3>1. plan.job = Published /\ plan.prefix = Prefix(extranonce_counter + 1)
        BY <2>1, Zenon DEF IsPlan
      <3> QED BY <3>1, Zenon DEF Issue
    <2>4. /\ DOMAIN channels' = Open
          /\ \A e \in Open : channels'[e] = IF e = ch THEN d ELSE channels[e]
      BY <2>1, Zenon DEF Inv, TypeOK
    <2>5. /\ d.kind = "standard" /\ channels[ch].kind = "standard"
          /\ d.seq = channels[ch].seq /\ Sent(d) \subseteq Sent(channels[ch]) \cup {Issue(plan)}
      <3>1. Sent(c) = Sent(channels[ch]) /\ Sent(d) \subseteq Sent(c) \cup {Issue(plan)}
        BY <2>1, SentFacts, Zenon
      <3> QED BY <2>1, <3>1, Zenon DEF Alike, IsCommitted
    <2>6. \A e \in Open : channels'[e].kind = "standard" =>
            /\ channels[e].kind = "standard"
            /\ \A x \in Works(e)' : x = Issue(plan) \/ x \in Works(e)
      BY <2>2, <2>4, <2>5, Zenon DEF Works
    <2>7. UniqueInv'
      BY <1>1, <2>1, <2>2, <2>3, <2>4, <2>6, UniqueGrows, Zenon DEF WorkInv
    <2>8. "standard" # "extended" /\ pc' # "refreshing"
      BY <2>2, Zenon
    <2>9. \A e \in Open : channels[e].kind = "extended" => ExtendedOnce(e)'
      BY <2>2, <2>4, <2>5, <2>8, Zenon DEF WorkInv, KindsInv, ExtendedOnce
    <2>10. \A e \in Open : channels'[e].kind = channels[e].kind /\ channels'[e].seq <= Published
      BY <2>4, <2>5, Zenon DEF WorkInv, KindsInv
    <2>11. KindsInv'
      BY <2>1, <2>2, <2>4, <2>8, <2>9, <2>10, KindsStill, Zenon DEF WorkInv, KindsInv
    <2> QED BY <2>7, <2>11, Zenon DEF WorkInv
  <1> QED BY <1>2, <1>3, UpdateChannelWorks, Zenon

\* open_channel_locked: the newest job is the new channel's first.
LEMMA OpenUnique ==
  ASSUME PrefixSpace >= MaxFrames + MaxTicks, Inv, WorkInv, OpenChannel
  PROVE  WorkInv'
  <1>1. Frame /\ setup_complete /\ UNCHANGED setup_complete
    BY OpenChannelWorks, Zenon
  <1>2. CASE SameWorks /\ UNCHANGED ids
    BY <1>1, <1>2, FrameStep, Zenon
  <1>3. CASE OpenIssues
    <2>0. PICK n \in Nat : n = next_channel_id
      BY Zenon DEF Inv, TypeOK
    <2>1. PICK c \in Channels, d \in Channels, plan \in Plans :
            /\ c.jobs = <<>> /\ c.seq = Published /\ (c.kind = "extended" => ~c.fast)
            /\ c.kind = "standard" => Open = {}
            /\ c.kind = "extended" => \A e \in Open : channels[e].kind # "standard"
            /\ IsPlan(plan, n, Published, c.kind, 1)
            /\ IsCommitted(d, c, plan)
            /\ channels' = [e \in Open \cup {n} |-> IF e = n THEN d ELSE channels[e]]
            /\ next_channel_id' = n + 1
            /\ extranonce_counter' = IF c.kind = "standard" THEN extranonce_counter + 1
                                     ELSE extranonce_counter
      BY <1>3, <2>0, Zenon DEF OpenIssues
    <2>2. /\ UNCHANGED <<parents, queued, publishing, ticks>> /\ pc' = "frames"
          /\ frames' \in Nat /\ ticks' \in Nat /\ FramesInv' /\ Allotted < Allotted'
          /\ \A e : Waiting(e)' = Waiting(e) /\ Refreshing(e)' = {}
      BY <1>1, FrameAllots, Zenon
    <2>3. /\ n \in Nat /\ n \notin Open /\ Published \in Nat /\ pc' # "refreshing"
          /\ c.kind \in {"standard", "extended"} /\ Published <= Published
      <3>1. parents \in Seq(Nat) /\ Open \subseteq 1..(n - 1)
        BY <2>0, Zenon DEF Inv, TypeOK
      <3>2. n \notin Open /\ Published \in Nat /\ Published <= Published
        BY <3>1 DEF Published
      <3>3. c.kind \in {"standard", "extended"}
        BY DEF Channels
      <3>4. pc' # "refreshing"
        BY <2>2
      <3> QED BY <3>2, <3>3, <3>4, Zenon
    <2>4. /\ DOMAIN channels' = Open \cup {n} /\ channels'[n] = d
          /\ \A e \in Open : channels'[e] = channels[e]
      BY <2>1, <2>3, Zenon
    <2>5. /\ d.kind = c.kind /\ d.fast = c.fast /\ d.seq = Published
          /\ \A x \in Sent(d) : x = Issue(plan)
      <3>1. Sent(c) = {}
        BY <2>1 DEF Sent
      <3> QED BY <2>1, <3>1, SentFacts, Zenon DEF IsCommitted
    <2>6. /\ Issue(plan)[2] = Published
          /\ c.kind = "standard" => Issue(plan)[3] = Prefix(extranonce_counter + 1)
          /\ c.kind = "extended" => Issue(plan)[3] = n
      <3>1. /\ plan.job = Published
            /\ c.kind = "standard" => plan.prefix = Prefix(extranonce_counter + 1)
            /\ c.kind = "extended" => plan.prefix = n
        BY <2>1, Zenon DEF IsPlan
      <3> QED BY <3>1, Zenon DEF Issue
    <2>7. Waiting(n) = {}
      <3>1. \A k \in DOMAIN publishing.plans : publishing.plans[k].ch < n
        BY <2>0, Zenon DEF WorkInv, KindsInv
      <3>2. ~(n < n)
        BY <2>3
      <3> QED BY <3>1, <3>2, Zenon DEF Waiting
    <2>8. \A k \in DOMAIN publishing'.plans : publishing'.plans[k].ch < next_channel_id'
      <3>1. \A k \in DOMAIN publishing.plans :
              publishing.plans[k].ch \in Nat /\ publishing.plans[k].ch < n
        <4>1. publishing.plans \in Seq(Plans)
          BY Zenon DEF Inv, TypeOK
        <4>2. \A k \in DOMAIN publishing.plans : publishing.plans[k] \in Plans
          BY <4>1
        <4>3. \A p \in Plans : p.ch \in Nat
          BY Zenon DEF Plans
        <4> QED BY <2>0, <4>2, <4>3, Zenon DEF WorkInv, KindsInv
      <3>2. \A p \in Nat : p < n => p < n + 1
        OBVIOUS
      <3> QED BY <2>1, <2>2, <3>1, <3>2, Zenon
    <2>9. CASE c.kind = "standard"
      <3>1. Open = {} /\ extranonce_counter' = extranonce_counter + 1
        BY <2>1, <2>9, Zenon
      <3>2. DOMAIN channels' = {n} /\ d.kind # "extended"
        BY <2>4, <2>5, <2>9, <3>1, Zenon
      <3>3. \A x \in Works(n)' : x = Issue(plan)
        BY <2>2, <2>4, <2>5, <2>7, Zenon DEF Works
      <3>4. UniqueInv'
        BY <1>1, <2>2, <2>6, <2>9, <3>1, <3>2, <3>3, UniqueGrows, Zenon DEF WorkInv
      <3>5. d.seq <= Published'
        BY <2>2, <2>3, <2>5, Zenon DEF Published
      <3>6. KindsInv'
        BY <2>3, <2>4, <2>8, <3>2, <3>5, Zenon DEF KindsInv, Open
      <3> QED BY <3>4, <3>6, Zenon DEF WorkInv
    <2>10. CASE c.kind = "extended"
      <3>1. /\ \A e \in Open : channels[e].kind # "standard" /\ c.kind # "standard"
            /\ d.kind # "standard"
        BY <2>1, <2>5, <2>10, Zenon
      <3>2. \A e \in DOMAIN channels' : channels'[e].kind # "standard"
        BY <2>4, <3>1, Zenon
      <3>3. extranonce_counter' = extranonce_counter
        BY <2>1, <2>10, Zenon
      <3>4. Allotted <= Allotted'
        <4>1. frames \in Nat /\ ticks \in Nat
          BY Zenon DEF Inv, TypeOK
        <4>2. Allotted \in Nat /\ Allotted' \in Nat
          BY <2>2, <4>1, AllottedIs
        <4> QED BY <2>2, <4>2
      <3>5. UniqueInv'
        BY <1>1, <2>2, <3>2, <3>3, <3>4, UniqueShrinks, Zenon DEF WorkInv
      <3>6. ExtendedOnce(n)'
        <4>1. Distinct(Sent(d))
          BY <2>5, Zenon DEF Distinct
        <4>2. \A x \in Sent(d) : x[3] = n /\ x[2] <= d.seq
          BY <2>3, <2>5, <2>6, <2>10, Zenon
        <4>3. \A x \in Waiting(n)' : x[3] = n
          BY <2>2, <2>7, Zenon
        <4>4. ~d.fast
          BY <2>1, <2>5, <2>10, Zenon
        <4> QED BY <2>4, <4>1, <4>2, <4>3, <4>4, Zenon DEF ExtendedOnce
      <3>7. \A e \in Open : ExtendedOnce(e) => ExtendedOnce(e)'
        BY <2>2, <2>4, Zenon DEF ExtendedOnce
      <3>8. \A e \in DOMAIN channels' : channels'[e].seq <= Published'
        BY <2>2, <2>3, <2>4, <2>5, Zenon DEF WorkInv, KindsInv, Published
      <3>9. \A e \in DOMAIN channels' : channels'[e].kind = "extended" => ExtendedOnce(e)'
        BY <2>4, <3>6, <3>7, Zenon DEF WorkInv, KindsInv
      <3>10. KindsInv'
        BY <2>3, <2>8, <3>2, <3>8, <3>9, Zenon DEF KindsInv, Open
      <3> QED BY <3>5, <3>10, Zenon DEF WorkInv
    <2> QED BY <2>3, <2>9, <2>10, Zenon
  <1> QED BY <1>2, <1>3, OpenChannelWorks, Zenon

\* publish_job, the first region: a channel that is alone is planned the newest job
\* once, with a new prefix.
LEMMA PublishPrepareUnique ==
  ASSUME PrefixSpace >= MaxFrames + MaxTicks, Inv, WorkInv, PublishPrepare
  PROVE  WorkInv'
  <1>1. /\ queued # None /\ queued' = None
        /\ UNCHANGED <<parents, channels, next_channel_id, pc, refresh, setup_complete,
                       frames, ticks>>
    BY Zenon DEF PublishPrepare
  <1>2. publishing'.plans \in Seq(Plans)
    BY PublishPlans, Zenon
  <1>3. /\ frames \in Nat /\ ticks \in Nat /\ extranonce_counter \in Nat
        /\ frames <= frames /\ ticks <= ticks
    BY DEF Inv, TypeOK
  <1>4. Allotted <= Allotted' /\ Allotted < Allotted'
    BY <1>1, <1>3, AllottedGrows, Zenon
  <1>5. \A k \in DOMAIN publishing'.plans : \E ch \in Open :
          IsPlan(publishing'.plans[k], ch, Published, channels[ch].kind, k)
    BY PublishPlans, Zenon
  <1>6. \A ch : Refreshing(ch)' = Refreshing(ch)
    BY <1>1, Zenon DEF Refreshing
  <1>7. KindsInv'
    <2>1. \A ch \in Open : ch < next_channel_id
      BY DEF Inv, TypeOK
    <2>2. \A k \in DOMAIN publishing'.plans : publishing'.plans[k].ch < next_channel_id
      BY <1>5, <2>1, Zenon DEF IsPlan
    <2>3. \A ch \in Open : channels[ch].kind = "extended" => \A x \in Waiting(ch)' : x[3] = ch
      <3> SUFFICES ASSUME NEW ch \in Open, channels[ch].kind = "extended",
                          NEW k \in DOMAIN publishing'.plans, publishing'.plans[k].ch = ch
                   PROVE  Issue(publishing'.plans[k])[3] = ch
        BY Zenon DEF Waiting
      <3>1. publishing'.plans[k].prefix = ch
        BY <1>5, Zenon DEF IsPlan
      <3> QED BY <3>1, Zenon DEF Issue
    <2>4. \A ch \in Open : channels[ch].kind = "extended" => ExtendedOnce(ch)'
      BY <1>1, <2>3, Zenon DEF WorkInv, KindsInv, ExtendedOnce
    <2> QED BY <1>1, <2>2, <2>4, KindsStill, Zenon DEF WorkInv, KindsInv, Open
  <1>8. FramesInv'
    <2>1. ~setup_complete => extranonce_counter' = 0
      BY PublishPlans, Zenon DEF WorkInv, UniqueInv, FramesInv
    <2> QED BY <1>1, <2>1, Zenon DEF WorkInv, UniqueInv, FramesInv, Open
  <1>9. CASE \A ch \in Open : channels[ch].kind # "standard"
    <2>1. extranonce_counter' = extranonce_counter
      BY <1>9, PublishPlans, Zenon
    <2>2. UniqueInv'
      BY <1>1, <1>3, <1>4, <1>8, <1>9, <2>1, UniqueShrinks, Zenon DEF WorkInv, Open
    <2> QED BY <1>7, <2>2, Zenon DEF WorkInv
  <1>10. ASSUME NEW ch \in Open, channels[ch].kind = "standard"
         PROVE  WorkInv'
    <2>1. Open = {ch} /\ setup_complete
      BY <1>10, Zenon DEF WorkInv, KindsInv, UniqueInv, FramesInv
    <2>2. /\ Len(publishing'.plans) <= 1
          /\ extranonce_counter' = extranonce_counter + Len(publishing'.plans)
      BY <1>10, <2>1, PublishPlans, Zenon
    <2>3. CASE Len(publishing'.plans) = 0
      <3>1. extranonce_counter' = extranonce_counter /\ DOMAIN publishing'.plans = {}
        BY <1>2, <1>3, <2>2, <2>3
      <3>2. \A e : Waiting(e)' \subseteq Waiting(e)
        BY <3>1, Zenon DEF Waiting
      <3>3. \A e \in Open : Works(e)' \subseteq Works(e)
        BY <1>1, <1>6, <3>2, Zenon DEF Works
      <3>4. UniqueInv'
        BY <1>1, <1>3, <1>4, <1>8, <3>1, <3>3, UniqueShrinks, Zenon DEF WorkInv, Open
      <3> QED BY <1>7, <3>4, Zenon DEF WorkInv
    <2>4. CASE Len(publishing'.plans) = 1
      <3> DEFINE plan == publishing'.plans[1]
      <3>1. /\ extranonce_counter' = extranonce_counter + 1
            /\ DOMAIN publishing'.plans = {1}
        BY <1>2, <1>3, <2>2, <2>4
      <3>2. IsPlan(plan, ch, Published, "standard", 1)
        BY <1>5, <1>10, <2>1, <3>1, Zenon
      <3>3. Issue(plan)[2] = Published /\ Issue(plan)[3] = Prefix(extranonce_counter + 1)
        <4>1. plan.job = Published /\ plan.prefix = Prefix(extranonce_counter + 1)
          BY <3>2, Zenon DEF IsPlan
        <4> QED BY <4>1, Zenon DEF Issue
      <3>4. \A e : \A x \in Waiting(e)' : x = Issue(plan)
        BY <3>1, Zenon DEF Waiting
      <3> HIDE DEF plan
      <3>5. \A e \in Open : \A x \in Works(e)' : x = Issue(plan) \/ x \in Works(e)
        BY <1>1, <1>6, <3>4, Zenon DEF Works
      <3>6. UniqueInv'
        BY <1>1, <1>3, <1>4, <1>8, <2>1, <3>1, <3>3, <3>5, UniqueGrows, Zenon DEF WorkInv, Open
      <3> QED BY <1>7, <3>6, Zenon DEF WorkInv
    <2>5. Len(publishing'.plans) = 0 \/ Len(publishing'.plans) = 1
      <3>1. Len(publishing'.plans) \in Nat
        BY <1>2
      <3>2. \A n \in Nat : n <= 1 => n = 0 \/ n = 1
        OBVIOUS
      <3> QED BY <2>2, <3>1, <3>2, Zenon
    <2> QED BY <2>3, <2>4, <2>5, Zenon
  <1> QED BY <1>9, <1>10, Zenon

\* Nothing has been sent or planned yet.
LEMMA InitWork ==
  ASSUME Init
  PROVE  WorkInv
  <1>1. Open = {} /\ publishing.plans = <<>> /\ pc = "idle"
    BY DEF Init, Open, NoPublication
  <1>2. KindsInv
    BY <1>1 DEF KindsInv
  <1>3. frames = 0 /\ ticks = 0 /\ extranonce_counter = 0 /\ setup_complete = FALSE
    BY Zenon DEF Init
  <1>4. FramesInv
    BY <1>1, <1>3, LimitsAssumption DEF FramesInv
  <1>5. StandardDistinct
    BY <1>1, Zenon DEF StandardDistinct
  <1>6. PICK base \in 0..extranonce_counter : base = 0
    BY <1>3
  <1>7. Recent(base)
    BY <1>1, <1>3, Zenon DEF Recent
  <1> QED BY <1>2, <1>4, <1>5, <1>6, <1>7, Zenon DEF WorkInv, UniqueInv

\* Every step preserves it.
LEMMA NextWork ==
  ASSUME PrefixSpace >= MaxFrames + MaxTicks, Inv, WorkInv, [Next]_vars
  PROVE  WorkInv'
  BY PublishWork, PublishPrepareUnique, PublishCommitUnique, RefreshPrepareUnique,
     RefreshCommitUnique, SetupUnique, OpenUnique, UpdateUnique, QuietUnique, Zenon DEF Next

\* What makes the works of a channel distinct makes the session's.
LEMMA WorkImpliesUnique ==
  ASSUME Inv, WorkInv
  PROVE  WorkIsUnique
  <1> SUFFICES ASSUME NEW c \in Open, NEW d \in Open,
                      NEW i \in DOMAIN channels[c].jobs, NEW j \in DOMAIN channels[d].jobs,
                      channels[c].jobs[i].job = channels[d].jobs[j].job,
                      channels[c].jobs[i].prefix = channels[d].jobs[j].prefix
               PROVE  channels[c].jobs[i].id = channels[d].jobs[j].id
    BY Zenon DEF WorkIsUnique
  <1> DEFINE x == Issue(channels[c].jobs[i])
             y == Issue(channels[d].jobs[j])
  <1>1. x \in Sent(channels[c]) /\ y \in Sent(channels[d])
    BY Zenon DEF Sent
  <1>2. /\ x[1] = channels[c].jobs[i].id /\ y[1] = channels[d].jobs[j].id
        /\ x[2] = y[2] /\ x[3] = y[3]
    BY Zenon DEF Issue
  <1> HIDE DEF x, y
  <1>3. \A e \in Open : channels[e].kind \in {"standard", "extended"}
    BY OpenChannels, Zenon DEF Channels
  <1>4. CASE channels[c].kind = "standard" \/ channels[d].kind = "standard"
    <2>1. c = d /\ channels[c].kind = "standard"
      BY <1>4, Zenon DEF WorkInv, KindsInv
    <2>2. Distinct(Works(c)) /\ x \in Works(c) /\ y \in Works(c)
      BY <1>1, <2>1, Zenon DEF WorkInv, UniqueInv, StandardDistinct, Works
    <2> QED BY <1>2, <2>2, Zenon DEF Distinct
  <1>5. CASE channels[c].kind = "extended" /\ channels[d].kind = "extended"
    <2>1. ExtendedOnce(c) /\ ExtendedOnce(d)
      BY <1>5, Zenon DEF WorkInv, KindsInv
    <2>2. c = d
      BY <1>1, <1>2, <2>1, Zenon DEF ExtendedOnce
    <2> QED BY <1>1, <1>2, <2>1, <2>2, Zenon DEF ExtendedOnce, Distinct
  <1> QED BY <1>3, <1>4, <1>5, Zenon

\* No two jobs the session takes shares for search the same space, as long as the
\* prefixes handed out while one job is the newest, at most one for every frame and
\* tick, are no more than there are prefixes (allocate_extranonce_prefix_locked,
\* whose counter wraps).
THEOREM UniqueTheorem ==
  ASSUME PrefixSpace >= MaxFrames + MaxTicks
  PROVE  Spec => []WorkIsUnique
  <1>1. Init => Inv /\ WorkInv
    BY InitInv, InitWork, Zenon
  <1>2. (Inv /\ WorkInv) /\ [Next]_vars => (Inv /\ WorkInv)'
    BY NextInv, NextWork, Zenon
  <1>3. Inv /\ WorkInv => WorkIsUnique
    BY WorkImpliesUnique, Zenon
  <1> QED BY <1>1, <1>2, <1>3, PTL DEF Spec
=============================================================================

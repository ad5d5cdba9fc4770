------------------------ MODULE BlockSubmission_proof ------------------------
(***************************************************************************)
(* The safety properties of BlockSubmission, for any blocks, nodes and     *)
(* bounds.                                                                 *)
(***************************************************************************)
EXTENDS BlockSubmission, SequenceTheorems, FiniteSetTheorems, TLAPS

USE DEF nodes, process, reactors, submitter, counters, recovery, status, disk,
        failures, history

KnownBlocks == UNION {Known(n) : n \in Nodes}
Queue == Range(submit_queue)
Ever == {h \in Found : credits[h] # 0}

\* The types the argument needs; the hash of an entry in hand is a block.
Types ==
    /\ active \in [Nodes -> SUBSET Found] /\ side \in [Nodes -> SUBSET Found]
    /\ phase \in {"up", "stopping", "closing", "down"}
    /\ finds \in [Found -> Nat] /\ fresh \subseteq Found /\ spooling \subseteq fresh
    /\ submit_queue \in Seq(Found)
    /\ live_pc \in {"idle", "reply", "count"}
    /\ live_pc # "idle" => live.hash \in Found
    /\ credited \subseteq Found /\ by_address \in Nat /\ blocks_found \in Nat
    /\ recovery_queue \subseteq [hash : Found, submitted_once : BOOLEAN]
    /\ rec_pc \in {"idle", "tip", "candidate", "submit", "reply"}
    /\ rec \in [hash : Found \cup {"none"}, submitted_once : BOOLEAN,
                reply : Replies \cup {"none"}]
    /\ rec_pc # "idle" => rec.hash \in Found
    /\ status_pc \in {"idle", "write", "final", "done"} /\ snapshot \in Nat
    /\ phase = "down" => status_pc = "idle"
    /\ file \in [Found -> {"none", "hex", "submitted", "stale", "rejected"}]
    /\ pool_status \in [found : Nat, by_address : Nat]
    /\ credits \in [Found -> Nat] /\ settled \subseteq Found

\* Who holds a block.  The submit thread has blocks of this run, the recovery
\* thread blocks of earlier runs whose file is still there, each once.
Held ==
    /\ Queue \subseteq fresh
    /\ live_pc # "idle" => live.hash \in fresh
    /\ live_pc = "count" => live.hash \in settled
    /\ \A e \in recovery_queue : e.hash \notin fresh /\ file[e.hash] = "hex"
    /\ \A d, e \in recovery_queue : d.hash = e.hash => d = e
    /\ rec_pc # "idle" => /\ rec.hash \notin fresh /\ file[rec.hash] = "hex"
                          /\ \A e \in recovery_queue : e.hash # rec.hash
    /\ \A h \in Found :
         /\ h \in fresh => finds[h] # 0 /\ file[h] \in {"none", "hex"}
         /\ file[h] # "none" \/ credits[h] # 0 => finds[h] # 0
    /\ phase = "down" => fresh = {} /\ live_pc = "idle" /\ rec_pc = "idle"

\* What an answer in hand and a file's suffix say of the nodes.
Truthful ==
    /\ KnownBlocks \cap Invalid = {}
    /\ live_pc = "reply" =>
         /\ live.reply \in {"accepted", "duplicate"} => live.hash \in KnownBlocks
         /\ live.reply = "rejected" => live.hash \notin KnownBlocks
    /\ rec_pc = "reply" =>
         /\ rec.reply \in {"accepted", "duplicate"} => rec.hash \in KnownBlocks
         /\ rec.reply = "rejected" => rec.hash \notin KnownBlocks
    /\ \A h \in Found :
         /\ file[h] = "submitted" \/ credits[h] # 0 => h \in KnownBlocks
         /\ file[h] = "rejected" => h \notin KnownBlocks

\* What the counters say: a block of this run that was credited is remembered,
\* and each count is behind the one made before it.
Counted ==
    /\ \A h \in Found : credits[h] <= 1
    /\ \A h \in fresh : credits[h] # 0 => h \in credited
    /\ blocks_found <= by_address
    /\ live_pc = "count" => blocks_found < by_address
    /\ status_pc \in {"write", "final"} => snapshot <= blocks_found
    /\ by_address <= Cardinality(Ever)
    /\ pool_status.found <= pool_status.by_address
    /\ pool_status.by_address <= Cardinality(Ever)

\* The inductive invariant.
BlockInv == Types /\ Held /\ Truthful /\ Counted /\ NoBlockLost

-----------------------------------------------------------------------------
(* Facts about queues and nodes.                                            *)

\* What Append adds to a queue.
LEMMA AppendedRange ==
  ASSUME NEW S, NEW q \in Seq(S), NEW x \in S
  PROVE  Append(q, x) \in Seq(S) /\ Range(Append(q, x)) = Range(q) \cup {x}
  <1>1. /\ Append(q, x) \in Seq(S)
        /\ Len(q) \in Nat /\ DOMAIN q = 1..Len(q)
        /\ DOMAIN Append(q, x) = 1..(Len(q) + 1)
        /\ Append(q, x)[Len(q) + 1] = x
        /\ \A i \in 1..Len(q) : Append(q, x)[i] = q[i]
    BY AppendProperties, LenProperties
  <1>2. \A i \in 1..(Len(q) + 1) : i \in 1..Len(q) \/ i = Len(q) + 1
    BY <1>1
  <1> QED
    BY <1>1, <1>2 DEF Range

\* What taking entry i, which erase does, leaves in a queue.
LEMMA RemovedRange ==
  ASSUME NEW S, NEW q \in Seq(S), NEW i \in DOMAIN q
  PROVE  /\ RemoveAt(q, i) \in Seq(S)
         /\ Range(RemoveAt(q, i)) \subseteq Range(q)
         /\ Range(q) \subseteq Range(RemoveAt(q, i)) \cup {q[i]}
         /\ q[i] \in S /\ q[i] \in Range(q)
  <1> DEFINE n == Len(q)
             front == SubSeq(q, 1, i - 1)
             back == SubSeq(q, i + 1, n)
             r == RemoveAt(q, i)
  <1>1. n \in Nat /\ DOMAIN q = 1..n /\ i \in 1..n /\ \A j \in 1..n : q[j] \in S
    BY LenProperties, ElementOfSeq, Zenon
  <1>2. /\ front \in Seq(S) /\ Len(front) = i - 1
        /\ \A j \in 1..(i - 1) : front[j] = q[j]
    BY <1>1, SubSeqProperties
  <1>3. /\ back \in Seq(S) /\ Len(back) = n - i
        /\ \A j \in 1..(n - i) : back[j] = q[i + j]
    <2>1. \A j \in (i + 1)..n : q[j] \in S
      BY <1>1
    <2>2. /\ back \in Seq(S)
          /\ Len(back) = IF i + 1 <= n THEN n - (i + 1) + 1 ELSE 0
          /\ \A j \in 1..(n - (i + 1) + 1) : back[j] = q[i + 1 + j - 1]
      BY <1>1, <2>1, SubSeqProperties
    <2> HIDE DEF back
    <2>3. Len(back) = n - i
      BY <1>1, <2>2
    <2>4. ASSUME NEW j \in 1..(n - i) PROVE back[j] = q[i + j]
      <3>1. j \in 1..(n - (i + 1) + 1) /\ i + 1 + j - 1 = i + j
        BY <1>1
      <3> QED
        BY <2>2, <3>1, Zenon
    <2> QED
      BY <2>2, <2>3, <2>4, Zenon
  <1> HIDE DEF front, back
  <1>4. /\ r \in Seq(S) /\ DOMAIN r = 1..(n - 1)
        /\ \A j \in 1..(n - 1) : r[j] = IF j < i THEN q[j] ELSE q[j + 1]
    <2>1. r = front \o back
      BY Zenon DEF RemoveAt, front, back
    <2> HIDE DEF r, n
    <2>2. /\ r \in Seq(S) /\ Len(r) = Len(front) + Len(back)
          /\ \A j \in 1..(Len(front) + Len(back)) :
               r[j] = IF j <= Len(front) THEN front[j] ELSE back[j - Len(front)]
      BY <1>2, <1>3, <2>1, ConcatProperties, Zenon
    <2>3. DOMAIN r = 1..(n - 1)
      BY <1>1, <1>2, <1>3, <2>2, LenProperties
    <2>4. ASSUME NEW j \in 1..(n - 1)
          PROVE  r[j] = IF j < i THEN q[j] ELSE q[j + 1]
      <3>1. CASE j < i
        BY <1>1, <1>2, <1>3, <2>2, <3>1
      <3>2. CASE ~(j < i)
        <4>1. /\ j - (i - 1) \in 1..(n - i) /\ i + (j - (i - 1)) = j + 1
              /\ j \in 1..((i - 1) + (n - i)) /\ ~(j <= i - 1)
          BY <1>1, <3>2
        <4>2. r[j] = back[j - (i - 1)]
          BY <1>2, <1>3, <2>2, <4>1, Zenon
        <4> QED
          BY <1>3, <3>2, <4>1, <4>2, Zenon
      <3> QED
        BY <3>1, <3>2, Zenon
    <2> QED
      BY <2>2, <2>3, <2>4, Zenon
  <1> HIDE DEF n, r
  <1>5. Range(r) \subseteq Range(q)
    BY <1>1, <1>4 DEF Range
  <1>6. ASSUME NEW j \in 1..n, j # i PROVE q[j] \in Range(r)
    <2>1. CASE j < i
      <3>1. j \in 1..(n - 1) /\ r[j] = q[j]
        BY <1>1, <1>4, <2>1
      <3> QED
        BY <1>4, <3>1, Zenon DEF Range
    <2>2. CASE j > i
      <3>1. j - 1 \in 1..(n - 1) /\ r[j - 1] = q[j]
        BY <1>1, <1>4, <2>2
      <3> QED
        BY <1>4, <3>1, Zenon DEF Range
    <2> QED
      BY <1>1, <1>6, <2>1, <2>2
  <1> QED
    BY <1>1, <1>4, <1>5, <1>6, Zenon DEF Range, r

\* A block is known once some node knows it, and stays known.
LEMMA KnownMember ==
  \A h : h \in KnownBlocks <=> \E n \in Nodes : h \in active[n] \/ h \in side[n]
  BY Zenon DEF KnownBlocks, Known

\* submitblock makes at most the submitted block known, and its combined
\* answer is true of the nodes when it returns.
LEMMA SubmitKnown ==
  ASSUME Types, Truthful, NEW h \in Found, NEW reached, NEW heard, NEW reply,
         Submit(h, reached, heard, reply)
  PROVE  /\ active' \in [Nodes -> SUBSET Found] /\ side' \in [Nodes -> SUBSET Found]
         /\ KnownBlocks \subseteq KnownBlocks'
         /\ KnownBlocks' \subseteq KnownBlocks \cup {h}
         /\ KnownBlocks' \cap Invalid = {}
         /\ reply \in {"accepted", "duplicate"} => h \in KnownBlocks'
         /\ reply = "rejected" => h \notin KnownBlocks'
  <1> DEFINE joins == {n \in reached : Answer(n, h) = "accepted"}
             forks == {n \in reached : Answer(n, h) = "inconclusive"}
             answers == {Answer(n, h) : n \in heard}
  <1>0. /\ active \in [Nodes -> SUBSET Found] /\ side \in [Nodes -> SUBSET Found]
        /\ heard \subseteq reached /\ reached \subseteq Nodes
        /\ reply = Combined(answers, heard # Nodes)
    BY Zenon DEF Types, Submit
  <1>1. /\ active' = [n \in Nodes |->
                        IF n \in joins THEN active[n] \cup {h} ELSE active[n]]
        /\ side' = [n \in Nodes |->
                        IF n \in forks THEN side[n] \cup {h} ELSE side[n]]
    BY Zenon DEF Submit
  <1>2. active' \in [Nodes -> SUBSET Found] /\ side' \in [Nodes -> SUBSET Found]
    BY <1>0, <1>1, Zenon
  <1>3. KnownBlocks' = KnownBlocks \cup {x \in {h} : joins \cup forks # {}}
    <2>1. \A x : x \in KnownBlocks' <=>
                   \E n \in Nodes : x \in active'[n] \/ x \in side'[n]
      BY DEF KnownBlocks, Known
    <2> HIDE DEF joins, forks
    <2>2. joins \subseteq Nodes /\ forks \subseteq Nodes
      BY <1>0, Zenon DEF joins, forks
    <2> QED
      BY <1>1, <2>1, <2>2, KnownMember, Zenon
  <1>4. joins \cup forks # {} => h \notin Invalid
    BY Zenon DEF Answer
  <1>5. ASSUME reply \in {"accepted", "duplicate"} PROVE h \in KnownBlocks'
    <2>1. "accepted" \in answers \/ "duplicate" \in answers
      BY <1>0, <1>5, Zenon DEF Combined
    <2>2. PICK n \in heard : Answer(n, h) \in {"accepted", "duplicate"}
      BY <2>1, Zenon
    <2>3. CASE Answer(n, h) = "accepted"
      BY <1>0, <1>3, <2>2, <2>3, Zenon
    <2>4. CASE Answer(n, h) = "duplicate"
      <3>1. h \in active[n]
        BY <2>4, Zenon DEF Answer
      <3> QED
        BY <1>0, <1>3, <2>2, <3>1, KnownMember, Zenon
    <2> QED
      BY <2>2, <2>3, <2>4, Zenon
  <1>6. ASSUME reply = "rejected" PROVE h \notin KnownBlocks'
    <2>1. /\ "accepted" \notin answers /\ "duplicate" \notin answers
          /\ "inconclusive" \notin answers /\ heard = Nodes
      BY <1>0, <1>6, Zenon DEF Combined
    <2>2. \A n \in Nodes : Answer(n, h) \notin {"accepted", "duplicate", "inconclusive"}
      BY <2>1, Zenon
    <2>3. joins \cup forks = {}
      BY <1>0, <2>2, Zenon
    <2>4. h \notin Invalid => \A n \in Nodes : h \notin active[n] /\ h \notin side[n]
      BY <2>2, Zenon DEF Answer
    <2> QED
      BY <1>3, <2>3, <2>4, KnownMember, Zenon DEF Truthful
  <1> HIDE DEF joins, forks
  <1> QED
    BY <1>2, <1>3, <1>4, <1>5, <1>6, Zenon DEF Truthful

\* A reorganisation makes no block known that no node had, and forgets none.
LEMMA ReorganisesKnown ==
  ASSUME Types, NEW n \in Nodes, NEW branch \in SUBSET Found,
         NodeReorganises(n, branch)
  PROVE  KnownBlocks' = KnownBlocks
  <1>1. /\ active' = [active EXCEPT ![n] = branch]
        /\ side' = [side EXCEPT ![n] = (active[n] \cup side[n]) \ branch]
        /\ branch \subseteq KnownBlocks
    BY Zenon DEF NodeReorganises, Known, KnownBlocks
  <1>2. \A m \in Nodes :
          /\ active'[m] = IF m = n THEN branch ELSE active[m]
          /\ side'[m] = IF m = n THEN (active[n] \cup side[n]) \ branch ELSE side[m]
    BY <1>1, Zenon DEF Types
  <1>3. \A x : x \in KnownBlocks' <=>
                 \E m \in Nodes : x \in active'[m] \/ x \in side'[m]
    BY DEF KnownBlocks, Known
  <1>4. ASSUME NEW x \in KnownBlocks' PROVE x \in KnownBlocks
    BY <1>1, <1>2, <1>3, KnownMember
  <1>5. ASSUME NEW x \in KnownBlocks PROVE x \in KnownBlocks'
    BY <1>2, <1>3, KnownMember, Zenon
  <1> QED
    BY <1>4, <1>5, Zenon

-----------------------------------------------------------------------------
(* The types.                                                               *)

\* Suffixes archive_recovered_block gives a file.
Suffixes == {"submitted", "stale", "rejected"}

\* The recovery thread archives the block in hand, goes on to another lookup,
\* submits it, or queues it again.
LEMMA RecoveryWorksBy ==
  ASSUME RecoveryWorks
  PROVE  \/ rec_pc # "idle" /\ \E suffix \in Suffixes : Archive(rec.hash, suffix)
         \/ rec_pc # "idle" /\ \E pc \in {"candidate", "submit"} : RecoveryGoesTo(pc)
         \/ RecoveryResubmits
         \/ RecoveryRetries
  <1>1. ASSUME NEW n \in Nodes, RecoveryTip(n) \/ RecoveryCandidate(n)
        PROVE  \/ rec_pc # "idle" /\ \E suffix \in Suffixes : Archive(rec.hash, suffix)
               \/ rec_pc # "idle" /\ \E pc \in {"candidate", "submit"} : RecoveryGoesTo(pc)
    BY <1>1, Zenon DEF RecoveryTip, RecoveryCandidate, Suffixes
  <1>2. CASE RecoveryLookupFails
    BY <1>2, Zenon DEF RecoveryLookupFails
  <1>3. CASE RecoveryArchives
    BY <1>3, Zenon DEF RecoveryArchives, Suffixes
  <1> QED
    BY <1>1, <1>2, <1>3, Zenon DEF RecoveryWorks

\* The pool starts with nothing in hand.
LEMMA InitTypes == Init => Types
  BY ConstantsAssumption DEF Init, Types, NoEntry, NoRecovered, ZeroStats, Replies

\* Every step keeps the types.
LEMMA NextTypes ==
  ASSUME Types, Truthful, [Next]_vars
  PROVE  Types'
  <1>1. ASSUME NEW n \in Nodes, NodeAdvances(n) PROVE Types'
    BY <1>1 DEF Types, NodeAdvances
  <1>2. ASSUME NEW n \in Nodes, NEW branch \in SUBSET Found, NodeReorganises(n, branch)
        PROVE  Types'
    BY <1>2 DEF Types, NodeReorganises, Known
  <1>3. ASSUME NEW h \in Found, FindBlock(h) PROVE Types'
    <2>1. submit_queue' \in Seq(Found)
      BY <1>3, AppendedRange, Zenon DEF Types, FindBlock
    <2> QED
      BY <1>3, <2>1 DEF Types, FindBlock
  <1>4. ASSUME NEW h \in Found, SpoolBlock(h) \/ SpoolFails(h) PROVE Types'
    <2>1. /\ file' \in [Found -> {"none", "hex", "submitted", "stale", "rejected"}]
          /\ spooling' \subseteq fresh'
      BY <1>4 DEF Types, SpoolBlock, SpoolFails
    <2>2. UNCHANGED <<nodes, phase, finds, fresh, submitter, counters, recovery,
                      status, pool_status, history>>
      BY <1>4, Zenon DEF SpoolBlock, SpoolFails
    <2> QED
      BY <2>1, <2>2 DEF Types
  <1>5. ASSUME NEW i \in DOMAIN submit_queue, NEW reached \in SUBSET Nodes,
               NEW heard \in SUBSET Nodes, NEW reply \in Replies,
               SubmitLive(i, reached, heard, reply)
        PROVE  Types'
    <2>1. submit_queue' \in Seq(Found) /\ submit_queue[i] \in Found
      BY <1>5, RemovedRange, Zenon DEF Types, SubmitLive
    <2>2. active' \in [Nodes -> SUBSET Found] /\ side' \in [Nodes -> SUBSET Found]
      BY <1>5, <2>1, SubmitKnown, Zenon DEF SubmitLive
    <2>3. live_pc' = "reply" /\ live'.hash \in Found
      BY <1>5, <2>1, Zenon DEF SubmitLive
    <2>4. UNCHANGED <<phase, reactors, counters, recovery, status, disk, history>>
      BY <1>5, Zenon DEF SubmitLive
    <2> QED
      BY <2>1, <2>2, <2>3, <2>4, Zenon DEF Types
  <1>6. CASE LiveCredit \/ LiveCount \/ LiveReject
    <2>1. CASE LiveCredit
      <3>1. live_pc' # "idle" => live_pc # "idle" /\ live' = live
        BY <2>1, Zenon DEF LiveCredit
      <3>2. credited' \subseteq Found /\ by_address' \in Nat
            /\ credits' \in [Found -> Nat] /\ settled' \subseteq Found
        BY <2>1 DEF Types, LiveCredit
      <3>3. live_pc' \in {"idle", "count"}
        BY <2>1, Zenon DEF LiveCredit
      <3>4. UNCHANGED <<nodes, phase, reactors, submit_queue, blocks_found, recovery,
                        status, disk>>
        BY <2>1, Zenon DEF LiveCredit
      <3>5. live_pc' # "idle" => live'.hash \in Found
        BY <3>1, Zenon DEF Types
      <3> QED
        BY <3>2, <3>3, <3>4, <3>5 DEF Types
    <2>2. CASE LiveCount
      BY <2>2 DEF Types, LiveCount
    <2>3. CASE LiveReject
      BY <2>3 DEF Types, LiveReject
    <2> QED
      BY <1>6, <2>1, <2>2, <2>3, Zenon
  <1>7. CASE LiveRetry
    <2>1. submit_queue' \in Seq(Found)
      BY <1>7, AppendedRange, Zenon DEF Types, LiveRetry
    <2> QED
      BY <1>7, <2>1 DEF Types, LiveRetry
  <1>8. ASSUME NEW e \in recovery_queue, TakeRecovered(e) PROVE Types'
    BY <1>8, Zenon DEF Types, TakeRecovered
  <1>9. ASSUME NEW suffix \in Suffixes, rec_pc # "idle", Archive(rec.hash, suffix)
        PROVE  Types'
    <2>1. file' \in [Found -> {"none", "hex", "submitted", "stale", "rejected"}]
      BY <1>9, Zenon DEF Types, Archive, Suffixes
    <2>2. settled' \subseteq Found /\ rec_pc' = "idle" /\ rec' = NoRecovered
      BY <1>9, Zenon DEF Types, Archive
    <2>3. NoRecovered \in [hash : Found \cup {"none"}, submitted_once : BOOLEAN,
                           reply : Replies \cup {"none"}]
      BY Zenon DEF NoRecovered
    <2> QED
      BY <1>9, <2>1, <2>2, <2>3, Zenon DEF Types, Archive
  <1>10. ASSUME NEW pc \in {"candidate", "submit"}, rec_pc # "idle", RecoveryGoesTo(pc)
         PROVE  Types'
    BY <1>10, Zenon DEF Types, RecoveryGoesTo
  <1>11. ASSUME NEW reached \in SUBSET Nodes, NEW heard \in SUBSET Nodes,
                NEW reply \in Replies, SubmitRecovered(reached, heard, reply)
         PROVE  Types'
    <2>1. active' \in [Nodes -> SUBSET Found] /\ side' \in [Nodes -> SUBSET Found]
      BY <1>11, SubmitKnown, Zenon DEF SubmitRecovered, Types
    <2> QED
      BY <1>11, <2>1, Zenon DEF Types, SubmitRecovered
  <1>12. CASE RecoveryRetries
    BY <1>12 DEF Types, RecoveryRetries, NoRecovered
  <1>13. CASE StatusThread
    <2>1. CASE SnapshotFound
      BY <2>1, Zenon DEF Types, SnapshotFound, Running
    <2>2. CASE WriteStats
      BY <2>2 DEF Types, WriteStats, AfterWrite
    <2>3. CASE WriteStatsFails
      BY <2>3 DEF Types, WriteStatsFails, AfterWrite
    <2> QED
      BY <1>13, <2>1, <2>2, <2>3, Zenon DEF StatusThread
  <1>14. CASE RequestStop \/ DestroyPool
    BY <1>14, Zenon DEF Types, RequestStop, DestroyPool
  <1>15. CASE Terminate
    BY <1>15 DEF Types, Terminate, NoRecovered
  <1>16. CASE Start
    <2>1. /\ by_address' \in Nat /\ blocks_found' \in Nat
          /\ phase' \in {"up", "stopping", "closing", "down"}
      BY <1>16, Zenon DEF Types, Start
    <2>2. recovery_queue' \subseteq [hash : Found, submitted_once : BOOLEAN]
      <3>1. \A h \in Found : [hash |-> h, submitted_once |-> FALSE]
                               \in [hash : Found, submitted_once : BOOLEAN]
        BY Zenon
      <3> QED
        BY <1>16, <3>1, Zenon DEF Start
    <2> QED
      BY <1>16, <2>1, <2>2, Zenon DEF Types, Start
  <1>17. CASE UNCHANGED vars
    BY <1>17 DEF Types, vars
  <1>18. CASE RecoveryWorks
    BY <1>9, <1>10, <1>11, <1>12, <1>18, RecoveryWorksBy, Zenon DEF RecoveryResubmits
  <1>19. CASE SubmitThread
    BY <1>5, <1>6, <1>7, <1>19, Zenon DEF SubmitThread, LiveAnswered
  <1> QED
    BY <1>1, <1>2, <1>3, <1>4, <1>8, <1>13, <1>14, <1>15, <1>16, <1>17, <1>18, <1>19,
       Zenon
    DEF Next, NodeSteps, ReactorSteps, RecoveryThread, ProcessSteps, Exit, Crash
-----------------------------------------------------------------------------
(* Who holds a block.                                                       *)

\* The part of the state Held and NoBlockLost depend on.
holding == <<phase, finds, fresh, submit_queue, live_pc, live, recovery_queue,
             rec_pc, rec, file, credits, settled>>

\* Nobody holds a block at the start.
LEMMA InitHeld == Init => Held
  BY DEF Init, Held, Queue, Range

\* No step gives a block to both threads, or to one of them twice.
LEMMA NextHeld ==
  ASSUME Types, Held, [Next]_vars
  PROVE  Held'
  <1>1. CASE UNCHANGED holding
    BY <1>1, Zenon DEF holding, Held, Queue
  <1>2. CASE NodeSteps \/ StatusThread \/ UNCHANGED vars
    BY <1>1, <1>2, Zenon
    DEF holding, NodeSteps, NodeAdvances, NodeReorganises, StatusThread,
        SnapshotFound, WriteStats, WriteStatsFails, vars
  <1>3. ASSUME NEW h \in Found, FindBlock(h) PROVE Held'
    <2>1. Queue' = Queue \cup {h}
      BY <1>3, AppendedRange DEF Types, FindBlock, Queue
    <2>2. h \notin fresh => file[h] = "none"
      BY <1>3, Zenon DEF Held, FindBlock
    <2>3. \A g \in Found : g \in fresh' => finds'[g] # 0 /\ file'[g] \in {"none", "hex"}
      BY <1>3, <2>2 DEF Types, Held, FindBlock
    <2>4. \A g \in Found : file'[g] # "none" \/ credits'[g] # 0 => finds'[g] # 0
      BY <1>3 DEF Types, Held, FindBlock
    <2>5. \A e \in recovery_queue : e.hash # h
      BY <2>2, Zenon DEF Held, FindBlock
    <2>6. rec_pc # "idle" => rec.hash # h
      BY <2>2, Zenon DEF Held
    <2> QED
      BY <1>3, <2>1, <2>3, <2>4, <2>5, <2>6, Zenon DEF Held, FindBlock, Running
  <1>4. ASSUME NEW h \in Found, SpoolBlock(h) PROVE Held'
    <2>1. h \in fresh /\ file' = [file EXCEPT ![h] = "hex"]
      BY <1>4, Zenon DEF Types, SpoolBlock
    <2>2. \A g \in Found : file'[g] = IF g = h THEN "hex" ELSE file[g]
      BY <2>1, Zenon DEF Types
    <2>3. \A e \in recovery_queue : e.hash \in Found /\ file'[e.hash] = "hex"
      BY <2>2 DEF Types, Held
    <2>4. rec_pc # "idle" => file'[rec.hash] = "hex"
      BY <2>2, Zenon DEF Types, Held
    <2>5. \A g \in Found :
            /\ g \in fresh => finds[g] # 0 /\ file'[g] \in {"none", "hex"}
            /\ file'[g] # "none" \/ credits[g] # 0 => finds[g] # 0
      BY <2>1, <2>2, Zenon DEF Held
    <2> QED
      BY <1>4, <2>3, <2>4, <2>5, Zenon DEF Held, SpoolBlock, Queue
  <1>5. ASSUME NEW h \in Found, SpoolFails(h) PROVE Held'
    BY <1>1, <1>5, Zenon DEF holding, SpoolFails
  <1>6. ASSUME NEW i \in DOMAIN submit_queue, NEW reached \in SUBSET Nodes,
               NEW heard \in SUBSET Nodes, NEW reply \in Replies,
               SubmitLive(i, reached, heard, reply)
        PROVE  Held'
    <2>1. Queue' \subseteq Queue /\ submit_queue[i] \in Queue
      BY <1>6, RemovedRange, Zenon DEF Types, SubmitLive, Queue
    <2>2. live'.hash = submit_queue[i] /\ live_pc' = "reply"
      BY <1>6, Zenon DEF SubmitLive
    <2> QED
      BY <1>6, <2>1, <2>2, Zenon DEF Held, SubmitLive, Running
  <1>7. CASE LiveCredit
    <2>1. \A g \in Found : credits'[g] # 0 => finds[g] # 0
      BY <1>7 DEF Types, Held, LiveCredit
    <2>2. /\ live_pc' # "idle" => live' = live /\ live_pc # "idle"
          /\ live_pc' # "idle" => live.hash \in settled'
          /\ live_pc # "idle"
      BY <1>7, Zenon DEF LiveCredit
    <2>3. UNCHANGED <<phase, finds, fresh, submit_queue, recovery_queue, rec_pc, rec, file>>
      BY <1>7, Zenon DEF LiveCredit
    <2> QED
      BY <2>1, <2>2, <2>3, Zenon DEF Held, Queue
  <1>8. CASE LiveCount \/ LiveReject
    BY <1>8, Zenon DEF Held, Queue, LiveCount, LiveReject
  <1>9. CASE LiveRetry
    <2>1. Queue' \subseteq Queue \cup {live.hash}
      BY <1>9, AppendedRange DEF Types, LiveRetry, Queue
    <2> QED
      BY <1>9, <2>1, Zenon DEF Held, LiveRetry
  <1>10. ASSUME NEW e \in recovery_queue, TakeRecovered(e) PROVE Held'
    <2>1. /\ rec'.hash = e.hash /\ recovery_queue' = recovery_queue \ {e}
          /\ rec_pc' # "idle" /\ phase' # "down"
          /\ UNCHANGED <<phase, finds, fresh, submit_queue, live_pc, live, file, credits, settled>>
      BY <1>10, Zenon DEF TakeRecovered, Running
    <2> QED
      BY <2>1, Zenon DEF Held, Queue
  <1>11. ASSUME NEW suffix \in Suffixes, rec_pc # "idle", Archive(rec.hash, suffix)
         PROVE  Held'
    <2>1. \A g \in Found \ {rec.hash} : file'[g] = file[g]
      BY <1>11, Zenon DEF Types, Archive
    <2>2. /\ rec_pc' = "idle" /\ settled \subseteq settled'
          /\ UNCHANGED <<phase, finds, fresh, submit_queue, live_pc, live,
                         recovery_queue, credits>>
      BY <1>11, Zenon DEF Archive
    <2>3. rec.hash \in Found /\ finds[rec.hash] # 0 /\ rec.hash \notin fresh
      BY <1>11, Zenon DEF Types, Held
    <2>4. \A g \in Found :
            /\ g \in fresh => finds[g] # 0 /\ file'[g] \in {"none", "hex"}
            /\ file'[g] # "none" \/ credits[g] # 0 => finds[g] # 0
      BY <2>1, <2>3, Zenon DEF Held
    <2>5. \A e \in recovery_queue : file'[e.hash] = "hex"
      BY <1>11, <2>1 DEF Types, Held
    <2> QED
      BY <2>2, <2>4, <2>5, Zenon DEF Held, Queue
  <1>12. ASSUME NEW pc \in {"candidate", "submit"}, rec_pc # "idle", RecoveryGoesTo(pc)
         PROVE  Held'
    BY <1>12, Zenon DEF Held, Queue, RecoveryGoesTo
  <1>13. ASSUME NEW reached \in SUBSET Nodes, NEW heard \in SUBSET Nodes,
                NEW reply \in Replies, SubmitRecovered(reached, heard, reply)
         PROVE  Held'
    <2>1. /\ rec'.hash = rec.hash /\ rec_pc # "idle"
          /\ UNCHANGED <<phase, finds, fresh, submit_queue, live_pc, live,
                         recovery_queue, file, credits, settled>>
      BY <1>13, Zenon DEF Types, SubmitRecovered
    <2> QED
      BY <2>1, Zenon DEF Held, Queue
  <1>14. CASE RecoveryRetries
    <2>1. /\ \A e \in recovery_queue' \ recovery_queue : e.hash = rec.hash
          /\ \A d, e \in recovery_queue' \ recovery_queue : d = e
          /\ rec_pc # "idle" /\ rec_pc' = "idle"
          /\ UNCHANGED <<phase, finds, fresh, submit_queue, live_pc, live, file,
                         credits, settled>>
      BY <1>14 DEF RecoveryRetries
    <2> QED
      BY <2>1, Zenon DEF Held, Queue
  <1>15. CASE RequestStop \/ DestroyPool
    BY <1>15, Zenon DEF Held, Queue, RequestStop, DestroyPool
  <1>16. CASE Terminate
    <2>1. Queue' = {}
      BY <1>16 DEF Terminate, Queue, Range
    <2> QED
      BY <1>16, <2>1, Zenon DEF Held, Terminate
  <1>17. CASE Start
    <2>1. /\ \A e \in recovery_queue' : file[e.hash] = "hex"
          /\ \A d, e \in recovery_queue' : d.hash = e.hash => d = e
      <3>1. \A e \in recovery_queue' : \E h \in Found :
              file[h] = "hex" /\ e = [hash |-> h, submitted_once |-> FALSE]
        BY <1>17, Zenon DEF Start
      <3>2. \A e \in recovery_queue' :
              file[e.hash] = "hex" /\ e = [hash |-> e.hash, submitted_once |-> FALSE]
        BY <3>1
      <3> QED
        BY <3>2, Zenon
    <2>2. /\ fresh = {} /\ live_pc = "idle" /\ rec_pc = "idle"
          /\ UNCHANGED <<finds, fresh, submit_queue, live_pc, live, rec_pc, rec, file,
                         credits, settled>>
          /\ phase' = "up"
      BY <1>17, Zenon DEF Start, Held
    <2> QED
      BY <2>1, <2>2, Zenon DEF Held, Queue
  <1>18. CASE RecoveryWorks
    BY <1>11, <1>12, <1>13, <1>14, <1>18, RecoveryWorksBy, Zenon DEF RecoveryResubmits
  <1>19. CASE SubmitThread
    BY <1>6, <1>7, <1>8, <1>9, <1>19, Zenon DEF SubmitThread, LiveAnswered
  <1> QED
    BY <1>2, <1>3, <1>4, <1>5, <1>10, <1>15, <1>16, <1>17, <1>18, <1>19, Zenon
    DEF Next, ReactorSteps, RecoveryThread, ProcessSteps, Exit, Crash
-----------------------------------------------------------------------------
(* What the answers and the files say of the nodes.                         *)

\* No node knows a found block at the start.
LEMMA InitTruthful == Init => Truthful
  <1> SUFFICES ASSUME Init PROVE Truthful
    BY Zenon
  <1>1. KnownBlocks = {}
    BY Zenon DEF Init, KnownBlocks, Known
  <1> QED
    BY <1>1, Zenon DEF Init, Truthful

\* The recovery thread archives a block under the suffix its lookup or its
\* submission has shown.
LEMMA ArchiveIsTrue ==
  ASSUME Types, Truthful, RecoveryWorks
  PROVE  \/ /\ rec_pc # "idle"
            /\ \E suffix \in Suffixes :
                 /\ Archive(rec.hash, suffix)
                 /\ suffix = "submitted" => rec.hash \in KnownBlocks
                 /\ suffix = "rejected" => rec.hash \notin KnownBlocks
         \/ rec_pc # "idle" /\ \E pc \in {"candidate", "submit"} : RecoveryGoesTo(pc)
         \/ RecoveryResubmits
         \/ RecoveryRetries
  <1> DEFINE Archives(suffix) ==
               /\ Archive(rec.hash, suffix)
               /\ suffix = "submitted" => rec.hash \in KnownBlocks
               /\ suffix = "rejected" => rec.hash \notin KnownBlocks
             GoesOn == \E pc \in {"candidate", "submit"} : RecoveryGoesTo(pc)
  <1>1. ASSUME NEW n \in Nodes, RecoveryTip(n) \/ RecoveryCandidate(n)
        PROVE  rec_pc # "idle" /\ ((\E suffix \in Suffixes : Archives(suffix)) \/ GoesOn)
    <2>1. rec_pc # "idle" /\ (rec.hash \in active[n] => rec.hash \in KnownBlocks)
      BY <1>1, KnownMember, Zenon DEF RecoveryTip, RecoveryCandidate
    <2>2. CASE RecoveryTip(n)
      BY <2>1, <2>2, Zenon DEF RecoveryTip, Suffixes
    <2>3. CASE RecoveryCandidate(n)
      BY <2>1, <2>3, Zenon DEF RecoveryCandidate, Suffixes
    <2> QED
      BY <1>1, <2>2, <2>3, <2>1, Zenon
  <1>2. CASE RecoveryLookupFails
    BY <1>2, Zenon DEF RecoveryLookupFails
  <1>3. CASE RecoveryArchives
    <2>1. CASE rec.reply = "rejected"
      BY <1>3, <2>1, Zenon DEF RecoveryArchives, Suffixes, Truthful
    <2>2. CASE rec.reply # "rejected"
      BY <1>3, <2>2, Zenon DEF RecoveryArchives, Suffixes, Truthful
    <2> QED
      BY <2>1, <2>2, Zenon
  <1> QED
    BY <1>1, <1>2, <1>3, Zenon DEF RecoveryWorks

\* A step that leaves the nodes' blocks alone, makes nothing more to be said
\* of them.
LEMMA QuietTruthful ==
  ASSUME Truthful, KnownBlocks' = KnownBlocks,
         live_pc' = "reply" => live_pc = "reply" /\ live' = live,
         rec_pc' = "reply" => rec_pc = "reply" /\ rec' = rec,
         \A h \in Found : file'[h] \in {"submitted", "rejected"} => file'[h] = file[h],
         credits' = credits
  PROVE  Truthful'
  BY Zenon DEF Truthful

\* No step makes an answer in hand or a suffix wrong: only the thread that
\* holds a block can make it known.
LEMMA NextTruthful ==
  ASSUME Types, Held, Truthful, [Next]_vars
  PROVE  Truthful'
  <1>0. ASSUME UNCHANGED <<active, side>> PROVE KnownBlocks' = KnownBlocks
    BY <1>0, Zenon DEF KnownBlocks, Known
  <1>1. ASSUME NEW n \in Nodes, NodeAdvances(n) PROVE Truthful'
    BY <1>0, <1>1, QuietTruthful, Zenon DEF NodeAdvances
  <1>2. ASSUME NEW n \in Nodes, NEW branch \in SUBSET Found, NodeReorganises(n, branch)
        PROVE  Truthful'
    <2>1. KnownBlocks' = KnownBlocks
      BY <1>2, ReorganisesKnown, Zenon
    <2> QED
      BY <1>2, <2>1, QuietTruthful, Zenon DEF NodeReorganises
  <1>3. ASSUME NEW h \in Found, FindBlock(h) \/ SpoolFails(h) PROVE Truthful'
    BY <1>0, <1>3, QuietTruthful, Zenon DEF FindBlock, SpoolFails
  <1>4. ASSUME NEW h \in Found, SpoolBlock(h) PROVE Truthful'
    <2>1. \A g \in Found : file'[g] = IF g = h THEN "hex" ELSE file[g]
      BY <1>4, Zenon DEF Types, SpoolBlock
    <2> QED
      BY <1>0, <1>4, <2>1, QuietTruthful DEF SpoolBlock
  <1>5. ASSUME NEW i \in DOMAIN submit_queue, NEW reached \in SUBSET Nodes,
               NEW heard \in SUBSET Nodes, NEW reply \in Replies,
               SubmitLive(i, reached, heard, reply)
        PROVE  Truthful'
    <2> DEFINE h == submit_queue[i]
    <2>1. h \in Found /\ h \in fresh
      BY <1>5, RemovedRange, Zenon DEF Types, Held, Queue
    <2>2. /\ KnownBlocks \subseteq KnownBlocks'
          /\ KnownBlocks' \subseteq KnownBlocks \cup {h}
          /\ KnownBlocks' \cap Invalid = {}
          /\ reply \in {"accepted", "duplicate"} => h \in KnownBlocks'
          /\ reply = "rejected" => h \notin KnownBlocks'
      BY <1>5, <2>1, SubmitKnown, Zenon DEF SubmitLive
    <2>3. /\ live'.hash = h /\ live'.reply = reply
          /\ UNCHANGED <<rec_pc, rec, file, credits>>
      BY <1>5, Zenon DEF SubmitLive
    <2>4. rec_pc = "reply" => rec.hash # h
      BY <2>1, Zenon DEF Held
    <2>5. file[h] # "rejected"
      BY <2>1, Zenon DEF Held
    <2> HIDE DEF h
    <2> QED
      BY <2>2, <2>3, <2>4, <2>5, Zenon DEF Truthful
  <1>6. CASE LiveCredit
    <2>1. /\ KnownBlocks' = KnownBlocks /\ live_pc' # "reply"
          /\ UNCHANGED <<rec_pc, rec, file>>
          /\ live.hash \in KnownBlocks
      BY <1>0, <1>6, Zenon DEF LiveCredit, Truthful
    <2>2. \A g \in Found \ {live.hash} : credits'[g] = credits[g]
      BY <1>6 DEF LiveCredit, Types
    <2> QED
      BY <2>1, <2>2, Zenon DEF Truthful
  <1>7. CASE LiveCount \/ LiveRetry \/ LiveReject
    BY <1>0, <1>7, QuietTruthful, Zenon DEF LiveCount, LiveRetry, LiveReject
  <1>8. ASSUME NEW e \in recovery_queue, TakeRecovered(e) PROVE Truthful'
    BY <1>0, <1>8, QuietTruthful, Zenon DEF TakeRecovered
  <1>9. ASSUME NEW suffix \in Suffixes, rec_pc # "idle", Archive(rec.hash, suffix),
               suffix = "submitted" => rec.hash \in KnownBlocks,
               suffix = "rejected" => rec.hash \notin KnownBlocks
        PROVE  Truthful'
    <2>1. \/ file' = file
          \/ \A g \in Found : file'[g] = IF g = rec.hash THEN suffix ELSE file[g]
      BY <1>9, Zenon DEF Types, Archive
    <2>2. /\ KnownBlocks' = KnownBlocks /\ rec_pc' # "reply"
          /\ UNCHANGED <<live_pc, live, credits>>
      BY <1>0, <1>9, Zenon DEF Archive
    <2> QED
      BY <1>9, <2>1, <2>2, Zenon DEF Truthful
  <1>10. ASSUME NEW pc \in {"candidate", "submit"}, RecoveryGoesTo(pc)
         PROVE  Truthful'
    BY <1>0, <1>10, QuietTruthful, Zenon DEF RecoveryGoesTo
  <1>11. ASSUME NEW reached \in SUBSET Nodes, NEW heard \in SUBSET Nodes,
                NEW reply \in Replies, SubmitRecovered(reached, heard, reply)
         PROVE  Truthful'
    <2> DEFINE h == rec.hash
    <2>1. h \in Found /\ h \notin fresh /\ file[h] = "hex"
      BY <1>11, Zenon DEF Types, Held, SubmitRecovered
    <2>2. /\ KnownBlocks \subseteq KnownBlocks'
          /\ KnownBlocks' \subseteq KnownBlocks \cup {h}
          /\ KnownBlocks' \cap Invalid = {}
          /\ reply \in {"accepted", "duplicate"} => h \in KnownBlocks'
          /\ reply = "rejected" => h \notin KnownBlocks'
      BY <1>11, <2>1, SubmitKnown, Zenon DEF SubmitRecovered
    <2>3. /\ rec'.hash = h /\ rec'.reply = reply
          /\ UNCHANGED <<live_pc, live, file, credits>>
      BY <1>11, Zenon DEF SubmitRecovered, Types
    <2>4. live_pc = "reply" => live.hash # h
      BY <2>1, Zenon DEF Held
    <2> HIDE DEF h
    <2> QED
      BY <2>1, <2>2, <2>3, <2>4, Zenon DEF Truthful
  <1>12. CASE RecoveryRetries
    BY <1>0, <1>12, QuietTruthful, Zenon DEF RecoveryRetries
  <1>13. CASE StatusThread \/ RequestStop \/ DestroyPool \/ UNCHANGED vars
    BY <1>0, <1>13, QuietTruthful, Zenon
    DEF StatusThread, SnapshotFound, WriteStats, WriteStatsFails, RequestStop,
        DestroyPool, vars
  <1>14. CASE Terminate \/ Start
    BY <1>0, <1>14, QuietTruthful, Zenon DEF Terminate, Start
  <1>15. CASE RecoveryWorks
    BY <1>9, <1>10, <1>11, <1>12, <1>15, ArchiveIsTrue, Zenon DEF RecoveryResubmits
  <1>16. CASE SubmitThread
    BY <1>5, <1>6, <1>7, <1>16, Zenon DEF SubmitThread, LiveAnswered
  <1> QED
    BY <1>1, <1>2, <1>3, <1>4, <1>8, <1>13, <1>14, <1>15, <1>16, Zenon
    DEF Next, NodeSteps, ReactorSteps, RecoveryThread, ProcessSteps, Exit, Crash
-----------------------------------------------------------------------------
(* The counters.                                                            *)

\* Nothing is counted at the start.
LEMMA InitCounted == Init => Counted
  <1> SUFFICES ASSUME Init PROVE Counted
    BY Zenon
  <1>1. Ever = {}
    BY Zenon DEF Init, Ever
  <1>2. Cardinality(Ever) = 0
    BY <1>1, FS_EmptySet, Zenon
  <1> QED
    BY <1>2 DEF Init, Counted, ZeroStats

\* The number of blocks ever credited is a number.
LEMMA EverFinite == Cardinality(Ever) \in Nat /\ IsFiniteSet(Ever)
  <1>1. Ever \subseteq Found
    BY Zenon DEF Ever
  <1> QED
    BY <1>1, ConstantsAssumption, FS_Subset, FS_CardinalityType, Zenon

\* A step that counts nothing.
LEMMA QuietCounted ==
  ASSUME Counted, credits' = credits, credited' = credited, fresh' \subseteq fresh,
         UNCHANGED <<by_address, blocks_found, pool_status>>,
         live_pc' = "count" => live_pc = "count",
         status_pc' \in {"write", "final"} =>
           status_pc \in {"write", "final"} /\ snapshot' = snapshot
  PROVE  Counted'
  <1>1. Cardinality(Ever)' = Cardinality(Ever)
    BY Zenon DEF Ever
  <1> QED
    BY <1>1, Zenon DEF Counted

\* No step counts a block twice or out of order.
LEMMA NextCounted ==
  ASSUME Types, Held, Counted, [Next]_vars
  PROVE  Counted'
  <1>1. CASE NodeSteps
    BY <1>1, QuietCounted, Zenon DEF NodeSteps, NodeAdvances, NodeReorganises
  <1>2. ASSUME NEW h \in Found, FindBlock(h) PROVE Counted'
    <2>1. UNCHANGED <<counters, pool_status, status, credits, live_pc>>
      BY <1>2, Zenon DEF FindBlock
    <2>2. Cardinality(Ever)' = Cardinality(Ever)
      BY <2>1, Zenon DEF Ever
    <2>3. \A g \in fresh' : credits[g] # 0 => g \in credited
      <3>1. h \notin fresh => credits[h] = 0
        BY <1>2, Zenon DEF FindBlock, Held
      <3> QED
        BY <1>2, <3>1, Zenon DEF FindBlock, Counted
    <2> QED
      BY <2>1, <2>2, <2>3, Zenon DEF Counted
  <1>3. ASSUME NEW h \in Found, SpoolBlock(h) \/ SpoolFails(h) PROVE Counted'
    BY <1>3, QuietCounted, Zenon DEF SpoolBlock, SpoolFails
  <1>4. ASSUME NEW i \in DOMAIN submit_queue, NEW reached \in SUBSET Nodes,
               NEW heard \in SUBSET Nodes, NEW reply \in Replies,
               SubmitLive(i, reached, heard, reply)
        PROVE  Counted'
    BY <1>4, QuietCounted, Zenon DEF SubmitLive
  <1>5. CASE LiveCredit
    <2>1. CASE live.hash \in credited
      BY <1>5, <2>1, QuietCounted, Zenon DEF LiveCredit
    <2>2. CASE live.hash \notin credited
      <3> DEFINE h == live.hash
      <3>1. h \in Found /\ h \in fresh /\ credits[h] = 0
        BY <1>5, <2>2, Zenon DEF LiveCredit, Types, Held, Counted
      <3>2. /\ credited' = credited \cup {h} /\ by_address' = by_address + 1
            /\ \A g \in Found : credits'[g] = IF g = h THEN 1 ELSE credits[g]
            /\ UNCHANGED <<fresh, blocks_found, pool_status, status_pc, snapshot>>
        BY <1>5, <2>2, <3>1 DEF LiveCredit, Types
      <3> HIDE DEF h
      <3>3. Ever' = Ever \cup {h} /\ h \notin Ever
        BY <3>1, <3>2 DEF Ever
      <3>4. Cardinality(Ever)' = Cardinality(Ever) + 1
        BY <3>3, EverFinite, FS_AddElement, Zenon
      <3>5. /\ Cardinality(Ever) \in Nat /\ by_address \in Nat /\ blocks_found \in Nat
            /\ pool_status.by_address \in Nat
        BY EverFinite, Zenon DEF Types
      <3>6. \A g \in Found : credits'[g] <= 1
        BY <3>2 DEF Counted
      <3>7. \A g \in fresh' : credits'[g] # 0 => g \in credited'
        BY <3>2, Zenon DEF Counted, Types
      <3>8. /\ blocks_found <= by_address'
            /\ live_pc' = "count" => blocks_found < by_address'
        BY <3>2, <3>5 DEF Counted
      <3>9. /\ by_address' <= Cardinality(Ever)'
            /\ pool_status.by_address <= Cardinality(Ever)'
        BY <3>2, <3>4, <3>5 DEF Counted
      <3> QED
        BY <3>2, <3>6, <3>7, <3>8, <3>9, Zenon DEF Counted
    <2> QED
      BY <2>1, <2>2, Zenon
  <1>6. CASE LiveCount
    <2>1. /\ blocks_found' = blocks_found + 1 /\ live_pc = "count" /\ live_pc' = "idle"
          /\ UNCHANGED <<fresh, credits, credited, by_address, pool_status, status_pc, snapshot>>
      BY <1>6, Zenon DEF LiveCount
    <2>2. Cardinality(Ever)' = Cardinality(Ever)
      BY <2>1, Zenon DEF Ever
    <2>3. by_address \in Nat /\ blocks_found \in Nat /\ snapshot \in Nat
      BY Zenon DEF Types
    <2> QED
      BY <2>1, <2>2, <2>3 DEF Counted
  <1>7. CASE LiveRetry \/ LiveReject
    BY <1>7, QuietCounted, Zenon DEF LiveRetry, LiveReject
  <1>8. ASSUME NEW e \in recovery_queue, TakeRecovered(e) PROVE Counted'
    BY <1>8, QuietCounted, Zenon DEF TakeRecovered
  <1>9. ASSUME NEW suffix \in Suffixes, Archive(rec.hash, suffix) PROVE Counted'
    BY <1>9, QuietCounted, Zenon DEF Archive
  <1>10. ASSUME NEW pc \in {"candidate", "submit"}, RecoveryGoesTo(pc) PROVE Counted'
    BY <1>10, QuietCounted, Zenon DEF RecoveryGoesTo
  <1>11. ASSUME NEW reached \in SUBSET Nodes, NEW heard \in SUBSET Nodes,
                NEW reply \in Replies, SubmitRecovered(reached, heard, reply)
         PROVE  Counted'
    BY <1>11, QuietCounted, Zenon DEF SubmitRecovered
  <1>12. CASE RecoveryRetries
    BY <1>12, QuietCounted, Zenon DEF RecoveryRetries
  <1>13. CASE SnapshotFound \/ WriteStats \/ WriteStatsFails
    <2>1. UNCHANGED <<fresh, counters, credits, live_pc>>
      BY <1>13, Zenon DEF SnapshotFound, WriteStats, WriteStatsFails
    <2>2. Cardinality(Ever)' = Cardinality(Ever)
      BY <2>1, Zenon DEF Ever
    <2>3. status_pc' \in {"write", "final"} => snapshot' <= blocks_found
      <3>1. CASE SnapshotFound
        <4>1. snapshot' = blocks_found
          BY <3>1, Zenon DEF SnapshotFound
        <4>2. blocks_found \in Nat
          BY Zenon DEF Types
        <4> QED
          BY <4>1, <4>2
      <3>2. CASE WriteStats \/ WriteStatsFails
        <4>1. AfterWrite
          BY <3>2, Zenon DEF WriteStats, WriteStatsFails
        <4> QED
          BY <4>1, Zenon DEF AfterWrite
      <3> QED
        BY <1>13, <3>1, <3>2, Zenon
    <2>4. \/ pool_status' = pool_status
          \/ /\ pool_status'.found = snapshot /\ pool_status'.by_address = by_address
             /\ status_pc \in {"write", "final"}
      BY <1>13 DEF SnapshotFound, WriteStats, WriteStatsFails
    <2>5. by_address \in Nat /\ blocks_found \in Nat /\ snapshot \in Nat
      BY Zenon DEF Types
    <2> QED
      BY <2>1, <2>2, <2>3, <2>4, <2>5 DEF Counted
  <1>14. CASE RequestStop \/ DestroyPool \/ UNCHANGED vars
    BY <1>14, QuietCounted, Zenon DEF RequestStop, DestroyPool, vars
  <1>15. CASE Terminate
    <2>1. Cardinality(Ever)' = Cardinality(Ever) /\ Cardinality(Ever) \in Nat
      BY <1>15, EverFinite, Zenon DEF Terminate, Ever
    <2> QED
      BY <1>15, <2>1 DEF Terminate, Counted
  <1>16. CASE Start
    <2>1. /\ UNCHANGED <<fresh, credited, credits, live_pc, status_pc, snapshot, pool_status>>
          /\ blocks_found' = pool_status.found /\ by_address' = pool_status.by_address
          /\ fresh = {} /\ live_pc = "idle"
      BY <1>16, Zenon DEF Start, Held
    <2>2. Cardinality(Ever)' = Cardinality(Ever)
      BY <2>1, Zenon DEF Ever
    <2>3. status_pc = "idle"
      BY <1>16, Zenon DEF Start, Types
    <2> QED
      BY <2>1, <2>2, <2>3, Zenon DEF Counted
  <1>17. CASE RecoveryWorks
    BY <1>9, <1>10, <1>11, <1>12, <1>17, RecoveryWorksBy, Zenon DEF RecoveryResubmits
  <1>18. CASE SubmitThread
    BY <1>4, <1>5, <1>6, <1>7, <1>18, Zenon DEF SubmitThread, LiveAnswered
  <1> QED
    BY <1>1, <1>2, <1>3, <1>8, <1>13, <1>14, <1>15, <1>16, <1>17, <1>18, Zenon
    DEF Next, ReactorSteps, RecoveryThread, StatusThread, ProcessSteps, Exit, Crash
-----------------------------------------------------------------------------
(* Nothing is dropped.                                                      *)

\* NoBlockLost, said of the queue as a set.
Kept ==
    Running =>
        \A h \in Found :
            (h \in fresh \/ file[h] = "hex") /\ h \notin settled =>
                \/ h \in Queue
                \/ live_pc # "idle" /\ live.hash = h
                \/ \E e \in recovery_queue : e.hash = h
                \/ rec_pc # "idle" /\ rec.hash = h

\* The two say the same.
LEMMA KeptIsNoBlockLost == NoBlockLost <=> Kept
  <1>1. \A h : (\E i \in DOMAIN submit_queue : submit_queue[i] = h) <=> h \in Queue
    BY Zenon DEF Queue, Range
  <1> QED
    BY <1>1, Zenon DEF NoBlockLost, Kept, InLive, InRecovery

\* No step of either thread, of a reactor or of the process drops a block that
\* nothing has settled.
LEMMA NextKept ==
  ASSUME Types, Held, Kept, [Next]_vars
  PROVE  Kept'
  <1>1. CASE UNCHANGED holding
    BY <1>1, Zenon DEF holding, Kept, Queue, Running
  <1>2. CASE NodeSteps \/ StatusThread \/ UNCHANGED vars
    BY <1>1, <1>2, Zenon
    DEF holding, NodeSteps, NodeAdvances, NodeReorganises, StatusThread,
        SnapshotFound, WriteStats, WriteStatsFails, vars
  <1>3. ASSUME NEW h \in Found, FindBlock(h) PROVE Kept'
    <2>1. Queue' = Queue \cup {h}
      BY <1>3, AppendedRange DEF Types, FindBlock, Queue
    <2> QED
      BY <1>3, <2>1, Zenon DEF Kept, FindBlock, Running
  <1>4. ASSUME NEW h \in Found, SpoolBlock(h) PROVE Kept'
    <2>1. /\ h \in fresh /\ \A g \in Found \ {h} : file'[g] = file[g]
          /\ UNCHANGED <<phase, fresh, submit_queue, live_pc, live, recovery_queue,
                         rec_pc, rec, settled>>
      BY <1>4, Zenon DEF Types, SpoolBlock
    <2> QED
      BY <2>1, Zenon DEF Kept, Queue, Running
  <1>5. ASSUME NEW h \in Found, SpoolFails(h) PROVE Kept'
    BY <1>1, <1>5, Zenon DEF holding, SpoolFails
  <1>6. ASSUME NEW i \in DOMAIN submit_queue, NEW reached \in SUBSET Nodes,
               NEW heard \in SUBSET Nodes, NEW reply \in Replies,
               SubmitLive(i, reached, heard, reply)
        PROVE  Kept'
    <2>1. Queue \subseteq Queue' \cup {submit_queue[i]}
      BY <1>6, RemovedRange, Zenon DEF Types, SubmitLive, Queue
    <2>2. /\ live'.hash = submit_queue[i] /\ live_pc' = "reply" /\ live_pc = "idle"
          /\ UNCHANGED <<phase, fresh, file, recovery_queue, rec_pc, rec, settled>>
      BY <1>6, Zenon DEF SubmitLive
    <2> QED
      BY <2>1, <2>2, Zenon DEF Kept, Running
  <1>7. CASE LiveCredit \/ LiveCount \/ LiveReject
    <2>1. /\ live.hash \in settled' /\ settled \subseteq settled'
          /\ UNCHANGED <<phase, fresh, file, submit_queue, recovery_queue, rec_pc, rec>>
      BY <1>7, Zenon DEF LiveCredit, LiveCount, LiveReject, Held
    <2> QED
      BY <2>1, Zenon DEF Kept, Queue, Running
  <1>8. CASE LiveRetry
    <2>1. Running => Queue' = Queue \cup {live.hash}
      BY <1>8, AppendedRange DEF Types, LiveRetry, Queue
    <2>2. UNCHANGED <<phase, fresh, file, recovery_queue, rec_pc, rec, settled>>
      BY <1>8, Zenon DEF LiveRetry
    <2> QED
      BY <2>1, <2>2, Zenon DEF Kept, Running
  <1>9. ASSUME NEW e \in recovery_queue, TakeRecovered(e) PROVE Kept'
    <2>1. /\ rec'.hash = e.hash /\ recovery_queue' = recovery_queue \ {e}
          /\ rec_pc = "idle" /\ rec_pc' # "idle"
          /\ UNCHANGED <<phase, fresh, submit_queue, live_pc, live, file, settled>>
      BY <1>9, Zenon DEF TakeRecovered
    <2> QED
      BY <2>1, Zenon DEF Kept, Queue, Running
  <1>10. ASSUME NEW suffix \in Suffixes, rec_pc # "idle", Archive(rec.hash, suffix)
         PROVE  Kept'
    <2>1. /\ \A g \in Found \ {rec.hash} : file'[g] = file[g]
          /\ settled' = settled \cup {rec.hash}
          /\ UNCHANGED <<phase, fresh, submit_queue, live_pc, live, recovery_queue>>
      BY <1>10, Zenon DEF Types, Archive
    <2> QED
      BY <2>1, Zenon DEF Kept, Queue, Running
  <1>11. ASSUME NEW pc \in {"candidate", "submit"}, rec_pc # "idle", RecoveryGoesTo(pc)
         PROVE  Kept'
    BY <1>11, Zenon DEF Kept, Queue, Running, RecoveryGoesTo
  <1>12. ASSUME NEW reached \in SUBSET Nodes, NEW heard \in SUBSET Nodes,
                NEW reply \in Replies, SubmitRecovered(reached, heard, reply)
         PROVE  Kept'
    <2>1. /\ rec'.hash = rec.hash /\ rec_pc' # "idle"
          /\ UNCHANGED <<phase, fresh, submit_queue, live_pc, live, recovery_queue,
                         file, settled>>
      BY <1>12, Zenon DEF Types, SubmitRecovered
    <2> QED
      BY <2>1, Zenon DEF Kept, Queue, Running
  <1>13. CASE RecoveryRetries
    <2>1. /\ recovery_queue \subseteq recovery_queue'
          /\ Running => \E e \in recovery_queue' : e.hash = rec.hash
          /\ UNCHANGED <<phase, fresh, submit_queue, live_pc, live, file, settled>>
      <3> DEFINE back == [hash |-> rec.hash, submitted_once |-> rec.submitted_once]
      <3>1. recovery_queue' = IF Running THEN recovery_queue \cup {back}
                                         ELSE recovery_queue
        BY <1>13, Zenon DEF RecoveryRetries
      <3>2. back.hash = rec.hash
        BY Zenon
      <3>3. UNCHANGED <<phase, fresh, submit_queue, live_pc, live, file, settled>>
        BY <1>13, Zenon DEF RecoveryRetries
      <3> HIDE DEF back
      <3> QED
        BY <3>1, <3>2, <3>3, Zenon
    <2> QED
      BY <2>1, Zenon DEF Kept, Queue, Running
  <1>14. CASE RequestStop \/ DestroyPool
    BY <1>14, Zenon DEF Kept, Queue, Running, RequestStop, DestroyPool
  <1>15. CASE Terminate
    BY <1>15, Zenon DEF Kept, Running, Terminate
  <1>16. CASE Start
    <2>1. /\ fresh' = {}
          /\ \A h \in Found : file'[h] = "hex" => \E e \in recovery_queue' : e.hash = h
      <3>1. fresh' = {} /\ file' = file
        BY <1>16, Zenon DEF Start, Held
      <3>2. ASSUME NEW h \in Found, file[h] = "hex"
            PROVE  \E e \in recovery_queue' : e.hash = h
        <4>1. [hash |-> h, submitted_once |-> FALSE] \in recovery_queue'
          BY <1>16, <3>2, Zenon DEF Start
        <4> QED
          BY <4>1, Zenon
      <3> QED
        BY <3>1, <3>2, Zenon
    <2> QED
      BY <2>1, Zenon DEF Kept
  <1>17. CASE RecoveryWorks
    BY <1>10, <1>11, <1>12, <1>13, <1>17, RecoveryWorksBy, Zenon DEF RecoveryResubmits
  <1>18. CASE SubmitThread
    BY <1>6, <1>7, <1>8, <1>18, Zenon DEF SubmitThread, LiveAnswered
  <1> QED
    BY <1>2, <1>3, <1>4, <1>5, <1>9, <1>14, <1>15, <1>16, <1>17, <1>18, Zenon
    DEF Next, ReactorSteps, RecoveryThread, ProcessSteps, Exit, Crash

-----------------------------------------------------------------------------
(* The theorems.                                                            *)

\* The invariant holds in every reachable state.
LEMMA AlwaysBlockInv == Spec => []BlockInv
  <1>1. Init => BlockInv
    <2>1. Init => Kept
      BY Zenon DEF Init, Kept
    <2> QED
      BY <2>1, InitTypes, InitHeld, InitTruthful, InitCounted, KeptIsNoBlockLost, Zenon
      DEF BlockInv
  <1>2. BlockInv /\ [Next]_vars => BlockInv'
    <2> SUFFICES ASSUME Types, Held, Truthful, Counted, NoBlockLost, [Next]_vars
                 PROVE  BlockInv'
      BY Zenon DEF BlockInv
    <2>1. Types' /\ Held' /\ Truthful' /\ Counted'
      BY NextTypes, NextHeld, NextTruthful, NextCounted, Zenon
    <2>2. Kept'
      BY NextKept, KeptIsNoBlockLost, Zenon
    <2>3. NoBlockLost' <=> Kept'
      BY KeptIsNoBlockLost, PTL
    <2> QED
      BY <2>1, <2>2, <2>3, Zenon DEF BlockInv
  <1> QED
    BY <1>1, <1>2, PTL DEF Spec

\* Until an answer settles it, a found or a spooled block stays queued or in
\* hand, through errors, inconclusive answers, failed writes, and restarts.
THEOREM BlocksAreKept == Spec => []NoBlockLost
  BY AlwaysBlockInv, PTL DEF BlockInv

\* A block is credited at most once over all runs of the process, and only
\* when a node has it.
THEOREM BlocksAreCreditedOnce == Spec => []CreditedOnce
  <1>1. BlockInv => CreditedOnce
    <2> SUFFICES ASSUME BlockInv, NEW h \in Found
                 PROVE  /\ credits[h] <= 1
                        /\ credits[h] = 1 => \E n \in Nodes : h \in Known(n)
      BY Zenon DEF CreditedOnce
    <2>1. credits[h] # 0 => h \in KnownBlocks
      BY Zenon DEF BlockInv, Truthful
    <2>2. credits[h] <= 1
      BY Zenon DEF BlockInv, Counted
    <2>3. credits[h] = 1 => credits[h] # 0
      OBVIOUS
    <2> QED
      BY <2>1, <2>2, <2>3, Zenon DEF KnownBlocks
  <1> QED
    BY <1>1, AlwaysBlockInv, PTL

\* Neither the counters in memory nor those in pool.status ever count more
\* blocks than were credited.
THEOREM CountersAreBounded == Spec => []NeverOvercounted
  <1>1. BlockInv => NeverOvercounted
    BY Zenon DEF BlockInv, Counted, NeverOvercounted, Ever
  <1> QED
    BY <1>1, AlwaysBlockInv, PTL

\* A block is dropped or archived as rejected only when no node has it, and
\* archived as submitted only when some node has.
THEOREM RejectionsAreUnanimous == Spec => []RejectionIsUnanimous
  <1>1. BlockInv => RejectionIsUnanimous
    <2>1. \A h : h \in KnownBlocks <=> \E n \in Nodes : h \in Known(n)
      BY Zenon DEF KnownBlocks
    <2> QED
      BY <2>1, Zenon DEF BlockInv, Truthful, RejectionIsUnanimous
  <1> QED
    BY <1>1, AlwaysBlockInv, PTL
=============================================================================

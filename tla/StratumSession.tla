-------------------------- MODULE StratumSession --------------------------
(***************************************************************************)
(* One Stratum V1 session (stratum/session.cpp) with the parts of the pool *)
(* it calls: the recent jobs it looks shares up in, the share counters and *)
(* the worker rows it credits.  Three kinds of thread run it: the reactor  *)
(* worker that owns the connection handles its lines one at a time, the    *)
(* publishing threads send it work, the vardiff thread retargets it.  The  *)
(* session's mutex makes a handler atomic, except mining.submit, which     *)
(* validates and accounts the share without it: three steps.               *)
(*                                                                         *)
(* Jobs are publication sequence numbers.  Difficulties are powers of two, *)
(* which is all vardiff and the bounds of a configuration produce here.    *)
(* The hash of a share is an input: whatever difficulty it turns out to    *)
(* meet.                                                                   *)
(***************************************************************************)
EXTENDS Vardiff, Sequences, FiniteSets, Functions

CONSTANTS
  Addresses,        \* payout addresses that validate
  None,             \* no address, no cached coinbase, no share
  Solutions,        \* the (extranonce2, ntime, nonce) triples a miner submits
  VersionBits,      \* version bits a miner submits: NoBits or 0..3
  PoolMask,         \* bits the pool lets a miner roll: {} or {1}
  Difficulties,     \* difficulties hashes meet and miners suggest
  InitialDifficulty, NetworkDifficulty,
  RecentLimit,      \* kMaxRecentJobs
  SeenLimit,        \* kMaxSeenShares
  MaxJobs,          \* bound: publications
  MaxSubmits,       \* bound: mining.submit requests
  MaxChanges        \* bound: difficulty changes, authorizations, configurations

NoBits == -1

\* What is wrong with the fields of a share, in the order they are checked.
Shapes == {"good", "missing", "wide", "malformed", "short", "early"}

ASSUME SolutionsAssumption == Solutions \subseteq [n : Nat, shape : Shapes]
ASSUME DifficultiesAssumption ==
  /\ Difficulties \subseteq Nat \ {0}
  /\ {InitialDifficulty, NetworkDifficulty} \subseteq Nat \ {0}
ASSUME BoundsAssumption ==
  /\ {RecentLimit, SeenLimit} \subseteq Nat \ {0}
  /\ {MaxJobs, MaxSubmits, MaxChanges} \subseteq Nat
  /\ PoolMask \in SUBSET {1}
  /\ VersionBits \subseteq {NoBits} \cup 0..3

VARIABLES
  published,        \* the pool: jobs published so far (job n is the n-th)
  undelivered,      \* publications on their way to this session: [job, clean]
  accepted_shares, rejected_shares,   \* the pool's counters
  rows,             \* worker rows: shares credited and refused per address
  subscribed, authorized, address, version_mask,
  difficulty, previous_difficulty, pending_difficulty_change,
  mined,            \* whether shares_since_retarget_ is above zero
  seen_shares_current, seen_shares_previous,
  coinbase2_cache,  \* [job, pays] or None
  last_notified_publication_sequence,
  shares_accepted, shares_rejected, protocol_errors,
  pc, share,        \* the mining.submit being handled: its step, its snapshot
  told,             \* the difficulty the miner was last sent
  sent,             \* that difficulty when it was last sent a job
  ledger,           \* history: the shares credited, in order
  rotations,        \* history: generations of seen shares so far
  submits, changes

pool == <<published, undelivered, accepted_shares, rejected_shares, rows>>
identity == <<subscribed, authorized, address, version_mask>>
level == <<difficulty, previous_difficulty, pending_difficulty_change, mined>>
dedup == <<seen_shares_current, seen_shares_previous, rotations>>
work == <<coinbase2_cache, last_notified_publication_sequence>>
counters == <<shares_accepted, shares_rejected, protocol_errors>>
miner == <<told, sent>>
vars == <<pool, identity, level, dedup, work, counters, miner, pc, share,
          ledger, submits, changes>>

Init ==
  /\ published = 0 /\ undelivered = {}
  /\ accepted_shares = 0 /\ rejected_shares = 0
  /\ rows = [a \in Addresses |-> [accepted |-> 0, rejected |-> 0]]
  /\ subscribed = FALSE /\ authorized = FALSE /\ address = None /\ version_mask = {}
  /\ difficulty = Larger(InitialDifficulty, MinimumDifficulty)
  /\ previous_difficulty = 0 /\ pending_difficulty_change = FALSE /\ mined = FALSE
  /\ seen_shares_current = {} /\ seen_shares_previous = {} /\ rotations = 0
  /\ coinbase2_cache = None /\ last_notified_publication_sequence = 0
  /\ shares_accepted = 0 /\ shares_rejected = 0 /\ protocol_errors = 0
  /\ pc = "idle" /\ share = None
  /\ told = 0 /\ sent = 0
  /\ ledger = <<>> /\ submits = 0 /\ changes = 0

----------------------------------------------------------------------------
(* The pool's side.                                                        *)

\* The last RecentLimit publications still take shares, clean or not.
RecentJobs == {j \in 1..published : j > published - RecentLimit}

\* broadcast_job: the job is current and recent, then on its way to everyone.
Publish ==
  /\ published < MaxJobs
  /\ published' = published + 1
  /\ \E clean \in BOOLEAN :
       undelivered' = undelivered \cup {[job |-> published + 1, clean |-> clean]}
  /\ UNCHANGED <<accepted_shares, rejected_shares, rows, identity, level, dedup,
                 work, counters, miner, pc, share, ledger, submits, changes>>

\* note_rejected_share and note_accepted_share, for an address with a row.
NoteRejected(a) ==
  /\ rejected_shares' = rejected_shares + 1
  /\ rows' = [rows EXCEPT ![a].rejected = @ + 1]
  /\ UNCHANGED accepted_shares

NoteAccepted(a) ==
  /\ accepted_shares' = accepted_shares + 1
  /\ rows' = [rows EXCEPT ![a].accepted = @ + 1]
  /\ UNCHANGED rejected_shares

----------------------------------------------------------------------------
(* Sending work.                                                           *)

\* rotate_seen_shares: the live set becomes the lookback set.
Rotate ==
  /\ seen_shares_previous' = seen_shares_current
  /\ rotations' = rotations + 1

Coinbase2For(j, a) ==
  IF coinbase2_cache # None /\ coinbase2_cache.job = j
  THEN coinbase2_cache ELSE [job |-> j, pays |-> a]

\* Fault: a clean job clears what was seen.
ClearOnClean(clean) ==
  /\ seen_shares_current' = IF clean THEN {} ELSE seen_shares_current
  /\ seen_shares_previous' = IF clean THEN {} ELSE seen_shares_previous
  /\ UNCHANGED rotations

\* A rotation of an empty live set would discard the lookback set.
CleanRotation(clean) ==
  IF clean /\ seen_shares_current # {}
  THEN Rotate /\ seen_shares_current' = {}
  ELSE UNCHANGED dedup

\* build_notify_line for a session that is subscribed and authorized as a.
BuildNotify(j, clean, a, cache, level_now) ==
  /\ last_notified_publication_sequence' =
       Larger(last_notified_publication_sequence, j)
  /\ coinbase2_cache' = IF cache # None /\ cache.job = j
                        THEN cache ELSE [job |-> j, pays |-> a]
  /\ CleanRotation(clean)
  /\ pending_difficulty_change' = FALSE
  /\ sent' = level_now

\* send_notify, from a publishing thread: work already superseded is dropped.
Notify ==
  \E p \in undelivered :
    /\ undelivered' = undelivered \ {p}
    /\ \/ /\ p.job <= last_notified_publication_sequence \/ ~subscribed \/ ~authorized
          /\ UNCHANGED <<work, dedup, pending_difficulty_change, sent>>
       \/ /\ p.job > last_notified_publication_sequence /\ subscribed /\ authorized
          /\ BuildNotify(p.job, p.clean, address, coinbase2_cache, difficulty)
    /\ UNCHANGED <<published, accepted_shares, rejected_shares, rows, identity,
                   difficulty, previous_difficulty, mined, counters, told, pc,
                   share, ledger, submits, changes>>

\* send_difficulty_then_work: the difficulty, then the current job, as clean.
SendDifficultyThenWork(a, cache) ==
  /\ told' = difficulty
  /\ \/ /\ published = 0 \/ ~subscribed'
        /\ coinbase2_cache' = cache
        /\ UNCHANGED <<last_notified_publication_sequence, dedup,
                       pending_difficulty_change, sent>>
     \/ /\ published > 0 /\ subscribed'
        /\ BuildNotify(published, TRUE, a, cache, difficulty)

----------------------------------------------------------------------------
(* The handlers of the reactor worker, one line at a time.                 *)

\* Fault: the client authorized before waits for the next broadcast.
SubscribeWithoutWork ==
  /\ pc = "idle" /\ changes < MaxChanges
  /\ changes' = changes + 1
  /\ subscribed' = TRUE
  /\ UNCHANGED <<pool, authorized, address, version_mask, level, dedup, work,
                 counters, miner, pc, share, ledger, submits>>

\* handle_subscribe: a client authorized before is sent its work now.
Subscribe ==
  /\ pc = "idle" /\ changes < MaxChanges
  /\ changes' = changes + 1
  /\ subscribed' = TRUE
  /\ \/ authorized /\ SendDifficultyThenWork(address, coinbase2_cache)
     \/ ~authorized /\ UNCHANGED <<miner, work, dedup, pending_difficulty_change>>
  /\ UNCHANGED <<pool, authorized, address, version_mask, difficulty,
                 previous_difficulty, mined, counters, pc, share, ledger,
                 submits>>

\* handle_configure: BIP310 version rolling, within the pool's mask.
Configure ==
  /\ pc = "idle" /\ changes < MaxChanges
  /\ changes' = changes + 1
  /\ \E client_mask \in SUBSET {1} : version_mask' = client_mask \cap PoolMask
  /\ UNCHANGED <<pool, subscribed, authorized, address, level, dedup, work,
                 counters, miner, pc, share, ledger, submits>>

\* Fault: the cached coinbase survives a change of address.
AuthorizeKeepsCoinbase ==
  /\ pc = "idle" /\ changes < MaxChanges
  /\ changes' = changes + 1
  /\ \E a \in Addresses :
       /\ authorized' = TRUE /\ address' = a
       /\ UNCHANGED <<subscribed, version_mask>>
       /\ SendDifficultyThenWork(a, coinbase2_cache)
  /\ UNCHANGED <<pool, difficulty, previous_difficulty, mined, counters, pc,
                 share, ledger, submits>>

\* handle_authorize: a username without an address is misbehaviour, an invalid
\* address leaves the session as it was; a new address drops the cached coinbase.
Authorize ==
  /\ pc = "idle" /\ changes < MaxChanges
  /\ changes' = changes + 1
  /\ \E a \in Addresses :
       /\ authorized' = TRUE /\ address' = a
       /\ UNCHANGED <<subscribed, version_mask>>
       /\ SendDifficultyThenWork(a, IF address = a THEN coinbase2_cache ELSE None)
  /\ UNCHANGED <<pool, difficulty, previous_difficulty, mined, counters, pc,
                 share, ledger, submits>>

BadAuthorize ==
  /\ pc = "idle" /\ changes < MaxChanges
  /\ changes' = changes + 1
  /\ \E empty \in BOOLEAN :
       protocol_errors' = IF empty THEN protocol_errors + 1 ELSE protocol_errors
  /\ UNCHANGED <<pool, identity, level, dedup, work, shares_accepted,
                 shares_rejected, miner, pc, share, ledger, submits>>

\* Fault: a second change forgets what the miner's job was sent with.
ChangeForgetsPrevious(d) ==
  /\ previous_difficulty' = difficulty
  /\ difficulty' = d
  /\ pending_difficulty_change' = TRUE

\* begin_difficulty_change: until the next job, what was announced with the last
\* one still counts; a second change keeps the first one's previous difficulty.
BeginDifficultyChange(d) ==
  /\ previous_difficulty' =
       IF pending_difficulty_change THEN previous_difficulty ELSE difficulty
  /\ difficulty' = d
  /\ pending_difficulty_change' = TRUE

\* handle_suggest_difficulty: also restarts the vardiff window.
SuggestDifficulty ==
  /\ pc = "idle" /\ changes < MaxChanges
  /\ changes' = changes + 1
  /\ \E d \in Difficulties :
       /\ Clamp(d) # difficulty
       /\ BeginDifficultyChange(Clamp(d))
       /\ mined' = FALSE
       /\ told' = IF subscribed THEN Clamp(d) ELSE told
  /\ UNCHANGED <<pool, identity, dedup, work, counters, sent, pc, share, ledger,
                 submits>>

\* maybe_retarget, from the vardiff thread, a retarget interval after the last:
\* without a share since then the rate is zero, with one it may be any.
MaybeRetarget ==
  /\ authorized /\ changes < MaxChanges
  /\ changes' = changes + 1
  /\ mined' = FALSE
  /\ \E rate \in RatesAfter(mined) :
       LET d == VardiffNext(difficulty, rate) IN
       \/ /\ d # difficulty
          /\ BeginDifficultyChange(d)
          /\ told' = d
       \/ /\ d = difficulty
          /\ UNCHANGED <<difficulty, previous_difficulty,
                         pending_difficulty_change, told>>
  /\ UNCHANGED <<pool, identity, dedup, work, counters, sent, pc, share, ledger,
                 submits>>

----------------------------------------------------------------------------
(* mining.submit.                                                          *)

\* The lowest difficulty a share may meet under a snapshot of the session.
Required(d, previous, pending) == IF pending THEN Smaller(d, previous) ELSE d

\* make_dedup_key: job, fields, version bits as spelled, negotiated mask.
DedupKey(s) == <<s.job, s.fields, s.bits, version_mask>>

\* remember: a full live set becomes the lookback set first.
Remember(key) ==
  IF Cardinality(seen_shares_current) >= SeenLimit
  THEN Rotate /\ seen_shares_current' = {key}
  ELSE /\ seen_shares_current' = seen_shares_current \cup {key}
       /\ UNCHANGED <<seen_shares_previous, rotations>>

\* A refusal under the lock: the pool and the row count it, and the session.
Refuse(misbehaved) ==
  /\ NoteRejected(address)
  /\ shares_rejected' = shares_rejected + 1
  /\ protocol_errors' = IF misbehaved THEN protocol_errors + 1 ELSE protocol_errors
  /\ UNCHANGED <<shares_accepted, dedup, coinbase2_cache, pc, share>>

\* The first step, under the lock: a session without identity is told so, and
\* one that left parameters out; an unknown job, an over-wide field and a known
\* share are refused, in that order; anything else is remembered and the state
\* it is judged by copied.
Submit ==
  /\ pc = "idle" /\ submits < MaxSubmits
  /\ submits' = submits + 1
  /\ \E s \in [job : 1..MaxJobs, fields : Solutions, bits : VersionBits] :
       \/ /\ ~authorized \/ ~subscribed \/ s.fields.shape = "missing"
          /\ protocol_errors' = protocol_errors + 1
          /\ UNCHANGED <<accepted_shares, rejected_shares, rows, dedup,
                         coinbase2_cache, shares_accepted, shares_rejected, pc, share>>
       \/ /\ authorized /\ subscribed
          /\ s.fields.shape # "missing" /\ s.job \notin RecentJobs
          /\ Refuse(FALSE)
       \/ /\ authorized /\ subscribed /\ s.job \in RecentJobs
          /\ s.fields.shape = "wide"
          /\ Refuse(TRUE)
       \/ /\ authorized /\ subscribed /\ s.job \in RecentJobs
          /\ s.fields.shape \notin {"missing", "wide"}
          /\ DedupKey(s) \in seen_shares_current \cup seen_shares_previous
          /\ Refuse(FALSE)
       \/ /\ authorized /\ subscribed /\ s.job \in RecentJobs
          /\ s.fields.shape \notin {"missing", "wide"}
          /\ DedupKey(s) \notin seen_shares_current \cup seen_shares_previous
          /\ Remember(DedupKey(s))
          /\ coinbase2_cache' = Coinbase2For(s.job, address)
          /\ pc' = "validate"
          /\ share' = [key |-> DedupKey(s), job |-> s.job, fields |-> s.fields,
                       bits |-> s.bits, to |-> address,
                       pays |-> Coinbase2For(s.job, address).pays,
                       difficulty |-> difficulty, previous |-> previous_difficulty,
                       pending |-> pending_difficulty_change, mask |-> version_mask,
                       gen |-> rotations']
          /\ UNCHANGED <<accepted_shares, rejected_shares, rows, counters>>
  /\ UNCHANGED <<published, undelivered, identity, level,
                 last_notified_publication_sequence, miner, ledger, changes>>

\* Job::validate_share up to the hash: the fields, then the version bits.
BitSet(b) == {i \in {1, 2} : (b \div i) % 2 = 1}
ValidFields(s) ==
  /\ s.fields.shape = "good"
  /\ s.bits # NoBits => BitSet(s.bits) \subseteq s.mask

\* The version a header has: the rolled bits where the mask allows rolling.
HeaderVersion(s) ==
  IF s.bits = NoBits \/ s.mask = {} THEN {} ELSE BitSet(s.bits) \cap s.mask

\* validate_header: a block counts whatever the share difficulty is.
MeetsTarget(s, met) ==
  \/ met >= NetworkDifficulty
  \/ met >= Required(s.difficulty, s.previous, s.pending)

\* Fault: the session's difficulty is credited whatever was met.
CreditedAtSession(s, met) == s.difficulty

\* What an accepted share is credited: while a change is pending the higher of
\* the two difficulties if the hash met it, else the lower.
Credited(s, met) ==
  LET hi == Larger(s.difficulty, s.previous) IN
  IF ~s.pending THEN s.difficulty
  ELSE IF met >= hi THEN hi ELSE Smaller(s.difficulty, s.previous)

\* The second step, without the lock: the pool's accounting of the outcome.
Validate ==
  /\ pc = "validate"
  /\ \E met \in Difficulties :
       \/ /\ ~ValidFields(share) \/ ~MeetsTarget(share, met)
          /\ NoteRejected(share.to)
          /\ pc' = IF ValidFields(share) THEN "low" ELSE "invalid"
          /\ UNCHANGED <<share, ledger>>
       \/ /\ ValidFields(share) /\ MeetsTarget(share, met)
          /\ NoteAccepted(share.to)
          /\ pc' = "accepted"
          /\ ledger' = Append(ledger,
               [key |-> share.key, to |-> share.to, pays |-> share.pays,
                header |-> <<share.job, share.fields, HeaderVersion(share), share.pays>>,
                credit |-> Credited(share, met), met |-> met,
                block |-> met >= NetworkDifficulty, gen |-> share.gen])
          /\ UNCHANGED share
  /\ UNCHANGED <<published, undelivered, identity, level, dedup, work, counters,
                 miner, submits, changes>>

\* The last step, under the lock again: the session's own accounting and the
\* reply.  An accepted share clears the protocol errors.
Finish ==
  /\ pc \in {"accepted", "low", "invalid"}
  /\ pc' = "idle" /\ share' = None
  /\ \/ /\ pc = "accepted"
        /\ shares_accepted' = shares_accepted + 1
        /\ protocol_errors' = 0
        /\ mined' = TRUE
        /\ UNCHANGED shares_rejected
     \/ /\ pc # "accepted"
        /\ shares_rejected' = shares_rejected + 1
        /\ protocol_errors' = IF pc = "invalid" THEN protocol_errors + 1
                              ELSE protocol_errors
        /\ UNCHANGED <<shares_accepted, mined>>
  /\ UNCHANGED <<pool, identity, difficulty, previous_difficulty,
                 pending_difficulty_change, dedup, work, miner, ledger, submits,
                 changes>>

Next ==
  \/ Publish \/ Notify
  \/ Subscribe \/ Configure \/ Authorize \/ BadAuthorize \/ SuggestDifficulty
  \/ MaybeRetarget
  \/ Submit \/ Validate \/ Finish

Spec == Init /\ [][Next]_vars

----------------------------------------------------------------------------
(* Properties.                                                             *)

\* A miner that has been sent work knows the difficulty the session holds it to:
\* every path that changes difficulty_ or first sends work sends it too, also
\* when mining.authorize or mining.suggest_difficulty come before subscribe.
MinerKnowsDifficulty == subscribed /\ authorized => told = difficulty

\* On the newest job it was sent a miner is never held to more than the
\* difficulty that job came with, however often vardiff and the miner's own
\* suggestions change it before the next job (begin_difficulty_change).
HonoursSentDifficulty ==
  last_notified_publication_sequence > 0 =>
    Required(difficulty, previous_difficulty, pending_difficulty_change) <= sent

\* A share is credited to the address its coinbase pays, also across a
\* re-authorization with another address (coinbase2_for, handle_authorize).
CreditPaysMiner == \A i \in DOMAIN ledger : ledger[i].to = ledger[i].pays

\* A share that is no block is credited at most the difficulty its hash met,
\* whichever difficulty was pending when it was submitted (handle_submit).
CreditIsEarned ==
  \A i \in DOMAIN ledger : ledger[i].credit <= ledger[i].met \/ ledger[i].block

\* A key that was credited is credited again only after two rotations of the
\* seen shares, whether clean jobs or the size limit rotated them: one
\* generation of lookback in bounded memory (rotate_seen_shares, kMaxSeenShares).
RememberedForAGeneration ==
  /\ \A i, j \in DOMAIN ledger :
       i < j /\ ledger[i].key = ledger[j].key => ledger[j].gen >= ledger[i].gen + 2
  /\ Cardinality(seen_shares_current) <= SeenLimit
  /\ Cardinality(seen_shares_previous) <= SeenLimit

\* session.hpp, make_dedup_key: "different spellings of one share collapse", so
\* no header is credited twice while its key is remembered.
SpellingsCollapse ==
  \A i, j \in DOMAIN ledger :
    i < j /\ ledger[i].header = ledger[j].header =>
      ledger[j].gen >= ledger[i].gen + 2

=============================================================================
